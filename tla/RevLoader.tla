------------------------------ MODULE RevLoader ------------------------------
(***************************************************************************)
(* Loading a program (src/RevLoader.cc) into the memory of RevMem: the     *)
(* segments of the program headers, the first stack, the contents of the   *)
(* headers and of the loadable segments, the symbols, the heap, and the    *)
(* arguments of main at the top of memory.                                 *)
(*                                                                         *)
(* A byte is a triple: <<"char", c, 0>> a character (0 is also the byte    *)
(* 0), <<"file", i, 0>> and <<"phdr", i, 0>> byte i of the file and of its *)
(* program headers, <<"word", v, k>> byte k of the number v.  Memory has   *)
(* the bytes written so far; everything else is 0.  A write that starts    *)
(* outside of all segments is a segmentation fault and ends the program.   *)
(* Writes over the end of one of RevMem's pages are in RevPaging.          *)
(***************************************************************************)
EXTENDS CacheLines, Sequences, FiniteSetsExt, SequencesExt

CONSTANTS
  memSize,  \* size of memory
  PAGE,     \* __PAGE_SIZE__, to which segments are rounded
  STACK,    \* _STACK_SIZE_
  maxHeapSize

ASSUME MemAssumption ==
  /\ memSize \in Nat /\ PAGE \in Nat \ {0} /\ STACK \in Nat /\ maxHeapSize \in Nat
  /\ memSize > STACK + PAGE + 1024

VARIABLES
  MemSegs, FreeMemSegs, ThreadMemSegs,  \* segments, in order
  TLSSize, NextThreadMemAddr, stacktop, \* of RevMem
  Memory,                               \* the bytes that were written
  symtable,                             \* addresses of symbols
  argv                                  \* the arguments, each a sequence of characters
loaderVars == <<MemSegs, FreeMemSegs, ThreadMemSegs, TLSSize, NextThreadMemAddr,
                stacktop, Memory, symtable, argv>>

Seg(base, size) == [BaseAddr |-> base, Size |-> size]
contains(s, a) == s.BaseAddr <= a /\ a < s.BaseAddr + s.Size
isValidVirtAddr(a) ==
  \E s \in Range(MemSegs) \cup Range(ThreadMemSegs) : contains(s, a)

LoaderTypeOK ==
  /\ \A s \in Range(MemSegs) \cup Range(FreeMemSegs) \cup Range(ThreadMemSegs) :
       s.BaseAddr \in Nat /\ s.Size \in Nat
  /\ TLSSize \in Nat /\ NextThreadMemAddr \in Nat /\ stacktop \in 0 .. memSize
  /\ DOMAIN Memory \subseteq 0 .. memSize - 1

\* The constructor of RevMem: 1024 bytes for the arguments, and the stack
\* below them.
LoaderInit ==
  /\ MemSegs = <<Seg(memSize - 1024, 1024)>>
  /\ FreeMemSegs = <<>> /\ ThreadMemSegs = <<>>
  /\ TLSSize = 4
  /\ stacktop = memSize - 1024 /\ NextThreadMemAddr = memSize - 1024
  /\ Memory = <<>> /\ symtable = <<>> /\ argv = <<>>

-----------------------------------------------------------------------------
\* RevMem

\* The first segment that contains the base or the top of the new one is
\* extended; when it contains the top only, it is moved down and keeps its
\* size.
AddRoundedMemSeg(segs, BaseAddr, SegSize) ==
  LET Rounded == PAGE * ((SegSize + PAGE - 1) \div PAGE)
      Top == BaseAddr + Rounded
      hits == {i \in DOMAIN segs : contains(segs[i], BaseAddr) \/ contains(segs[i], Top)}
      i == Min(hits)
  IN  IF hits = {} THEN Append(segs, Seg(BaseAddr, Rounded))
      ELSE IF ~contains(segs[i], BaseAddr) THEN [segs EXCEPT ![i].BaseAddr = BaseAddr]
      ELSE IF contains(segs[i], Top) THEN segs
      ELSE [segs EXCEPT ![i].Size = Top - segs[i].BaseAddr]

\* What memory m becomes when the requests arrive that were made of a write.
Arrived(m, requests, Addr, data) ==
  [a \in UNION {Addr + r[1] .. Addr + r[1] + r[2] - 1 : r \in requests} |->
     data[a - Addr + 1]] @@ m

\* A write of the loader
Written(m, Addr, data) == Arrived(m, Requests(Addr, Len(data)), Addr, data)

Faults(Addr, Size) == \E p \in WriteCacheLine(Addr, Size) : ~isValidVirtAddr(Addr + p[1])

Word(v, n) == [k \in 1 .. n |-> <<"word", v, k>>]

-----------------------------------------------------------------------------
\* The ELF file: class (32 or 64), size, the program headers ph, the ends of
\* the sections .bss, .data and .text (0 when there is none), the symbols, and
\* whether the header is too short or not little endian (badHeader), and a table
\* of program headers, sections or symbols reaches behind the file (badTables).

phent(elf) == IF elf.class = 32 THEN 32 ELSE 56
phdr_size(elf) == Len(elf.ph) * phent(elf)

unrecognizable(elf) ==
  \/ elf.class \notin {32, 64} \/ elf.badHeader
  \/ \E i \in DOMAIN elf.ph : elf.size < elf.ph[i].p_offset + elf.ph[i].p_filesz
  \/ elf.BSSEnd = 0 /\ elf.DataEnd = 0 /\ elf.TextEnd = 0

StaticDataEnd(elf) ==
  IF elf.BSSEnd > 0 THEN elf.BSSEnd
  ELSE IF elf.DataEnd > 0 THEN elf.DataEnd ELSE elf.TextEnd

Segments(segs, elf) ==
  FoldLeft(LAMBDA s, h : IF h.p_memsz > 0 THEN AddRoundedMemSeg(s, h.p_paddr, h.p_memsz) ELSE s,
           segs, elf.ph)

\* LoadElf32 goes over the headers a second time.
AllSegments(elf) ==
  IF elf.class = 32 THEN Segments(Segments(MemSegs, elf), elf) ELSE Segments(MemSegs, elf)

TLS(elf) == SelectSeq(elf.ph, LAMBDA h : h.p_type = "TLS")

Contents(h) == [k \in 1 .. h.p_filesz |-> <<"file", h.p_offset + k - 1, 0>>]
zeros(h) == [k \in 1 .. h.p_memsz - h.p_filesz |-> <<"char", 0, 0>>]

Loadable(elf) == SelectSeq(elf.ph, LAMBDA h : h.p_type = "LOAD" /\ h.p_memsz > 0)
LoadHeader(m, h) ==
  Written(Written(m, h.p_paddr, Contents(h)), h.p_paddr + h.p_filesz, zeros(h))

\* LoadElf32 and LoadElf64: segments and the first thread's memory ...
LoadSegments(elf) ==
  LET tls == FoldLeft(LAMBDA n, h : n + h.p_memsz, TLSSize, TLS(elf))
      size == STACK + (IF TLS(elf) = <<>> THEN 0 ELSE tls)
  IN  /\ ~unrecognizable(elf)
      /\ MemSegs' = AllSegments(elf)
      /\ TLSSize' = tls
      /\ ThreadMemSegs' = Append(ThreadMemSegs, Seg(NextThreadMemAddr - size, size))
      /\ NextThreadMemAddr' = NextThreadMemAddr - size - 262144 - 1
      /\ UNCHANGED <<FreeMemSegs, stacktop, Memory, symtable, argv>>

\* The program headers are looked at before the contents are written, sections
\* and symbols after; either way the simulation ends.
ContentsFault(elf) ==
  \/ elf.badTables
  \/ Faults(stacktop - phdr_size(elf), phdr_size(elf))
  \/ \E h \in Range(Loadable(elf)) :
       Faults(h.p_paddr, h.p_filesz) \/ Faults(h.p_paddr + h.p_filesz, h.p_memsz - h.p_filesz)

\* ... then the program headers below the stack top, the contents, the
\* symbols and the heap.
LoadContents(elf) ==
  LET sp == stacktop - phdr_size(elf)
      headers == [i \in 1 .. phdr_size(elf) |-> <<"phdr", i, 0>>]
  IN  /\ ~ContentsFault(elf)
      /\ Memory' = FoldLeft(LoadHeader, Written(Memory, sp, headers), Loadable(elf))
      /\ stacktop' = sp
      /\ symtable' = elf.symbols
      /\ FreeMemSegs' = Append(FreeMemSegs, Seg(StaticDataEnd(elf) + 1, maxHeapSize))
      /\ UNCHANGED <<MemSegs, ThreadMemSegs, TLSSize, NextThreadMemAddr, argv>>

LoadElf32(elf) == elf.class = 32 /\ LoadContents(elf)
LoadElf64(elf) == elf.class = 64 /\ LoadContents(elf)

-----------------------------------------------------------------------------
\* LoadProgramArgs

\* The strings are written from the top of memory down, the last one first.
StringAddr(av, i) == memSize - FoldLeft(LAMBDA n, s : n + Len(s) + 1, 0, SubSeq(av, i, Len(av)))
CString(s) == [k \in 1 .. Len(s) + 1 |-> IF k > Len(s) THEN <<"char", 0, 0>> ELSE <<"char", s[k], 0>>]

\* argc, the strings, the address of the array, and the array of addresses.
ArgWrites(av) ==
  LET base == stacktop + 48
  IN  <<<<base, Word(Len(av), 4)>>>> \o
      Reverse([i \in 1 .. Len(av) |-> <<StringAddr(av, i), CString(av[i])>>]) \o
      <<<<base + 4, Word(base + 12, 8)>>>> \o
      [i \in 1 .. Len(av) |-> <<base + 12 + 8 * (i - 1), Word(StringAddr(av, i), 8)>>]

ArgsFault(av) == \E w \in Range(ArgWrites(av)) : Faults(w[1], Len(w[2]))

LoadProgramArgs(av) ==
  /\ ~ArgsFault(av)
  /\ argv' = av
  /\ Memory' = FoldLeft(LAMBDA m, w : Written(m, w[1], w[2]), Memory, ArgWrites(av))
  /\ NextThreadMemAddr' = memSize - STACK - TLSSize - PAGE
  /\ UNCHANGED <<MemSegs, FreeMemSegs, ThreadMemSegs, TLSSize, stacktop, symtable>>

\* What a byte-wise reader finds.
At(a) == IF a \in DOMAIN Memory THEN Memory[a] ELSE <<"char", 0, 0>>
=============================================================================
