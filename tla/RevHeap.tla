------------------------------ MODULE RevHeap ------------------------------
(***************************************************************************)
(* The memory segments of RevMem (src/RevMem.cc): the allocated segments,  *)
(* the free list that mmap allocates from and munmap returns to, the end   *)
(* of the heap, and the stacks of the threads.                             *)
(*                                                                         *)
(* The loader has put the program at address 0 and the arguments at the    *)
(* top of memory, and InitHeap has put the whole heap into the free list.  *)
(* Every fatal error ends the simulation: "halted".  A call that does not  *)
(* do what the comments of the code say is recorded in "odd" and is the    *)
(* last one that is looked at.                                             *)
(***************************************************************************)
EXTENDS Integers, Sequences, FiniteSets, StdContainers

CONSTANTS
  heapstart,      \* the first address after the static data
  maxHeapSize,    \* maximum size of the heap
  StaticSize,     \* size of the program's segment, rounded up to a page
  memSize,        \* size of the memory
  ArgSize,        \* space for argc and argv at the top of memory
  ThreadMemSize,  \* size of a thread's stack and thread local storage
  pageSize,       \* size of a page of RevMem
  PAGE_SIZE,      \* size of a page of the loader
  Sizes,          \* sizes that the program asks for
  FixedAddrs,     \* addresses that the program passes to mmap
  MaxThreads      \* bound on the number of threads

ASSUME HeapAssumption ==
  /\ heapstart \in Nat \ {0} /\ maxHeapSize \in Nat \ {0}
  /\ StaticSize \in Nat /\ StaticSize + 1 >= heapstart
  /\ Sizes \subseteq Nat \ {0}
  /\ FixedAddrs \subseteq heapstart .. heapstart + maxHeapSize - 1
ASSUME ThreadAssumption ==
  /\ memSize \in Nat /\ ArgSize \in Nat /\ pageSize \in Nat \ {0}
  /\ PAGE_SIZE \in Nat /\ PAGE_SIZE > ArgSize
  /\ ThreadMemSize \in Nat /\ MaxThreads \in Nat
\* The heap ends below the arguments: by default it is a quarter of the memory.
ASSUME LayoutAssumption ==
  ArgSize > 0 /\ StaticSize > 0 /\ heapstart + maxHeapSize <= memSize - ArgSize

Heap == heapstart .. heapstart + maxHeapSize - 1
Odd == {"front", "expand"}

VARIABLES
  MemSegs,        \* allocated segments
  FreeMemSegs,    \* free segments
  heapend,        \* end of the heap
  ThreadMemSegs,  \* one segment for each thread
  NextThreadMemAddr,  \* top of the next of them
  halted,         \* a fatal error has ended the simulation
  odd             \* calls that did not do what the comments say

threadVars == <<ThreadMemSegs, NextThreadMemAddr>>
vars == <<MemSegs, FreeMemSegs, heapend, threadVars, halted, odd>>

Segments == [BaseAddr : Nat, Size : Nat]
Seg(base, size) == [BaseAddr |-> base, Size |-> size]

TypeOK ==
  /\ MemSegs \in Seq(Segments)
  /\ FreeMemSegs \in Seq(Segments)
  /\ heapend \in Nat
  /\ ThreadMemSegs \in Seq([BaseAddr : Int, Size : Nat])
  /\ NextThreadMemAddr \in Int
  /\ halted \in BOOLEAN
  /\ odd \subseteq Odd

\* The loader has called AddThreadMem once, for the main thread, and then moved
\* NextThreadMemAddr below it.
Init ==
  /\ MemSegs = <<Seg(memSize - ArgSize, ArgSize), Seg(0, StaticSize)>>
  /\ FreeMemSegs = <<Seg(heapstart, maxHeapSize)>>
  /\ heapend = heapstart
  /\ ThreadMemSegs = <<Seg(memSize - ArgSize - ThreadMemSize, ThreadMemSize)>>
  /\ NextThreadMemAddr = memSize - ThreadMemSize - PAGE_SIZE
  /\ halted = FALSE
  /\ odd = {}

-----------------------------------------------------------------------------
(* MemSegment                                                              *)

TopAddr(seg) == seg.BaseAddr + seg.Size
contains(seg, addr) == addr >= seg.BaseAddr /\ addr < TopAddr(seg)
containsRange(seg, addr, size) ==
  contains(seg, addr) /\ contains(seg, addr + size - 1)

\* The first segment of s for which P holds, as the loops find it
IsFirst(s, P(_), i) ==
  /\ i \in DOMAIN s /\ P(s[i])
  /\ \A j \in 1 .. i - 1 : ~P(s[j])

Running == ~halted /\ odd = {}

Fatal ==
  /\ halted' = TRUE
  /\ UNCHANGED <<MemSegs, FreeMemSegs, heapend, threadVars, odd>>

-----------------------------------------------------------------------------
(* mmap without an address: AllocMem                                       *)

Fits(size, seg) == seg.Size >= size

\* The FreeSeg without its first "size" bytes; an empty one is erased.
TakeFront(i, size) ==
  LET f == FreeMemSegs[i]
  IN  IF f.Size > size
        THEN [FreeMemSegs EXCEPT ![i] = Seg(f.BaseAddr + size, f.Size - size)]
        ELSE Erase(FreeMemSegs, i)

\* A free segment is large enough.
AllocMem(size) ==
  /\ Running
  /\ \E i \in DOMAIN FreeMemSegs :
       /\ IsFirst(FreeMemSegs, LAMBDA seg : Fits(size, seg), i)
       /\ MemSegs' = Append(MemSegs, Seg(FreeMemSegs[i].BaseAddr, size))
       /\ FreeMemSegs' = TakeFront(i, size)
  /\ UNCHANGED <<heapend, threadVars, halted, odd>>

\* ExpandHeap compares an address with a size.
CanExpand(size) == heapend + size <= maxHeapSize

\* None is: a segment at heapend, and ExpandHeap.
AllocMemExpand(size) ==
  /\ Running
  /\ \A i \in DOMAIN FreeMemSegs : ~Fits(size, FreeMemSegs[i])
  /\ IF CanExpand(size)
       THEN /\ MemSegs' = Append(MemSegs, Seg(heapend, size))
            /\ heapend' = heapend + size
            /\ odd' = odd \cup {"expand"}
            /\ UNCHANGED <<FreeMemSegs, threadVars, halted>>
       ELSE Fatal

-----------------------------------------------------------------------------
(* mmap with an address: AllocMemAt                                        *)

\* The free list after the i-th segment gives up [addr, addr + size).
Carve(i, addr, size) ==
  LET f     == FreeMemSegs[i]
      front == f.BaseAddr = addr
      back  == TopAddr(f) = addr + size
      lower == Seg(f.BaseAddr, addr - f.BaseAddr)
      upper == Seg(addr + size, TopAddr(f) - (addr + size))
  IN  CASE ~front /\ ~back ->
             Append([FreeMemSegs EXCEPT ![i] = lower], upper)
        [] front /\ ~back ->
             [FreeMemSegs EXCEPT ![i] = Seg(addr + size, f.Size)]
        [] ~front /\ back ->
             [FreeMemSegs EXCEPT ![i] = lower]
        [] front /\ back ->
             Erase(FreeMemSegs, i)

\* "already allocated": a segment contains the first address or the one after
\* the last.
Taken(addr, size) ==
  \E i \in DOMAIN MemSegs :
    contains(MemSegs[i], addr) \/ contains(MemSegs[i], addr + size)

TookFront(i, addr, size) ==
  FreeMemSegs[i].BaseAddr = addr /\ FreeMemSegs[i].Size # size

AllocMemAt(addr, size) ==
  /\ Running
  /\ \E i \in DOMAIN FreeMemSegs :
       /\ IsFirst(FreeMemSegs, LAMBDA seg : containsRange(seg, addr, size), i)
       /\ ~Taken(addr, size)
       /\ MemSegs' = Append(MemSegs, Seg(addr, size))
       /\ FreeMemSegs' = Carve(i, addr, size)
       /\ odd' = IF TookFront(i, addr, size) THEN odd \cup {"front"} ELSE odd
  /\ UNCHANGED <<heapend, threadVars, halted>>

\* No free segment contains the range, or the range is taken.
AllocMemAtFails(addr, size) ==
  /\ Running
  /\ \/ \A i \in DOMAIN FreeMemSegs : ~containsRange(FreeMemSegs[i], addr, size)
     \/ Taken(addr, size)
  /\ Fatal

-----------------------------------------------------------------------------
(* munmap: DeallocMem                                                      *)

\* Variant: a new free segment is added even when one was extended.
MergeTwice(addr, size) ==
  LET before(seg) == contains(seg, addr - 1)
  IN  IF \E i \in DOMAIN FreeMemSegs : before(FreeMemSegs[i])
        THEN LET i == CHOOSE j \in DOMAIN FreeMemSegs :
                        IsFirst(FreeMemSegs, before, j)
             IN  Append([FreeMemSegs EXCEPT ![i].Size = @ + size], Seg(addr, size))
        ELSE Append(FreeMemSegs, Seg(addr, size))

\* The freed part extends the free segment in front of it, or is a new one.
Merge(addr, size) ==
  LET before(seg) == contains(seg, addr - 1)
  IN  IF \E i \in DOMAIN FreeMemSegs : before(FreeMemSegs[i])
        THEN LET i == CHOOSE j \in DOMAIN FreeMemSegs :
                        IsFirst(FreeMemSegs, before, j)
             IN  [FreeMemSegs EXCEPT ![i].Size = @ + size]
        ELSE Append(FreeMemSegs, Seg(addr, size))

\* The allocated segment loses its first "size" bytes, or is erased.
Shrink(i, size) ==
  LET seg == MemSegs[i]
  IN  IF size < seg.Size
        THEN [MemSegs EXCEPT ![i] = Seg(seg.BaseAddr + size, seg.Size - size)]
        ELSE Erase(MemSegs, i)

DeallocMem(addr, size) ==
  /\ Running
  /\ \E i \in DOMAIN MemSegs :
       /\ IsFirst(MemSegs, LAMBDA seg : seg.BaseAddr = addr, i)
       /\ IF size > MemSegs[i].Size
            THEN Fatal
            ELSE /\ MemSegs' = Shrink(i, size)
                 /\ FreeMemSegs' = Merge(addr, size)
                 /\ UNCHANGED <<heapend, threadVars, halted, odd>>

\* DeallocMem returns -1, which ECALL_munmap turns into 1 and returns.
DeallocMemFails(addr, size) ==
  /\ Running
  /\ \A i \in DOMAIN MemSegs : MemSegs[i].BaseAddr # addr
  /\ UNCHANGED vars

-----------------------------------------------------------------------------
(* brk and the stack of a new thread                                       *)

brk(addr) ==
  /\ Running
  /\ IF addr > heapend /\ addr <= maxHeapSize
       THEN /\ heapend' = addr
            /\ UNCHANGED <<MemSegs, FreeMemSegs, threadVars, halted, odd>>
       ELSE Fatal

\* Variant: the next stack starts where this one started.
AddThreadMemAgain ==
  /\ Running
  /\ Len(ThreadMemSegs) < MaxThreads
  /\ LET base == NextThreadMemAddr - ThreadMemSize
     IN  /\ ThreadMemSegs' = Append(ThreadMemSegs, Seg(base, ThreadMemSize))
         /\ NextThreadMemAddr' = NextThreadMemAddr - pageSize - 1
  /\ UNCHANGED <<MemSegs, FreeMemSegs, heapend, halted, odd>>

AddThreadMem ==
  /\ Running
  /\ Len(ThreadMemSegs) < MaxThreads
  /\ LET base == NextThreadMemAddr - ThreadMemSize
     IN  /\ ThreadMemSegs' = Append(ThreadMemSegs, Seg(base, ThreadMemSize))
         /\ NextThreadMemAddr' = base - pageSize - 1
  /\ UNCHANGED <<MemSegs, FreeMemSegs, heapend, halted, odd>>

-----------------------------------------------------------------------------
mmap(size) == AllocMem(size) \/ AllocMemExpand(size)
mmapAt(addr, size) == AllocMemAt(addr, size) \/ AllocMemAtFails(addr, size)
munmap(addr, size) == DeallocMem(addr, size) \/ DeallocMemFails(addr, size)

Next ==
  \/ \E size \in Sizes : mmap(size)
  \/ \E addr \in FixedAddrs, size \in Sizes : mmapAt(addr, size)
  \/ \E addr \in Heap, size \in Sizes : munmap(addr, size)
  \/ \E addr \in Heap : brk(addr)
  \/ AddThreadMem

Spec == Init /\ [][Next]_vars

-----------------------------------------------------------------------------
(* Properties.                                                             *)

\* The segments of s that hold an address
Holders(s, a) == {i \in DOMAIN s : contains(s[i], a)}

\* The program's own segment may reach into the heap: it is rounded up to a page.
Mapped(a) == {i \in Holders(MemSegs, a) : MemSegs[i].BaseAddr >= heapstart}

\* No byte of the heap is handed out twice, is free and allocated at once, or is
\* lost: AllocMem, AllocMemAt and DeallocMem keep MemSegs and FreeMemSegs a
\* partition of the heap, and neither list holds an empty segment or one that
\* leaves the heap.
Partition ==
  /\ TypeOK
  /\ odd = {} =>
    /\ \A a \in Heap : Cardinality(Mapped(a)) + Cardinality(Holders(FreeMemSegs, a)) = 1
    /\ \A i \in DOMAIN FreeMemSegs :
         /\ FreeMemSegs[i].Size > 0
         /\ FreeMemSegs[i].BaseAddr \in Heap /\ TopAddr(FreeMemSegs[i]) - 1 \in Heap
    /\ \A i \in DOMAIN MemSegs : MemSegs[i].Size > 0

\* The stacks of the threads, the one the loader made included, and the arguments
\* are apart.
StacksApart ==
  \A i \in DOMAIN ThreadMemSegs :
    /\ TopAddr(ThreadMemSegs[i]) <= memSize - ArgSize
    /\ \A j \in 1 .. i - 1 : TopAddr(ThreadMemSegs[i]) < ThreadMemSegs[j].BaseAddr

\* src/RevMem.cc, AllocMem: "If there is not a free segment, it will allocate a new
\* segment at the end of the heap".  The new segment overlaps no other.
NewSegmentAtTheEnd ==
  \A a \in Heap : Cardinality(Mapped(a)) <= 1

=============================================================================
