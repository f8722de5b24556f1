------------------------------ MODULE MCRevBoot ------------------------------
(***************************************************************************)
(* Programs, parameters and memory systems for RevBoot.                    *)
(***************************************************************************)
EXTENDS RevBoot

MCNumber == [z \in {"0", "1", "2", "3", "10", "16", "70000"} |->
               CASE z = "0" -> 0 [] z = "1" -> 1 [] z = "2" -> 2 [] z = "3" -> 3 [] z = "10" -> 10
                 [] z = "16" -> 16 [] z = "70000" -> 70000]

PH(type, addr, off, filesz, memsz) ==
  [p_type |-> type, p_paddr |-> addr, p_offset |-> off, p_filesz |-> filesz, p_memsz |-> memsz]

Symbols == [s \in {"main", "aux"} |-> IF s = "main" THEN 65540 ELSE 70000]

Elf(class, ph) ==
  [class |-> class, size |-> 400, ph |-> ph, BSSEnd |-> 66200, DataEnd |-> 66100, TextEnd |-> 65600,
   symbols |-> Symbols, badHeader |-> FALSE, badTables |-> FALSE]

\* Text and data next to each other, with a thread-local part: the second
\* segment begins in the rounded first one and ends behind it.
Split == Elf(64, <<PH("LOAD", 65536, 0, 100, 100), PH("LOAD", 65637, 100, 37, 400), PH("TLS", 65640, 103, 8, 12)>>)
\* Pieces of one line, of one byte less and more, at offsets 0 and 1.
Exact == Elf(32, <<PH("LOAD", 65536, 0, 16, 16), PH("LOAD", 65553, 16, 17, 17), PH("LOAD", 65807, 40, 15, 15)>>)
Odd == Elf(32, <<PH("LOAD", 65539, 3, 64, 65), PH("NOTE", 0, 0, 0, 0), PH("LOAD", 66001, 70, 129, 140)>>)
\* Segments that lines of 16 bytes cut into pieces the controller counts short
Long == Elf(64, <<PH("LOAD", 65551, 0, 34, 50), PH("LOAD", 66049, 34, 200, 200)>>)
\* Not all of the file is there; a program without sections; a bad class.
Short == Elf(64, <<PH("LOAD", 65536, 390, 11, 11)>>)
Bare == [Elf(64, <<>>) EXCEPT !.BSSEnd = 0, !.DataEnd = 0, !.TextEnd = 0]
TextOnly == [Elf(64, <<PH("LOAD", 65536, 0, 40, 40)>>) EXCEPT !.BSSEnd = 0, !.DataEnd = 0]
Tiny == [TextOnly EXCEPT !.class = 32, !.ph = <<PH("LOAD", 65536, 0, 4, 4)>>]
NoMain == [TextOnly EXCEPT !.symbols = [s \in {"aux"} |-> 70000]]

Entry(core, v) == <<core, ":", v>>
Plain ==
  [id |-> 0, lineSize |-> 16, ctrl |-> TRUE, elf |-> Split, exe |-> <<97, 98>>, args |-> <<99, 32, 100, 101>>,
   calls |-> FALSE, machine |-> <<>>, startAddr |-> <<>>, startSymbol |-> <<>>, table |-> <<>>,
   memCost |-> <<>>, prefetchDepth |-> <<>>]

Elfs == {Split, Exact, Odd, Long, Short, Bare, TextOnly, NoMain, [Split EXCEPT !.class = 0],
         [Split EXCEPT !.badHeader = TRUE], [Odd EXCEPT !.badTables = TRUE]}
Memories == {<<0, FALSE>>, <<0, TRUE>>, <<16, TRUE>>, <<64, TRUE>>, <<128, TRUE>>}
ArgStrings == {<<>>, <<99>>, <<99, 32, 100, 101>>, <<32, 99>>, [k \in 1 .. 18 |-> 99]}
\* With two words and one program header, a path of 1001 letters fits exactly.
LongNames == {[k \in 1 .. n |-> 97] : n \in {1000, 1001, 1002}}
Machines == {<<>>, <<Entry("CORES", "RV64GC")>>, <<Entry("0", "RV64GC")>>, <<Entry("1", "RV32I")>>,
             <<Entry("0", "RV32I"), Entry("1", "RV64GC"), Entry("0", "RV64GC")>>,
             <<Entry("2", "RV32I")>>, <<<<"RV64GC">>>>, <<Entry("RV64GC", "0")>>}
Starts == {<<>>, <<Entry("0", "70000")>>, <<Entry("CORES", "70000")>>, <<Entry("1", "16"), Entry("0", "0")>>,
           <<Entry("0", "main")>>}
Symbolss == {<<>>, <<Entry("0", "aux")>>, <<Entry("0", "main"), Entry("0", "aux")>>, <<Entry("0", "gone")>>,
             <<Entry("2", "aux")>>, <<Entry("3", "aux")>>}
Others == {<<>>, <<Entry("1", "2")>>, <<Entry("0", "2"), Entry("1", "3"), Entry("0", "10")>>, <<<<"1">>>>}
Cost(core, min, max) == <<core, ":", min, ":", max>>
Costs == {<<>>, <<Cost("1", "2", "16")>>, <<Cost("1", "0", "16")>>, <<Entry("1", "2")>>,
          <<Cost("0", "2", "3"), Cost("1", "1", "1"), Cost("0", "3", "10")>>}

MCSetups ==
  {[Plain EXCEPT !.elf = e, !.lineSize = m[1], !.ctrl = m[2], !.args = a] :
     e \in Elfs, m \in Memories, a \in ArgStrings}
  \cup {[Plain EXCEPT !.machine = m, !.startAddr = a, !.startSymbol = s, !.id = i, !.elf = TextOnly] :
          m \in Machines, a \in Starts, s \in Symbolss, i \in {0, 1}}
  \cup {[Plain EXCEPT !.startAddr = a, !.startSymbol = s, !.id = i, !.elf = TextOnly] :
          a \in Starts, s \in Symbolss, i \in {2, 3}}
  \cup {[Plain EXCEPT !.exe = x, !.args = <<99>>, !.elf = TextOnly, !.lineSize = 64] : x \in LongNames}
  \cup {[Plain EXCEPT !.table = t, !.prefetchDepth = p, !.memCost = c, !.elf = TextOnly] :
          t \in Others \cup {<<Entry("2", "1")>>}, p \in Others, c \in Costs}
  \cup {[Plain EXCEPT !.calls = TRUE, !.elf = Tiny, !.ctrl = c, !.args = <<99>>] : c \in BOOLEAN}

MCMaxCalls == [h \in Harts |-> IF h = 0 THEN 2 ELSE 1]

\* The first hart makes every kind of call, the second one the ones that
\* change what both of them share.
MCCallCodes ==
  [h \in Harts |-> IF h = 0 THEN {17, 34, 49, 56, 57, 63, 64, 113, 139, 172, 178, 500, 501}
                            ELSE {56, 57, 64}]
=============================================================================
