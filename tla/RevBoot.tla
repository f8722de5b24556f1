------------------------------- MODULE RevBoot -------------------------------
(***************************************************************************)
(* From the parameters of the component to the system calls of the         *)
(* program: the constructor of RevCPU (src/RevCPU.cc) reads the options,   *)
(* loads the program and sets up the main thread, whose system calls then  *)
(* get their strings from the memory that was loaded.                      *)
(***************************************************************************)
EXTENDS RevOpts, RevSysCalls

CONSTANTS
  Setups,   \* what a simulation can be started with
  CallCodes \* the system calls of each hart's program

VARIABLES
  phase,    \* how far the constructor has got
  setup,    \* a member of Setups
  opts,     \* the options that were read
  regs      \* registers of the main thread
vars == <<lineSize, ctrl, phase, setup, opts, regs, loaderVars, callVars>>

Phases == {"options", "segments", "contents", "args", "loaded", "run", "fatal"}
id == setup.id

Init ==
  /\ setup \in Setups
  /\ lineSize = setup.lineSize /\ ctrl = setup.ctrl
  /\ phase = "options" /\ opts = Defaults /\ regs = <<>>
  /\ LoaderInit /\ CallsInit

GoTo(from, to) == phase = from /\ phase' = to /\ UNCHANGED <<lineSize, ctrl, setup>>

\* The options, in the order of the constructor.
Parsed ==
  [startAddr |-> InitStartAddrs(setup.startAddr),
   startSym |-> InitStartSymbols(setup.startSymbol),
   machine |-> InitMachineModels(setup.machine),
   table |-> InitInstTables(setup.table),
   memCosts |-> InitMemCosts(setup.memCost),
   prefetchDepth |-> InitPrefetchDepth(setup.prefetchDepth)]

ReadOptions ==
  /\ GoTo("options", "segments")
  /\ \A o \in DOMAIN Parsed : Parsed[o].ok
  /\ opts' = [o \in DOMAIN Parsed |-> Parsed[o].val]
  /\ UNCHANGED <<regs, loaderVars, callVars>>

LoadElfSegments ==
  /\ GoTo("segments", "contents") /\ LoadSegments(setup.elf) /\ UNCHANGED <<opts, regs, callVars>>

LoadElfContents ==
  /\ GoTo("contents", "args")
  /\ LoadElf32(setup.elf) \/ LoadElf64(setup.elf)
  /\ UNCHANGED <<opts, regs, callVars>>

\* The name of the program and the words of its arguments.
Argv == <<setup.exe>> \o splitStr(setup.args, 32)

LoadElfArgs ==
  /\ GoTo("args", "loaded") /\ LoadProgramArgs(Argv) /\ UNCHANGED <<opts, regs, callVars>>

-----------------------------------------------------------------------------
GetSymbolAddr(sym) == IF sym \in DOMAIN symtable THEN symtable[sym] ELSE 0

StartSymbol == IF Given(opts.startSym, id) THEN GetSymbolAddr(opts.startSym[id][1]) ELSE 0
StartAddr == IF Given(opts.startAddr, id) THEN stoul(opts.startAddr[id]) ELSE 0

StartPC ==
  IF StartAddr # 0 THEN StartAddr
  ELSE IF Given(opts.startSym, id) THEN StartSymbol ELSE GetSymbolAddr("main")

StartsDiffer == StartAddr # 0 /\ Given(opts.startSym, id) /\ StartSymbol # StartAddr

\* InitMainThread and SetupArgs.
InitMainThread ==
  LET top == ThreadMemSegs[1].BaseAddr + ThreadMemSegs[1].Size
  IN  /\ GoTo("loaded", "run")
      /\ StartPC # 0 /\ ~StartsDiffer
      /\ regs' = [PC |-> StartPC, tp |-> top, sp |-> top - TLSSize,
                  gp |-> GetSymbolAddr("__global_pointer$"),
                  a0 |-> Len(argv), a1 |-> stacktop + 60]
      /\ UNCHANGED <<opts, loaderVars, callVars>>

Die ==
  /\ \/ phase = "options" /\ \E o \in DOMAIN Parsed : ~Parsed[o].ok
     \/ phase = "segments" /\ unrecognizable(setup.elf)
     \/ phase = "contents" /\ ContentsFault(setup.elf)
     \/ phase = "args" /\ ArgsFault(Argv)
     \/ phase = "loaded" /\ (StartPC = 0 \/ StartsDiffer)
  /\ GoTo(phase, "fatal")
  /\ UNCHANGED <<opts, regs, loaderVars, callVars>>

Constructor ==
  \/ ReadOptions \/ LoadElfSegments \/ LoadElfContents \/ LoadElfArgs
  \/ InitMainThread \/ Die

-----------------------------------------------------------------------------
Running ==
  /\ phase = "run"
  /\ UNCHANGED <<lineSize, ctrl, phase, setup, opts, regs, MemSegs, FreeMemSegs,
                 ThreadMemSegs, TLSSize, NextThreadMemAddr, stacktop, symtable, argv>>

\* The calls of a program: the paths are words of its arguments, the buffer
\* is behind its static data, a descriptor is any that is open, or -1.
Buffer == FreeMemSegs[1].BaseAddr
Path(i) == Front(CString(argv[i]))
PathCalls ==
  {[a7 |-> c, a0 |-> 9, a1 |-> StringAddr(argv, i), a2 |-> 0, bytes |-> Path(i), late |-> TRUE] :
     c \in {openat, mkdirat}, i \in {Len(argv)}}
  \cup {[a7 |-> chdir, a0 |-> StringAddr(argv, i), a1 |-> 0, a2 |-> 0, bytes |-> Path(i), late |-> TRUE] :
          i \in {Len(argv)}}
WriteCalls ==
  {[a7 |-> write, a0 |-> 1, a1 |-> StringAddr(argv, 1), a2 |-> n,
    bytes |-> SubSeq(CString(argv[1]), 1, n), late |-> TRUE] : n \in {0, Len(argv[1]) + 1}}
FileCalls ==
  {[a7 |-> c, a0 |-> fd, a1 |-> Buffer, a2 |-> 2, bytes |-> <<>>, late |-> FALSE] :
     c \in {close, read}, fd \in host.fds \cup {-1}}
OtherCalls ==
  {[a7 |-> c, a0 |-> Buffer, a1 |-> IF c = getcwd THEN 4 ELSE Buffer, a2 |-> 0,
    bytes |-> <<>>, late |-> FALSE] :
     c \in {getcwd, clock_gettime, gettid, cpuinfo, perf_stats, 139, 172}}
Calls(h) ==
  {c \in PathCalls \cup WriteCalls \cup FileCalls \cup OtherCalls :
     c.a7 \in CallCodes[h] /\ setup.calls}

Program(h) == Running /\ \E c \in Calls(h) : \E late \in {FALSE, c.late} : Enter(h, c, late)
Ecall(h) == Running /\ ExecEcall(h)
Answer(h) == Running /\ MarkLoadComplete(h)
Finish(h) == Running /\ ThreadDone(h)

Next ==
  \/ Constructor
  \/ \E h \in Harts : Program(h)
  \/ \E h \in Harts : Ecall(h)
  \/ \E h \in Harts : Answer(h)
  \/ \E h \in Harts : Finish(h)

\* The clock runs every hart that has work, and the memory answers.
Fairness == \A h \in Harts : WF_vars(Ecall(h)) /\ WF_vars(Answer(h))

Spec == Init /\ [][Next]_vars /\ Fairness

-----------------------------------------------------------------------------
\* Every variable has its type.
TypeOK ==
  /\ phase \in Phases
  /\ lineSize \in Nat /\ ctrl \in BOOLEAN
  /\ LoaderTypeOK /\ CallsTypeOK

\* A file whose headers ascend, do not overlap and lie below the stack.
WellFormed(elf) ==
  /\ ~unrecognizable(elf) /\ ~elf.badTables
  /\ \A i, j \in DOMAIN Loadable(elf) : i < j =>
       Loadable(elf)[i].p_paddr + Loadable(elf)[i].p_memsz <= Loadable(elf)[j].p_paddr
  /\ \A h \in Range(elf.ph) : h.p_paddr + h.p_memsz < memSize - 2 * STACK

\* The segments AddRoundedMemSeg makes or extends cover every write of the
\* loader, headers and arguments included: no write is a segmentation fault.
LoadsWellFormed ==
  /\ phase = "contents" => ~ContentsFault(setup.elf)
  /\ phase = "args" => ~ArgsFault(Argv)

\* The requests of the load that are smaller than a cache line do not cross
\* the end of one, which is what getNumCacheLines is for.
OneLine ==
  phase = "loaded" /\ ctrl /\ hasCache =>
    \A h \in Range(Loadable(setup.elf)) : \A r \in Requests(h.p_paddr, h.p_filesz) :
      LET a == h.p_paddr + r[1]
      IN  0 < r[2] /\ r[2] < lineSize => a \div lineSize = (a + r[2] - 1) \div lineSize

\* A well-formed program is loaded without a fault.  After the load every byte of
\* a loadable segment is the byte of the file, and 0 past the end of the file's
\* part, however WriteCacheLine and the memory controller cut the writes, if the
\* lines of the cache have the 64 bytes the loader takes them to have, or more.
\* With lines of any size no small request is over the end of a line.
LoadExact ==
  /\ TypeOK
  /\ WellFormed(setup.elf) =>
       /\ LoadsWellFormed
       /\ phase = "loaded" /\ LinesSuffice =>
            \A h \in Range(Loadable(setup.elf)) : \A k \in 0 .. h.p_memsz - 1 :
              At(h.p_paddr + k) = IF k < h.p_filesz THEN <<"file", h.p_offset + k, 0>> ELSE NUL
  /\ OneLine

\* The main thread finds its arguments: a0 is the number of words, and the
\* pointers at a1 lead to the words, each with its terminator.
ArgsInPlace ==
  /\ regs.a0 = Len(Argv) /\ Bytes(regs.a1 - 12, 4) = Word(Len(Argv), 4)
  /\ \A i \in DOMAIN Argv :
       LET p == At(regs.a1 + 8 * (i - 1))[2]
       IN  /\ Bytes(regs.a1 + 8 * (i - 1), 8) = Word(p, 8)
           /\ Bytes(p, Len(Argv[i]) + 1) = CString(Argv[i])

\* The pointers, from 60 bytes above the stack top, and the words, with their
\* terminators, fit below the end of memory.
ArgsFit ==
  8 * Len(Argv) + FoldLeft(LAMBDA n, w : n + Len(w) + 1, 0, Argv)
    <= 1024 + phdr_size(setup.elf) - 60

\* LoadProgramArgs tests nothing: the arguments are in place exactly when they fit.
ArgsExact ==
  phase = "run" /\ ncalls = [h \in Harts |-> 0] /\ LinesSuffice =>
    (ArgsInPlace <=> ArgsFit)

\* What a list says for a core: its last entry for the core, or the one for all
\* CORES if it is alone, else nothing.
EntriesFor(list, c) ==
  {i \in DOMAIN list :
     \/ list[i][1] \in DOMAIN Number /\ Number[list[i][1]] = c
     \/ list[i][1] = "CORES" /\ c \in OptCores}
Says(list, c, default) ==
  IF EntriesFor(list, c) = {} THEN default ELSE Tail(Tail(list[Max(EntriesFor(list, c))]))

\* Where the main thread of this component is to start
SaidAddr == Number[Says(setup.startAddr, id, <<"0">>)[1]]
SaidSymbols == EntriesFor(setup.startSymbol, id)
SaidSymbol == IF SaidSymbols = {} THEN "main" ELSE setup.startSymbol[Min(SaidSymbols)][3]

\* Every core has the machine, table, prefetch depth and memory costs that the
\* last entry for it says, or the entry for all CORES, or the defaults.  The main
\* thread starts at the address given for it, with which its symbol then agrees,
\* else at the first symbol given for it, else at main; its arguments are in place.
OptionsHonoured ==
  /\ ArgsExact
  /\ phase = "run" =>
    /\ \A c \in OptCores :
         /\ opts.machine[c] = Says(setup.machine, c, <<"G">>)
         /\ opts.table[c] = Says(setup.table, c, <<"_REV_INTERNAL_">>)
         /\ opts.prefetchDepth[c] = Says(setup.prefetchDepth, c, <<"16">>)
         /\ LET cost == Says(setup.memCost, c, <<"0", ":", "10">>)
            IN  opts.memCosts[c] = <<Number[cost[1]], Number[cost[3]]>>
    /\ IF SaidAddr = 0 THEN regs.PC = symtable[SaidSymbol]
       ELSE /\ regs.PC = SaidAddr
            /\ SaidSymbols # {} => SaidSymbol \in DOMAIN symtable /\ symtable[SaidSymbol] = SaidAddr

\* Between calls a hart has no text of an earlier call, no outstanding load
\* of a0 and no scoreboard bit that would stop its next instruction.
EcallStateClean ==
  \A h \in Harts : ~atEcall[h] =>
    /\ EcallState[h].string = <<>> /\ EcallState[h].bytesRead = 0
    /\ LSQueue[h] = {} /\ h \notin Scoreboard

\* The host is asked for what the program asked for: the descriptor and the
\* bytes of the string or buffer, read one answer at a time over many runs
\* of the same instruction, also when a0 itself was still being loaded.  Only
\* openat looks in the current directory, whatever descriptor it was given.
HostAskedRight ==
  /\ \A h \in Harts : ~atEcall[h] /\ ~fatal =>
       served[h] = IF asked[h].code = openat THEN [asked[h] EXCEPT !.a0 = CurrentDir]
                   ELSE asked[h]
  /\ EcallStateClean

\* A descriptor above 2 that a thread holds, running or completed, is open on
\* the host and is held by no other thread: the destructor of a thread closes
\* nobody else's file.
FDsOwned ==
  /\ \A h \in Harts : \A fd \in fildes[h] : fd > 2 =>
       /\ fd \in host.fds /\ fd \notin completed
       /\ \A g \in Harts \ {h} : fd \notin fildes[g]
  /\ \A fd \in completed : fd > 2 => fd \in host.fds

\* Every system call comes to an end.
EcallsEnd == \A h \in Harts : atEcall[h] ~> ~atEcall[h] \/ fatal
=============================================================================
