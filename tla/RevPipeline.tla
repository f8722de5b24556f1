---------------------------- MODULE RevPipeline ----------------------------
(***************************************************************************)
(* The instruction pipeline of one core, RevProc::ClockTick (src/RevProc.cc*)
(* and include/RevProc.h): which hart decodes, the hazard check against    *)
(* the load queue and the scoreboard, execution, retirement, the end of a  *)
(* thread, and MarkLoadComplete, which the memory calls when the data of a *)
(* load has arrived.                                                       *)
(*                                                                         *)
(* A tick is one action: memory answers arrive between two ticks.  The     *)
(* trigger bit and HartToExecID are not kept.  A decoded instruction that  *)
(* passes the hazard check executes in the same tick, and a tick that      *)
(* decodes nothing finds the trigger set.  The prefetcher is reduced to    *)
(* "the instruction at the PC is there, is being filled, or is neither".   *)
(* Left out: Halt, Resume and SingleStepHart, which nothing calls, the     *)
(* fault injectors, the counters, and system calls, whose operands a0..a7  *)
(* the instruction table does not name.                                    *)
(***************************************************************************)
EXTENDS Integers, Sequences

CONSTANTS
  NumHarts,   \* numHarts
  Regs,       \* <<class, number>>, the class being "GPR" or "FLOAT"
  NoReg,      \* the rd of an instruction that has none
  Insts,      \* instructions: [op, srcs, rd, cost]
  NoInst,     \* what is at address 0
  Values,     \* register contents
  ALU(_, _),  \* the result of an instruction for given operands
  Data,       \* what memory holds at an address
  MemCosts,   \* what RandCost may return
  MaxInst,    \* instructions of a thread before its PC becomes 0
  MaxThread,  \* threads that are assigned to the core in a run
  MaxStall    \* ExternalStallHart calls of the coprocessor in a run

Harts == 0 .. NumHarts - 1
Zero == <<"GPR", 0>>

InstType == [op : {"alu", "load", "store"}, srcs : SUBSET Regs,
             rd : Regs \cup {NoReg}, cost : Nat]

ASSUME HartAssumption == NumHarts \in Nat \ {0}
ASSUME RegAssumption == NoReg \notin Regs
ASSUME InstAssumption ==
  /\ Insts \subseteq InstType /\ NoInst \notin Insts
  /\ \A i \in Insts : (i.op = "load" => i.rd # NoReg)
                      /\ (i.op = "store" => i.rd = NoReg)
ASSUME ValueAssumption ==
  /\ 0 \in Values
  /\ Data \in [Values -> Values]
  /\ \A i \in Insts : \A f \in [i.srcs -> Values] : ALU(i, f) \in Values
ASSUME CostAssumption == MemCosts \subseteq Nat
ASSUME BoundAssumption ==
  MaxInst \in Nat \ {0} /\ MaxThread \in Nat /\ MaxStall \in Nat

VARIABLES
  ctrl,            \* a memory controller answers loads; else at once
  IdleHarts,       \* bitset of harts without a thread
  HartToDecodeID,  \* the hart whose register file "RegFile" points to
  CoProcStallReq,  \* bitset of harts the coprocessor holds
  Pipeline,        \* executed instructions that are not retired
  LSQueue,         \* outstanding loads, instruction fills included
  inst,            \* the instruction at the PC of each hart
  fetch,           \* is it in a prefetch stream: "none", "fill" or "avail"
  X,               \* register file: contents
  Scoreboard,      \* register file: RV_Scoreboard and FP_Scoreboard
  Cost,            \* register file: cost
  sent,            \* the last value stored by each hart
  done,            \* instructions executed by the thread of each hart
  threads,         \* threads assigned so far
  stalls,          \* ExternalStallHart calls so far
  sim              \* "running", or "crashed" on a null register file

hartVars == <<inst, fetch, X, Scoreboard, Cost, sent, done>>
coreVars == <<ctrl, IdleHarts, HartToDecodeID, CoProcStallReq, Pipeline,
              LSQueue>>
vars == <<coreVars, hartVars, threads, stalls, sim>>

\* An entry of LSQueue.  Two outstanding loads of a hart differ in "seq",
\* which stands for the request; "fill" marks the requests of the prefetcher.
LoadType == [hart : Harts, reg : Regs \cup {Zero}, addr : Values,
             seq : Nat, fill : BOOLEAN]

\* Every variable holds a value of the type its C++ declaration gives it.
TypeOK ==
  /\ ctrl \in BOOLEAN
  /\ IdleHarts \subseteq Harts
  /\ HartToDecodeID \in Harts
  /\ CoProcStallReq \subseteq Harts
  /\ Pipeline \in Seq([hart : Harts, rd : Regs \cup {NoReg}, cost : Nat])
  /\ LSQueue \subseteq LoadType
  /\ inst \in [Harts -> Insts \cup {NoInst}]
  /\ fetch \in [Harts -> {"none", "fill", "avail"}]
  /\ X \in [Harts -> [Regs -> Values]]
  /\ Scoreboard \in [Harts -> SUBSET Regs]
  /\ Cost \in [Harts -> Nat]
  /\ sent \in [Harts -> Values]
  /\ done \in [Harts -> 0 .. MaxInst]
  /\ threads \in 0 .. MaxThread
  /\ stalls \in 0 .. MaxStall
  /\ sim \in {"running", "crashed"}

Cleared == [r \in Regs |-> 0]

Init ==
  /\ ctrl \in BOOLEAN
  /\ IdleHarts = Harts
  /\ HartToDecodeID = 0
  /\ CoProcStallReq = {}
  /\ Pipeline = <<>>
  /\ LSQueue = {}
  /\ inst = [h \in Harts |-> NoInst]
  /\ fetch = [h \in Harts |-> "none"]
  /\ X = [h \in Harts |-> Cleared]
  /\ Scoreboard = [h \in Harts |-> {}]
  /\ Cost = [h \in Harts |-> 0]
  /\ sent = [h \in Harts |-> 0]
  /\ done = [h \in Harts |-> 0]
  /\ threads = 0
  /\ stalls = 0
  /\ sim = "running"

-----------------------------------------------------------------------------
(* The load queue and the scoreboard                                       *)

\* The entries of queue q under LSQHash(reg, class, hart)
Into(q, h, r) == {l \in q : l.hart = h /\ l.reg = r}

LSQCheck(h, r) == r # Zero /\ Into(LSQueue, h, r) # {}

ScoreboardCheck(h, r) == r # Zero /\ r \in Scoreboard[h]

DependencySet(s, h, r) ==
  IF r \in Regs \ {Zero} THEN [s EXCEPT ![h] = @ \cup {r}] ELSE s

DependencyClear(s, h, r) == [s EXCEPT ![h] = @ \ {r}]

\* Variant: an outstanding load into the destination is not looked for.
CheckSourcesOnly(h, i) ==
  \E r \in i.srcs : LSQCheck(h, r) \/ ScoreboardCheck(h, r)

DependencyCheck(h, i) ==
  \/ \E r \in i.srcs \cup {i.rd} : LSQCheck(h, r)
  \/ \E r \in i.srcs : ScoreboardCheck(h, r)

-----------------------------------------------------------------------------
(* RevProc::ClockTick.  The last two blocks are operators: they work on    *)
(* what the blocks before them left.                                       *)

\* UpdateStatusOfHarts
HartsClearToDecode == {h \in Harts \ IdleHarts : Cost[h] = 0}

Distance(h) == (h - HartToDecodeID) % NumHarts

\* Variant: the search starts behind the current hart and may miss it.
NextHartOnly(h) == h \in HartsClearToDecode /\ Distance(h) # 0

\* GetNextHartToDecodeID: the current hart if it is clear to decode, else the
\* next clear one.
GetNextHartToDecodeID(h) ==
  /\ h \in HartsClearToDecode
  /\ \A g \in HartsClearToDecode : Distance(h) <= Distance(g)

\* Retirement: p, s, c and q are pipeline, scoreboards, costs and load queue
\* as execution left them, cur is the hart of "RegFile".  Only a front whose
\* cost is 1 retires: a higher cost is decremented and put back.
Retire(p, s, c, q, cur) ==
  IF p # <<>> /\ Head(p).cost = 1
    THEN /\ Pipeline' = Tail(p)
         /\ Scoreboard' = IF Into(q, Head(p).hart, Head(p).rd) = {}
                            THEN DependencyClear(s, Head(p).hart, Head(p).rd)
                            ELSE s
         /\ Cost' = [c EXCEPT ![cur] = 0]
    ELSE Pipeline' = p /\ Scoreboard' = s /\ Cost' = c

\* Variant: the thread leaves without asking HartHasNoDependencies.
CompleteEarly(h) ==
  /\ IdleHarts' = IF inst'[h] = NoInst THEN IdleHarts \cup {h} ELSE IdleHarts
  /\ sim' = sim

\* Completion: when the PC is 0 and no scoreboard bit is set, the thread
\* leaves the hart.  HartHasNoDependencies reads the register file of the
\* hart, which is null when the thread has left in an earlier tick.
Complete(h) ==
  /\ IdleHarts' = IF inst'[h] = NoInst /\ Scoreboard'[h] = {}
                    THEN IdleHarts \cup {h}
                    ELSE IdleHarts
  /\ sim' = IF inst'[h] = NoInst /\ h \in IdleHarts THEN "crashed" ELSE sim

\* Only a core with a thread is clocked.
Clocked == sim = "running" /\ IdleHarts # Harts

\* No hart is clear to decode.
TickIdle ==
  /\ Clocked
  /\ HartsClearToDecode = {}
  /\ UNCHANGED <<ctrl, HartToDecodeID, CoProcStallReq, LSQueue, inst, fetch, X,
                 sent, done, threads, stalls>>
  /\ Retire(Pipeline, Scoreboard, Cost, LSQueue, HartToDecodeID)
  /\ Complete(HartToDecodeID)

\* Names the request of the current instruction of a hart.
Request(h) == threads * (MaxInst + 1) + done[h]

Decode(h) ==
  /\ Clocked
  /\ GetNextHartToDecodeID(h)
  /\ HartToDecodeID' = h

\* PrefetchInst misses: the fill is requested.
TickMiss(h) ==
  /\ Decode(h)
  /\ inst[h] # NoInst /\ fetch[h] = "none"
  /\ fetch' = [fetch EXCEPT ![h] = IF ctrl THEN "fill" ELSE "avail"]
  /\ LSQueue' = IF ctrl
                  THEN LSQueue \cup {[hart |-> h, reg |-> Zero, addr |-> 0,
                                      seq |-> Request(h), fill |-> TRUE]}
                  ELSE LSQueue
  /\ UNCHANGED <<ctrl, CoProcStallReq, inst, X, sent, done, threads, stalls>>
  /\ Retire(Pipeline, Scoreboard, Cost, LSQueue', h)
  /\ Complete(h)

\* The fill is outstanding, the PC is 0, the coprocessor holds the hart, or
\* the instruction has a hazard: the cost is set to 0, nothing executes.
TickStall(h) ==
  /\ Decode(h)
  /\ \/ inst[h] = NoInst
     \/ fetch[h] = "fill"
     \/ /\ inst[h] # NoInst /\ fetch[h] = "avail"
        /\ h \in CoProcStallReq \/ DependencyCheck(h, inst[h])
  /\ UNCHANGED <<ctrl, CoProcStallReq, LSQueue, inst, fetch, X, sent, done,
                 threads, stalls>>
  /\ Retire(Pipeline, Scoreboard, [Cost EXCEPT ![h] = 0], LSQueue, h)
  /\ Complete(h)

\* GetX: x0 reads as 0.
GetX(h, r) == IF r = Zero THEN 0 ELSE X[h][r]

Operands(h, i) == [r \in i.srcs |-> GetX(h, r)]

\* SetX: x0 keeps 0.
SetX(h, r, v) == IF r \in Regs \ {Zero} THEN [X EXCEPT ![h][r] = v] ELSE X

\* The implementation of the instruction.  A load enters LSQueue before it
\* asks memory.  Without a controller its data is there when ReadVal returns,
\* and MarkLoadComplete has taken the entry out again.  With one, SetX puts a
\* conversion of the old contents into the destination, "junk".
Execute(h, i, junk) ==
  LET v == ALU(i, Operands(h, i)) IN
  CASE i.op = "alu" ->
         X' = SetX(h, i.rd, v) /\ UNCHANGED <<LSQueue, sent>>
    [] i.op = "store" ->
         sent' = [sent EXCEPT ![h] = v] /\ UNCHANGED <<X, LSQueue>>
    [] i.op = "load" /\ ~ctrl ->
         X' = SetX(h, i.rd, Data[v]) /\ UNCHANGED <<LSQueue, sent>>
    [] i.op = "load" /\ ctrl ->
         /\ LSQueue' = LSQueue \cup {[hart |-> h, reg |-> i.rd, addr |-> v,
                                      seq |-> Request(h), fill |-> FALSE]}
         /\ X' = SetX(h, i.rd, junk)
         /\ UNCHANGED sent

\* The next instruction may be in the stream of this one or not.
AdvancePC(h) ==
  /\ \E i \in IF done[h] + 1 < MaxInst THEN Insts \cup {NoInst} ELSE {NoInst} :
       inst' = [inst EXCEPT ![h] = i]
  /\ \E f \in {"none", "avail"} : fetch' = [fetch EXCEPT ![h] = f]
  /\ done' = [done EXCEPT ![h] = @ + 1]

\* What a load adds to the cost of its instruction
MemCost(i) == IF i.op = "load" THEN MemCosts ELSE {0}

\* What enters the pipeline
Issued(h, i) == [hart |-> h, rd |-> i.rd, cost |-> i.cost]

\* The scoreboards when the instruction has executed: DependencySet before, and
\* DependencyClear in MarkLoadComplete, which a load without a controller calls.
Hazards(h, i) ==
  LET s == DependencySet(Scoreboard, h, i.rd)
  IN  IF i.op = "load" /\ ~ctrl THEN DependencyClear(s, h, i.rd) ELSE s

TickExecute(h) ==
  LET i == inst[h] IN
  /\ Decode(h)
  /\ i # NoInst /\ fetch[h] = "avail"
  /\ h \notin CoProcStallReq
  /\ ~DependencyCheck(h, i)
  /\ \E junk \in Values : Execute(h, i, junk)
  /\ AdvancePC(h)
  /\ UNCHANGED <<ctrl, CoProcStallReq, threads, stalls>>
  /\ \E m \in MemCost(i) :
       Retire(Append(Pipeline, Issued(h, i)), Hazards(h, i),
              [Cost EXCEPT ![h] = i.cost + m], LSQueue', h)
  /\ Complete(h)

-----------------------------------------------------------------------------
(* Between two ticks                                                       *)

\* Variant: the bit of the destination is not cleared.
NoClear(l) == Scoreboard

\* DependencyClear, for the last outstanding load into the register only
ClearLoaded(l) ==
  IF Into(LSQueue, l.hart, l.reg) = {l}
    THEN DependencyClear(Scoreboard, l.hart, l.reg)
    ELSE Scoreboard

\* The memory has written the data of a load into the register and calls
\* MarkLoadComplete.
MarkLoadComplete(l) ==
  /\ sim = "running"
  /\ l \in LSQueue
  /\ ~l.fill
  /\ X' = SetX(l.hart, l.reg, Data[l.addr])
  /\ Scoreboard' = ClearLoaded(l)
  /\ LSQueue' = LSQueue \ {l}
  /\ sim' = IF l.reg # Zero /\ l.hart \in IdleHarts THEN "crashed" ELSE sim
  /\ UNCHANGED <<ctrl, IdleHarts, HartToDecodeID, CoProcStallReq, Pipeline,
                 inst, fetch, Cost, sent, done, threads, stalls>>

\* MarkLoadComplete for a fill
FillComplete(l) ==
  /\ sim = "running"
  /\ l \in LSQueue
  /\ l.fill
  /\ fetch' = [fetch EXCEPT ![l.hart] = "avail"]
  /\ Scoreboard' = ClearLoaded(l)
  /\ LSQueue' = LSQueue \ {l}
  /\ UNCHANGED <<ctrl, IdleHarts, HartToDecodeID, CoProcStallReq, Pipeline,
                 inst, X, Cost, sent, done, threads, stalls, sim>>

\* AssignThread: the first idle hart gets a thread with a new register file.
AssignThread(h) ==
  /\ sim = "running"
  /\ threads < MaxThread
  /\ h \in IdleHarts /\ \A g \in IdleHarts : h <= g
  /\ IdleHarts' = IdleHarts \ {h}
  /\ threads' = threads + 1
  /\ \E i \in Insts : inst' = [inst EXCEPT ![h] = i]
  /\ fetch' = [fetch EXCEPT ![h] = "none"]
  /\ X' = [X EXCEPT ![h] = Cleared]
  /\ Scoreboard' = [Scoreboard EXCEPT ![h] = {}]
  /\ Cost' = [Cost EXCEPT ![h] = 0]
  /\ done' = [done EXCEPT ![h] = 0]
  /\ UNCHANGED <<ctrl, HartToDecodeID, CoProcStallReq, Pipeline, LSQueue, sent,
                 stalls, sim>>

\* ExternalStallHart, ExternalReleaseHart
ExternalStallHart(h) ==
  /\ sim = "running"
  /\ stalls < MaxStall
  /\ CoProcStallReq' = CoProcStallReq \cup {h}
  /\ stalls' = stalls + 1
  /\ UNCHANGED <<ctrl, IdleHarts, HartToDecodeID, Pipeline, LSQueue, hartVars,
                 threads, sim>>

ExternalReleaseHart(h) ==
  /\ sim = "running"
  /\ h \in CoProcStallReq
  /\ CoProcStallReq' = CoProcStallReq \ {h}
  /\ UNCHANGED <<ctrl, IdleHarts, HartToDecodeID, Pipeline, LSQueue, hartVars,
                 threads, stalls, sim>>

Tick ==
  \/ TickIdle
  \/ \E h \in Harts : TickMiss(h) \/ TickStall(h) \/ TickExecute(h)

Next ==
  \/ Tick
  \/ \E l \in LSQueue : MarkLoadComplete(l) \/ FillComplete(l)
  \/ \E h \in Harts :
       AssignThread(h) \/ ExternalStallHart(h) \/ ExternalReleaseHart(h)

Spec == Init /\ [][Next]_vars

\* The core is clocked, memory answers every request, and the coprocessor
\* releases every hart it stalls.
Answer(h) ==
  \E l \in LSQueue : l.hart = h /\ (MarkLoadComplete(l) \/ FillComplete(l))

FairSpec ==
  /\ Spec
  /\ WF_vars(Tick)
  /\ \A h \in Harts : WF_vars(Answer(h)) /\ WF_vars(ExternalReleaseHart(h))

-----------------------------------------------------------------------------
(* Properties                                                              *)

\* What the program sees of a register: the data on its way into it, if any.
ArchReg(h, r) ==
  LET loads == Into(LSQueue, h, r) IN
  CASE r = Zero -> 0
    [] r # Zero /\ loads # {} -> Data[(CHOOSE l \in loads : TRUE).addr]
    [] OTHER -> X[h][r]

ArchRegs == [h \in Harts |-> [r \in Regs |-> ArchReg(h, r)]]

ISA == INSTANCE HartISA WITH regs <- ArchRegs

\* Every tick executes at most one instruction of one hart, with the operands
\* and the effect it has when instructions run one at a time and every load is
\* immediate: late data never reaches, or overwrites, the wrong reader or
\* writer.  This is what DependencyCheck is for.
ImplementsISA == ISA!Spec

\* The scoreboard of a running hart holds every register with an outstanding
\* load, and no register that has neither a load nor an unretired writer.
\* Retirement and MarkLoadComplete share the bit: the last of them clears it.
ScoreboardExact ==
  /\ TypeOK
  /\ \A h \in Harts \ IdleHarts :
       LET tracked == {l.reg : l \in {m \in LSQueue : m.hart = h}} \ {Zero}
           unretired == {Pipeline[k].rd :
                           k \in {n \in DOMAIN Pipeline : Pipeline[n].hart = h}}
       IN /\ tracked \subseteq Scoreboard[h]
          /\ Scoreboard[h] \subseteq tracked \cup unretired

\* A thread leaves its hart only when its loads are back, so that MarkLoadComplete
\* never clears a bit of a register file that is gone or of the next thread; and
\* the completion test reads a null register file only when an instruction that
\* cannot retire has left every busy hart waiting.
RegFilesAlive ==
  /\ \A l \in LSQueue : l.reg # Zero => l.hart \notin IdleHarts
  /\ sim = "crashed" => Pipeline # <<>>

\* When every instruction costs one cycle, as in the built-in tables, every
\* thread ends: no lost scoreboard bit, load or release leaves a hart waiting.
ThreadsEnd ==
  [](\A h \in Harts : inst[h] # NoInst => inst[h].cost = 1)
    => \A h \in Harts : (h \notin IdleHarts) ~> (h \in IdleHarts)

=============================================================================
