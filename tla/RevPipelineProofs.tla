------------------------- MODULE RevPipelineProofs -------------------------
(***************************************************************************)
(* The hazard logic of a core, for every set of harts, registers,          *)
(* instructions, costs and every bound: the scoreboard is exact, register  *)
(* files outlive the loads into them, and the core implements the          *)
(* instruction set.                                                        *)
(***************************************************************************)
EXTENDS RevPipeline, TLAPS

\* The provers a leaf that names none is given to, in this order.
USE SMTT(10), ZenonT(10), SMTT(60), Z3T(60)

\* A load into register r of hart h is outstanding.
Loading(q, h, r) == \E l \in q : l.hart = h /\ l.reg = r

\* An instruction of hart h that writes register r has not retired.
Unretired(p, h, r) == \E k \in DOMAIN p : p[k].hart = h /\ p[k].rd = r

IType ==
  /\ TypeOK
  /\ \A l \in LSQueue : l.fill => l.reg = Zero
  /\ \A h \in Harts : inst[h] # NoInst => done[h] < MaxInst
  /\ \A h \in Harts : Zero \notin Scoreboard[h]

\* At most one load into a register is outstanding, and none into a register
\* of a hart whose thread has left.
ILoads ==
  /\ \A l, m \in LSQueue :
       l.hart = m.hart /\ l.reg = m.reg /\ l.reg # Zero => l = m
  /\ \A l \in LSQueue : l.reg # Zero => l.hart \notin IdleHarts

IBoard ==
  \A h \in Harts \ IdleHarts : \A r \in Regs \ {Zero} :
    /\ Loading(LSQueue, h, r) => r \in Scoreboard[h]
    /\ r \in Scoreboard[h] =>
         Loading(LSQueue, h, r) \/ Unretired(Pipeline, h, r)

\* Between two ticks the pipeline is empty and no hart waits, or the
\* instruction at its front never retires.
IPipe ==
  /\ Pipeline # <<>> => Head(Pipeline).cost # 1
  /\ Pipeline = <<>> => \A h \in Harts : Cost[h] = 0

IIdle == \A h \in IdleHarts : inst[h] = NoInst

Inv ==
  /\ IType
  /\ ILoads
  /\ IBoard
  /\ IPipe
  /\ IIdle
  /\ sim = "crashed" => Pipeline # <<>>

-----------------------------------------------------------------------------
(* The load queue                                                          *)

\* A load that is the only one into its register leaves none behind.
LEMMA OnlyLoad ==
  ASSUME NEW q, NEW l \in q
  PROVE  Into(q, l.hart, l.reg) = {l} <=> ~Loading(q \ {l}, l.hart, l.reg)
BY DEF Into, Loading

LEMMA NoLoad ==
  ASSUME NEW q, NEW h, NEW r
  PROVE  Into(q, h, r) = {} <=> ~Loading(q, h, r)
BY DEF Into, Loading

-----------------------------------------------------------------------------
(* What a step does                                                        *)

LEMMA InitInv == Init => Inv
<1> SUFFICES ASSUME Init PROVE Inv
  OBVIOUS
<1>1. 0 \in Harts
  BY HartAssumption DEF Harts
<1>2. TypeOK
  BY <1>1, ValueAssumption, BoundAssumption DEF Init, TypeOK, Cleared
<1>4. IType
  BY <1>2 DEF Init, IType
<1>5. ILoads /\ IBoard /\ IPipe /\ IIdle
  BY DEF Init, ILoads, IBoard, IPipe, IIdle
<1> QED
  BY <1>4, <1>5 DEF Init, Inv

\* Between two ticks nothing at the front can retire.
LEMMA FrontWaits ==
  ASSUME Inv, NEW c, NEW q, NEW h, Retire(Pipeline, Scoreboard, c, q, h)
  PROVE  Pipeline' = Pipeline /\ Scoreboard' = Scoreboard /\ Cost' = c
BY DEF Inv, IPipe, Retire

\* A fill loads no register.
LEMMA FillsHidden ==
  ASSUME NEW q, NEW l, l.reg = Zero, NEW h, NEW r, r # Zero
  PROVE  Loading(q \cup {l}, h, r) <=> Loading(q, h, r)
BY DEF Loading

\* A tick that executes nothing.
LEMMA WaitStep ==
  ASSUME Inv, NEW h \in Harts,
         UNCHANGED <<ctrl, CoProcStallReq, Pipeline, inst, X, Scoreboard, Cost,
                     sent, done, threads, stalls>>,
         HartToDecodeID' = h,
         fetch' \in [Harts -> {"none", "fill", "avail"}],
         \/ LSQueue' = LSQueue
         \/ \E l \in LoadType : l.reg = Zero /\ LSQueue' = LSQueue \cup {l},
         h \in IdleHarts => Pipeline # <<>>,
         Complete(h)
  PROVE  Inv'
<1>1. IdleHarts' \subseteq Harts /\ sim' \in {"running", "crashed"}
  BY DEF Inv, IType, TypeOK, Complete
<1>2. \A l \in LSQueue' : l \in LSQueue \/ (l \in LoadType /\ l.reg = Zero)
  OBVIOUS
<1>3. LSQueue' \subseteq LoadType
  BY <1>2 DEF Inv, IType, TypeOK
<1>4. TypeOK'
  BY <1>1, <1>3 DEF Inv, IType, TypeOK
<1>6. IType'
  BY <1>2, <1>4 DEF Inv, IType
<1>7. ASSUME NEW g \in Harts, NEW r \in Regs \ {Zero}
      PROVE  Loading(LSQueue', g, r) <=> Loading(LSQueue, g, r)
  BY FillsHidden
<1>8. IdleHarts \subseteq IdleHarts'
  BY DEF Complete
<1>9. ASSUME NEW g \in Harts \ IdleHarts', NEW r \in Regs \ {Zero}
      PROVE  /\ Loading(LSQueue', g, r) => r \in Scoreboard'[g]
             /\ r \in Scoreboard'[g] =>
                  Loading(LSQueue', g, r) \/ Unretired(Pipeline', g, r)
  <2>1. g \in Harts \ IdleHarts
    BY <1>8
  <2>2. /\ Loading(LSQueue, g, r) => r \in Scoreboard[g]
        /\ r \in Scoreboard[g] =>
             Loading(LSQueue, g, r) \/ Unretired(Pipeline, g, r)
    BY <2>1 DEF Inv, IBoard
  <2> QED
    BY <2>2, <1>7
<1>10. IBoard'
  BY <1>9 DEF IBoard
<1>11. ASSUME NEW l \in LSQueue', l.reg # Zero
       PROVE  l \in LSQueue /\ l.hart \notin IdleHarts'
  <2>1. l \in LSQueue /\ l \in LoadType /\ l.hart \notin IdleHarts
    BY <1>2, <1>11 DEF Inv, IType, TypeOK, ILoads
  <2>2. l.hart \in Harts \ IdleHarts /\ l.reg \in Regs \ {Zero}
    BY <2>1, <1>11 DEF LoadType
  <2>3. Loading(LSQueue, l.hart, l.reg)
    BY <2>1 DEF Loading
  <2>4. l.reg \in Scoreboard[l.hart]
    BY <2>2, <2>3 DEF Inv, IBoard
  <2> QED
    BY <2>1, <2>4 DEF Complete
<1>12. ILoads'
  <2>1. ASSUME NEW l \in LSQueue', NEW m \in LSQueue',
               l.hart = m.hart, l.reg = m.reg, l.reg # Zero
        PROVE  l = m
    BY <2>1, <1>11 DEF Inv, ILoads
  <2> QED
    BY <2>1, <1>11 DEF ILoads
<1>13. IPipe' /\ IIdle'
  BY DEF Inv, IPipe, IIdle, Complete
<1>14. sim' = "crashed" => Pipeline' # <<>>
  BY DEF Inv, Complete
<1> QED
  BY <1>6, <1>10, <1>12, <1>13, <1>14 DEF Inv

\* The name of a request is a number.
LEMMA RequestType == ASSUME Inv, NEW h \in Harts PROVE Request(h) \in Nat
<1>1. threads \in Nat /\ done[h] \in Nat /\ MaxInst + 1 \in Nat
  BY BoundAssumption DEF Inv, IType, TypeOK
<1>2. \A a, b \in Nat : a * b \in Nat
  OBVIOUS
<1>3. threads * (MaxInst + 1) \in Nat
  BY <1>1, <1>2
<1> QED
  BY <1>1, <1>3 DEF Request

LEMMA TickIdleInv == Inv /\ TickIdle => Inv'
<1> SUFFICES ASSUME Inv, TickIdle PROVE Inv'
  OBVIOUS
<1>1. UNCHANGED <<Pipeline, Scoreboard, Cost>>
  BY FrontWaits DEF TickIdle
<1>2. HartToDecodeID \in Harts /\ fetch \in [Harts -> {"none", "fill", "avail"}]
  BY DEF Inv, IType, TypeOK
<1>3. PICK g \in Harts : g \notin IdleHarts
  BY Zenon DEF TickIdle, Clocked, Inv, IType, TypeOK
<1>4. Cost[g] # 0
  BY <1>3 DEF TickIdle, HartsClearToDecode
<1>5. Pipeline # <<>>
  BY <1>4 DEF Inv, IPipe
<1> QED
  BY <1>1, <1>2, <1>5, WaitStep DEF TickIdle

LEMMA TickMissInv == ASSUME Inv, NEW h \in Harts, TickMiss(h) PROVE Inv'
<1>1. h \notin IdleHarts
  BY DEF TickMiss, Decode, GetNextHartToDecodeID, HartsClearToDecode
<1>2. UNCHANGED <<Pipeline, Scoreboard, Cost>>
  BY FrontWaits DEF TickMiss
<1>3. fetch' \in [Harts -> {"none", "fill", "avail"}]
  BY DEF Inv, IType, TypeOK, TickMiss
<1> DEFINE l == [hart |-> h, reg |-> Zero, addr |-> 0, seq |-> Request(h),
                 fill |-> TRUE]
<1>4. Request(h) \in Nat
  BY RequestType
<1>5. l \in LoadType /\ l.reg = Zero
  BY <1>4, ValueAssumption DEF LoadType
<1>6. LSQueue' = LSQueue \/ LSQueue' = LSQueue \cup {l}
  BY DEF TickMiss
<1> HIDE DEF l
<1> QED
  BY <1>1, <1>2, <1>3, <1>5, <1>6, WaitStep DEF TickMiss, Decode

LEMMA TickStallInv == ASSUME Inv, NEW h \in Harts, TickStall(h) PROVE Inv'
<1>1. h \notin IdleHarts /\ Cost[h] = 0
  BY DEF TickStall, Decode, GetNextHartToDecodeID, HartsClearToDecode
<1>2. [Cost EXCEPT ![h] = 0] = Cost
  BY <1>1 DEF Inv, IType, TypeOK
<1>3. UNCHANGED <<Pipeline, Scoreboard, Cost>>
  BY <1>2, FrontWaits DEF TickStall
<1>4. fetch' \in [Harts -> {"none", "fill", "avail"}]
  BY DEF Inv, IType, TypeOK, TickStall
<1> QED
  BY <1>1, <1>3, <1>4, WaitStep DEF TickStall, Decode

\* The answer to a load clears the bit of its register when it is the last.
LEMMA AnswerBoard ==
  ASSUME Inv, NEW l \in LSQueue, NEW g \in Harts \ IdleHarts,
         NEW r \in Regs \ {Zero},
         Scoreboard' = ClearLoaded(l), LSQueue' = LSQueue \ {l},
         UNCHANGED Pipeline
  PROVE  /\ Loading(LSQueue', g, r) => r \in Scoreboard'[g]
         /\ r \in Scoreboard'[g] =>
              Loading(LSQueue', g, r) \/ Unretired(Pipeline', g, r)
<1>1. l.hart \in Harts /\ Scoreboard \in [Harts -> SUBSET Regs]
  BY DEF Inv, IType, TypeOK, LoadType
<1>2. /\ Loading(LSQueue, g, r) => r \in Scoreboard[g]
      /\ r \in Scoreboard[g] =>
           Loading(LSQueue, g, r) \/ Unretired(Pipeline, g, r)
  BY DEF Inv, IBoard
<1>3. CASE g = l.hart /\ r = l.reg
  <2>1. Into(LSQueue, l.hart, l.reg) = {l} <=> ~Loading(LSQueue', g, r)
    BY Zenon, <1>1, <1>3, OnlyLoad
  <2>2. Loading(LSQueue, g, r)
    BY <1>3 DEF Loading
  <2>3. Into(LSQueue, l.hart, l.reg) = {l} => r \notin Scoreboard'[g]
    BY <1>1, <1>3 DEF ClearLoaded, DependencyClear
  <2>4. Into(LSQueue, l.hart, l.reg) # {l} => Scoreboard'[g] = Scoreboard[g]
    BY DEF ClearLoaded
  <2> QED
    BY <1>2, <2>1, <2>2, <2>3, <2>4
<1>4. CASE ~(g = l.hart /\ r = l.reg)
  <2>1. Loading(LSQueue', g, r) <=> Loading(LSQueue, g, r)
    BY <1>4 DEF Loading
  <2>2. r \in Scoreboard'[g] <=> r \in Scoreboard[g]
    BY <1>1, <1>4 DEF ClearLoaded, DependencyClear
  <2> QED
    BY <1>2, <2>1, <2>2
<1> QED
  BY <1>3, <1>4

\* The answer to a load or to a fill.
LEMMA AnswerStep ==
  ASSUME Inv, NEW l \in LSQueue,
         Scoreboard' = ClearLoaded(l), LSQueue' = LSQueue \ {l},
         UNCHANGED <<ctrl, IdleHarts, HartToDecodeID, CoProcStallReq, Pipeline,
                     inst, Cost, sent, done, threads, stalls, sim>>,
         X' \in [Harts -> [Regs -> Values]],
         fetch' \in [Harts -> {"none", "fill", "avail"}]
  PROVE  Inv'
<1>1. Scoreboard \in [Harts -> SUBSET Regs] /\ l.hart \in Harts
  BY DEF Inv, IType, TypeOK, LoadType
<1>2. /\ Scoreboard' \in [Harts -> SUBSET Regs]
      /\ \A g \in Harts : Scoreboard'[g] \subseteq Scoreboard[g]
  BY <1>1 DEF ClearLoaded, DependencyClear
<1>3. TypeOK'
  BY <1>2 DEF Inv, IType, TypeOK
<1>5. IType'
  BY <1>2, <1>3 DEF Inv, IType
<1>6. ILoads'
  BY DEF Inv, ILoads
<1>7. IBoard'
  BY Zenon, AnswerBoard DEF IBoard
<1>8. IPipe' /\ IIdle' /\ (sim' = "crashed" => Pipeline' # <<>>)
  BY DEF Inv, IPipe, IIdle
<1> QED
  BY <1>5, <1>6, <1>7, <1>8 DEF Inv

LEMMA MarkLoadCompleteInv ==
  ASSUME Inv, NEW l \in LSQueue, MarkLoadComplete(l) PROVE Inv'
<1>1. l \in LoadType
  BY DEF Inv, IType, TypeOK
<1>2. Data[l.addr] \in Values /\ l.hart \in Harts
  BY <1>1, ValueAssumption DEF LoadType
<1>3. X' \in [Harts -> [Regs -> Values]]
  BY <1>2 DEF Inv, IType, TypeOK, MarkLoadComplete, SetX
<1>4. sim' = sim
  BY DEF Inv, ILoads, MarkLoadComplete
<1>5. fetch' \in [Harts -> {"none", "fill", "avail"}]
  BY DEF Inv, IType, TypeOK, MarkLoadComplete
<1> QED
  BY <1>3, <1>4, <1>5, AnswerStep DEF MarkLoadComplete

LEMMA FillCompleteInv ==
  ASSUME Inv, NEW l \in LSQueue, FillComplete(l) PROVE Inv'
<1>1. l.hart \in Harts
  BY DEF Inv, IType, TypeOK, LoadType
<1>2. fetch' \in [Harts -> {"none", "fill", "avail"}]
  BY <1>1 DEF Inv, IType, TypeOK, FillComplete
<1>3. X' \in [Harts -> [Regs -> Values]]
  BY DEF Inv, IType, TypeOK, FillComplete
<1> QED
  BY <1>2, <1>3, AnswerStep DEF FillComplete

LEMMA AssignThreadInv ==
  ASSUME Inv, NEW h \in Harts, AssignThread(h) PROVE Inv'
<1>1. PICK i \in Insts : inst' = [inst EXCEPT ![h] = i]
  BY Zenon DEF AssignThread
<1>2. TypeOK'
  <2>1. /\ inst' \in [Harts -> Insts \cup {NoInst}]
        /\ fetch' \in [Harts -> {"none", "fill", "avail"}]
        /\ Scoreboard' \in [Harts -> SUBSET Regs]
        /\ Cost' \in [Harts -> Nat]
    BY <1>1 DEF Inv, IType, TypeOK, AssignThread
  <2>2. X' \in [Harts -> [Regs -> Values]]
    BY ValueAssumption DEF Inv, IType, TypeOK, AssignThread, Cleared
  <2>3. done' \in [Harts -> 0 .. MaxInst] /\ threads' \in 0 .. MaxThread
    BY BoundAssumption DEF Inv, IType, TypeOK, AssignThread
  <2> QED
    BY <2>1, <2>2, <2>3 DEF Inv, IType, TypeOK, AssignThread
<1>3. \A g \in Harts : inst'[g] # NoInst => done'[g] < MaxInst
  BY <1>1, BoundAssumption DEF Inv, IType, TypeOK, AssignThread
<1>4. \A g \in Harts : Zero \notin Scoreboard'[g]
  BY DEF Inv, IType, TypeOK, AssignThread
<1>5. IType'
  BY <1>2, <1>3, <1>4 DEF Inv, IType, AssignThread
<1>6. ILoads'
  BY DEF Inv, ILoads, AssignThread
<1>7. ASSUME NEW g \in Harts \ IdleHarts', NEW r \in Regs \ {Zero}
      PROVE  /\ Loading(LSQueue', g, r) => r \in Scoreboard'[g]
             /\ r \in Scoreboard'[g] =>
                  Loading(LSQueue', g, r) \/ Unretired(Pipeline', g, r)
  <2>1. LSQueue' = LSQueue /\ Pipeline' = Pipeline
    BY DEF AssignThread
  <2>2. CASE g = h
    <3>1. ~Loading(LSQueue, h, r)
      BY DEF Loading, AssignThread, Inv, ILoads
    <3>2. Scoreboard'[h] = {}
      BY DEF Inv, IType, TypeOK, AssignThread
    <3> QED
      BY <2>1, <2>2, <3>1, <3>2
  <2>3. CASE g # h
    <3>1. g \in Harts \ IdleHarts /\ Scoreboard'[g] = Scoreboard[g]
      BY <2>3 DEF Inv, IType, TypeOK, AssignThread
    <3> QED
      BY <2>1, <3>1 DEF Inv, IBoard
  <2> QED
    BY <2>2, <2>3
<1>8. IBoard'
  BY <1>7 DEF IBoard
<1>9. IPipe' /\ IIdle' /\ (sim' = "crashed" => Pipeline' # <<>>)
  BY DEF Inv, IType, TypeOK, IPipe, IIdle, AssignThread
<1> QED
  BY <1>5, <1>6, <1>8, <1>9 DEF Inv

LEMMA ExternalInv ==
  ASSUME Inv, NEW h \in Harts, ExternalStallHart(h) \/ ExternalReleaseHart(h)
  PROVE  Inv'
<1>1. CoProcStallReq' \subseteq Harts /\ stalls' \in 0 .. MaxStall
  <2>1. CoProcStallReq \subseteq Harts /\ stalls \in 0 .. MaxStall
    BY DEF Inv, IType, TypeOK
  <2>2. CASE ExternalStallHart(h)
    BY <2>1, <2>2, BoundAssumption DEF ExternalStallHart
  <2>3. CASE ExternalReleaseHart(h)
    BY <2>1, <2>3 DEF ExternalReleaseHart
  <2> QED
    BY <2>2, <2>3
<1>2. UNCHANGED <<ctrl, IdleHarts, HartToDecodeID, Pipeline, LSQueue, inst,
                  fetch, X, Scoreboard, Cost, sent, done, threads, sim>>
  BY DEF ExternalStallHart, ExternalReleaseHart, hartVars
<1>3. IType'
  BY <1>1, <1>2 DEF Inv, IType, TypeOK
<1>4. ILoads' /\ IBoard' /\ IPipe' /\ IIdle'
  BY <1>2 DEF Inv, ILoads, IBoard, IPipe, IIdle
<1> QED
  BY <1>2, <1>3, <1>4 DEF Inv

-----------------------------------------------------------------------------
(* Execution                                                               *)

\* What an instruction reads is not on its way from memory, and neither is
\* what it overwrites.
LEMMA NoHazard ==
  ASSUME Inv, NEW h \in Harts, NEW i \in Insts, ~DependencyCheck(h, i),
         NEW r \in i.srcs \cup {i.rd}, r # Zero
  PROVE  ~Loading(LSQueue, h, r)
BY NoLoad DEF DependencyCheck, LSQCheck

\* The value of an instruction is a value.
LEMMA ResultType ==
  ASSUME Inv, NEW h \in Harts, NEW i \in Insts
  PROVE  ALU(i, Operands(h, i)) \in Values /\ Data[ALU(i, Operands(h, i))] \in Values
<1>1. i.srcs \subseteq Regs
  BY InstAssumption DEF InstType
<1>2. ASSUME NEW r \in i.srcs PROVE GetX(h, r) \in Values
  BY <1>1, ValueAssumption DEF Inv, IType, TypeOK, GetX
<1>3. Operands(h, i) \in [i.srcs -> Values]
  BY <1>2 DEF Operands
<1> QED
  BY <1>3, ValueAssumption

\* Writing a register.
LEMMA SetXType ==
  ASSUME Inv, NEW h \in Harts, NEW r, NEW v \in Values
  PROVE  SetX(h, r, v) \in [Harts -> [Regs -> Values]]
BY DEF Inv, IType, TypeOK, SetX

\* What executing an instruction adds to the load queue.
LEMMA ExecuteEffect ==
  ASSUME Inv, NEW h \in Harts, NEW i \in Insts, NEW junk \in Values,
         Execute(h, i, junk)
  PROVE  /\ X' \in [Harts -> [Regs -> Values]]
         /\ sent' \in [Harts -> Values]
         /\ \/ LSQueue' = LSQueue
            \/ \E l \in LoadType : /\ l.hart = h /\ l.reg = i.rd /\ ~l.fill
                                    /\ LSQueue' = LSQueue \cup {l}
         /\ i.op = "load" /\ ~ctrl => LSQueue' = LSQueue
<1> DEFINE v == ALU(i, Operands(h, i))
<1>1. v \in Values /\ Data[v] \in Values
  BY ResultType
<1>2. X \in [Harts -> [Regs -> Values]] /\ sent \in [Harts -> Values]
      /\ ctrl \in BOOLEAN
  BY DEF Inv, IType, TypeOK
<1>3. i.op \in {"alu", "load", "store"}
  BY InstAssumption DEF InstType
<1>4. CASE i.op = "alu"
  <2>1. X' = SetX(h, i.rd, v) /\ UNCHANGED <<LSQueue, sent>>
    BY <1>4 DEF Execute
  <2> QED
    BY <1>1, <1>2, <2>1, SetXType
<1>5. CASE i.op = "store"
  <2>1. sent' = [sent EXCEPT ![h] = v] /\ UNCHANGED <<X, LSQueue>>
    BY <1>5 DEF Execute
  <2> QED
    BY <1>1, <1>2, <2>1
<1>6. CASE i.op = "load" /\ ~ctrl
  <2>1. X' = SetX(h, i.rd, Data[v]) /\ UNCHANGED <<LSQueue, sent>>
    BY <1>6 DEF Execute
  <2> QED
    BY <1>1, <1>2, <2>1, SetXType
<1>7. CASE i.op = "load" /\ ctrl
  <2> DEFINE l == [hart |-> h, reg |-> i.rd, addr |-> v, seq |-> Request(h),
                   fill |-> FALSE]
  <2>1. LSQueue' = LSQueue \cup {l} /\ X' = SetX(h, i.rd, junk) /\ sent' = sent
    BY <1>7 DEF Execute
  <2>2. i.rd \in Regs
    BY <1>7, InstAssumption DEF InstType
  <2>3. l \in LoadType /\ l.hart = h /\ l.reg = i.rd /\ ~l.fill
    BY <1>1, <2>2, RequestType DEF LoadType
  <2> HIDE DEF l
  <2> QED
    BY <1>2, <1>7, <2>1, <2>3, SetXType
<1> QED
  BY <1>2, <1>3, <1>4, <1>5, <1>6, <1>7

\* What retirement finds after an execution: s, c and q are scoreboards, costs
\* and load queue as the execution left them.
RetiresAtOnce(h, i, s, c, q) ==
  /\ Pipeline = <<>> /\ Pipeline' = <<>>
  /\ Scoreboard' = IF Into(q, h, i.rd) = {}
                     THEN DependencyClear(s, h, i.rd) ELSE s
  /\ Cost' = [c EXCEPT ![h] = 0]

StaysBehind(h, i, s, c) ==
  /\ Pipeline' = Append(Pipeline, Issued(h, i))
  /\ Head(Pipeline').cost # 1
  /\ Scoreboard' = s /\ Cost' = c

Stages == [hart : Harts, rd : Regs \cup {NoReg}, cost : Nat]

LEMMA IssuedFacts ==
  ASSUME Inv, NEW h \in Harts, NEW i \in Insts
  PROVE  /\ Issued(h, i) \in Stages /\ Pipeline \in Seq(Stages)
         /\ Issued(h, i).hart = h /\ Issued(h, i).rd = i.rd
BY InstAssumption DEF InstType, Issued, Stages, Inv, IType, TypeOK

\* The instruction retires at once when it finds an empty pipeline and costs one
\* cycle, and nothing retires otherwise.
LEMMA ExecuteRetires ==
  ASSUME Inv, NEW h \in Harts, NEW i \in Insts, NEW s, NEW c, NEW q,
         Retire(Append(Pipeline, Issued(h, i)), s, c, q, h)
  PROVE  RetiresAtOnce(h, i, s, c, q) \/ StaysBehind(h, i, s, c)
<1> DEFINE e == Issued(h, i)
           p == Append(Pipeline, e)
<1>1. e \in Stages /\ Pipeline \in Seq(Stages) /\ e.hart = h /\ e.rd = i.rd
  BY IssuedFacts
<1> HIDE DEF e
<1>2. p # <<>>
  BY <1>1
<1>3. CASE Pipeline = <<>>
  <2>1. Head(p) = e /\ Tail(p) = <<>>
    BY <1>3
  <2> QED
    BY <1>1, <1>2, <1>3, <2>1 DEF Retire, e, RetiresAtOnce, StaysBehind
<1>4. CASE Pipeline # <<>>
  <2>1. Head(p) = Head(Pipeline)
    BY <1>1, <1>4
  <2>2. Head(p).cost # 1
    BY <2>1, <1>4 DEF Inv, IPipe
  <2> QED
    BY <2>2 DEF Retire, e, StaysBehind
<1> QED
  BY <1>3, <1>4

\* The scoreboard when the instruction has executed: its destination is set,
\* unless its data is there already.
LEMMA HazardFacts ==
  ASSUME Inv, NEW h \in Harts, NEW i
  PROVE  LET s == Hazards(h, i) IN
         /\ s \in [Harts -> SUBSET Regs]
         /\ \A g \in Harts : Zero \notin s[g]
         /\ \A g \in Harts : \A r \in Regs \ {Zero} :
              r \in s[g] <=> IF g = h /\ r = i.rd THEN ~(i.op = "load" /\ ~ctrl)
                            ELSE r \in Scoreboard[g]
<1> DEFINE t == DependencySet(Scoreboard, h, i.rd)
<1>1. /\ t \in [Harts -> SUBSET Regs]
      /\ \A g \in Harts : Zero \notin t[g]
      /\ \A g \in Harts : \A r \in Regs \ {Zero} :
           r \in t[g] <=> (r \in Scoreboard[g] \/ (g = h /\ r = i.rd))
  BY DEF DependencySet, Inv, IType, TypeOK
<1>2. Hazards(h, i) = IF i.op = "load" /\ ~ctrl THEN [t EXCEPT ![h] = @ \ {i.rd}] ELSE t
  BY DEF Hazards, DependencyClear
<1> HIDE DEF t
<1> QED
  BY <1>1, <1>2

\* The scoreboard after an execution.
LEMMA ExecuteBoard ==
  ASSUME Inv, NEW h \in Harts, NEW i \in Insts, NEW s, NEW c, NEW q,
         s = Hazards(h, i), i.op = "load" /\ ~ctrl => q = LSQueue,
         i.rd # Zero => ~Loading(LSQueue, h, i.rd),
         NEW g \in Harts \ IdleHarts, NEW r \in Regs \ {Zero},
         RetiresAtOnce(h, i, s, c, q) \/ StaysBehind(h, i, s, c),
         ~(g = h /\ r = i.rd) => (Loading(q, g, r) <=> Loading(LSQueue, g, r))
  PROVE  /\ Loading(q, g, r) => r \in Scoreboard'[g]
         /\ r \in Scoreboard'[g] => Loading(q, g, r) \/ Unretired(Pipeline', g, r)
<1>1. /\ s \in [Harts -> SUBSET Regs]
      /\ r \in s[g] <=> IF g = h /\ r = i.rd THEN ~(i.op = "load" /\ ~ctrl)
                       ELSE r \in Scoreboard[g]
  BY HazardFacts
<1>2. /\ Loading(LSQueue, g, r) => r \in Scoreboard[g]
      /\ r \in Scoreboard[g] =>
           Loading(LSQueue, g, r) \/ Unretired(Pipeline, g, r)
  BY DEF Inv, IBoard
<1>3. g = h /\ r = i.rd /\ i.op = "load" /\ ~ctrl => ~Loading(q, g, r)
  OBVIOUS
<1>4. CASE RetiresAtOnce(h, i, s, c, q)
  <2>1. ~Unretired(Pipeline, g, r)
    BY <1>4 DEF Unretired, RetiresAtOnce
  <2>2. Scoreboard' = IF ~Loading(q, h, i.rd)
                        THEN [s EXCEPT ![h] = @ \ {i.rd}] ELSE s
    BY <1>4, NoLoad DEF RetiresAtOnce, DependencyClear
  <2>3. r \in Scoreboard'[g] <=>
          (r \in s[g] /\ ~(g = h /\ r = i.rd /\ ~Loading(q, h, i.rd)))
    BY <1>1, <2>2
  <2> QED
    BY <1>1, <1>2, <1>3, <2>1, <2>3
<1>5. CASE StaysBehind(h, i, s, c)
  <2> DEFINE e == Issued(h, i)
             n == Len(Pipeline) + 1
  <2>1. e \in Stages /\ Pipeline \in Seq(Stages) /\ e.hart = h /\ e.rd = i.rd
    BY IssuedFacts
  <2>2. Pipeline' = Append(Pipeline, e) /\ Scoreboard' = s
    BY <1>5 DEF StaysBehind
  <2> HIDE DEF e
  <2>3. /\ n \in DOMAIN Pipeline' /\ Pipeline'[n] = e
        /\ \A k \in DOMAIN Pipeline : k \in DOMAIN Pipeline'
                                       /\ Pipeline'[k] = Pipeline[k]
    BY <2>1, <2>2
  <2> HIDE DEF n
  <2>4. Unretired(Pipeline', h, i.rd)
    BY <2>1, <2>3 DEF Unretired
  <2>5. Unretired(Pipeline, g, r) => Unretired(Pipeline', g, r)
    BY <2>3 DEF Unretired
  <2> QED
    BY <1>1, <1>2, <1>3, <2>2, <2>4, <2>5
<1> QED
  BY <1>4, <1>5

LEMMA Executes ==
  ASSUME Inv, NEW h \in Harts, TickExecute(h)
  PROVE  /\ inst[h] \in Insts /\ h \notin IdleHarts /\ HartToDecodeID' = h
         /\ sim = "running" /\ ~DependencyCheck(h, inst[h])
         /\ AdvancePC(h) /\ Complete(h)
         /\ UNCHANGED <<ctrl, CoProcStallReq, threads, stalls>>
BY DEF TickExecute, Decode, Clocked, GetNextHartToDecodeID, HartsClearToDecode,
       Inv, IType, TypeOK

LEMMA ExecuteQueue ==
  ASSUME Inv, NEW h \in Harts, TickExecute(h)
  PROVE  /\ X' \in [Harts -> [Regs -> Values]]
         /\ sent' \in [Harts -> Values]
         /\ \/ LSQueue' = LSQueue
            \/ \E l \in LoadType :
                 /\ l.hart = h /\ l.reg = inst[h].rd /\ ~l.fill
                 /\ LSQueue' = LSQueue \cup {l}
         /\ inst[h].op = "load" /\ ~ctrl => LSQueue' = LSQueue
<1>1. \E junk \in Values : Execute(h, inst[h], junk)
  BY Zenon DEF TickExecute
<1> QED
  BY <1>1, Executes, ExecuteEffect

LEMMA ExecutePipe ==
  ASSUME Inv, NEW h \in Harts, TickExecute(h)
  PROVE  \E c \in [Harts -> Nat] :
           /\ \A g \in Harts \ {h} : c[g] = Cost[g]
           /\ \/ RetiresAtOnce(h, inst[h], Hazards(h, inst[h]), c, LSQueue')
              \/ StaysBehind(h, inst[h], Hazards(h, inst[h]), c)
<1> DEFINE i == inst[h]
           s == Hazards(h, i)
<1>1. i \in Insts
  BY Executes
<1>2. PICK m \in MemCost(i) :
        Retire(Append(Pipeline, Issued(h, i)), s,
               [Cost EXCEPT ![h] = i.cost + m], LSQueue', h)
  BY DEF TickExecute
<1> DEFINE c == [Cost EXCEPT ![h] = i.cost + m]
<1>3. i.cost \in Nat /\ m \in Nat
  BY <1>1, InstAssumption, CostAssumption DEF InstType, MemCost
<1>4. c \in [Harts -> Nat] /\ \A g \in Harts \ {h} : c[g] = Cost[g]
  BY <1>3 DEF Inv, IType, TypeOK
<1> HIDE DEF i, s, c
<1>5. RetiresAtOnce(h, i, s, c, LSQueue') \/ StaysBehind(h, i, s, c)
  BY <1>1, <1>2, ExecuteRetires DEF c
<1> QED
  BY <1>4, <1>5 DEF i, s

\* The thread goes on to its next instruction, or to the PC 0.
LEMMA AdvanceFacts ==
  ASSUME Inv, NEW h \in Harts, TickExecute(h)
  PROVE  /\ inst' \in [Harts -> Insts \cup {NoInst}]
         /\ fetch' \in [Harts -> {"none", "fill", "avail"}]
         /\ done' \in [Harts -> 0 .. MaxInst]
         /\ \A g \in Harts \ {h} : inst'[g] = inst[g]
         /\ \A g \in Harts : inst'[g] # NoInst => done'[g] < MaxInst
<1>1. inst \in [Harts -> Insts \cup {NoInst}]
      /\ fetch \in [Harts -> {"none", "fill", "avail"}]
      /\ done \in [Harts -> 0 .. MaxInst] /\ done[h] < MaxInst
      /\ \A g \in Harts : inst[g] # NoInst => done[g] < MaxInst
  BY Executes, InstAssumption DEF Inv, IType, TypeOK
<1>2. done' = [done EXCEPT ![h] = @ + 1]
      /\ \E f \in {"none", "avail"} : fetch' = [fetch EXCEPT ![h] = f]
  BY Executes DEF AdvancePC
<1>3. PICK j \in IF done[h] + 1 < MaxInst THEN Insts \cup {NoInst} ELSE {NoInst} :
        inst' = [inst EXCEPT ![h] = j]
  BY Executes DEF AdvancePC
<1>4. done[h] + 1 \in 0 .. MaxInst /\ j \in Insts \cup {NoInst}
      /\ (j # NoInst => done[h] + 1 < MaxInst)
  BY <1>1, <1>3, BoundAssumption
<1>5. done' \in [Harts -> 0 .. MaxInst] /\ done'[h] = done[h] + 1
      /\ \A g \in Harts \ {h} : done'[g] = done[g]
  BY <1>1, <1>2, <1>4
<1>6. inst' \in [Harts -> Insts \cup {NoInst}] /\ inst'[h] = j
      /\ \A g \in Harts \ {h} : inst'[g] = inst[g]
  BY <1>1, <1>3, <1>4
<1>7. fetch' \in [Harts -> {"none", "fill", "avail"}]
  BY <1>1, <1>2
<1>8. \A g \in Harts : inst'[g] # NoInst => done'[g] < MaxInst
  BY <1>1, <1>4, <1>5, <1>6
<1> QED
  BY <1>5, <1>6, <1>7, <1>8

LEMMA ExecuteType ==
  ASSUME Inv, NEW h \in Harts, TickExecute(h) PROVE IType' /\ IPipe'
<1> DEFINE i == inst[h]
           s == Hazards(h, i)
<1>1. PICK c \in [Harts -> Nat] :
        /\ \A g \in Harts \ {h} : c[g] = Cost[g]
        /\ RetiresAtOnce(h, i, s, c, LSQueue') \/ StaysBehind(h, i, s, c)
  BY ExecutePipe
<1>2. Issued(h, i) \in Stages /\ Pipeline \in Seq(Stages)
  BY Executes, IssuedFacts
<1>3. s \in [Harts -> SUBSET Regs] /\ \A g \in Harts : Zero \notin s[g]
  BY HazardFacts
<1> HIDE DEF s
<1>4. Scoreboard' \in [Harts -> SUBSET Regs]
      /\ \A g \in Harts : Zero \notin Scoreboard'[g]
  BY <1>1, <1>3 DEF RetiresAtOnce, StaysBehind, DependencyClear
<1>5. Cost' \in [Harts -> Nat]
  BY <1>1 DEF RetiresAtOnce, StaysBehind
<1>6. Pipeline' \in Seq(Stages)
  BY <1>1, <1>2 DEF RetiresAtOnce, StaysBehind
<1>7. IPipe'
  <2>1. CASE RetiresAtOnce(h, i, s, c, LSQueue')
    <3>1. Pipeline' = <<>> /\ \A g \in Harts : Cost'[g] = 0
      BY <1>1, <2>1 DEF RetiresAtOnce, Inv, IPipe
    <3> QED
      BY <3>1 DEF IPipe
  <2>2. CASE StaysBehind(h, i, s, c)
    <3>1. Pipeline' # <<>> /\ Head(Pipeline').cost # 1
      BY <1>2, <2>2 DEF StaysBehind
    <3> QED
      BY <3>1 DEF IPipe
  <2> QED
    BY <1>1, <2>1, <2>2
<1>8. IdleHarts' \subseteq Harts /\ sim' \in {"running", "crashed"}
  BY Zenon, Executes DEF Inv, IType, TypeOK, Complete
<1>9. LSQueue' \subseteq LoadType /\ \A l \in LSQueue' : l.fill => l.reg = Zero
  <2>1. LSQueue \subseteq LoadType /\ \A l \in LSQueue : l.fill => l.reg = Zero
    BY DEF Inv, IType, TypeOK
  <2>2. \/ LSQueue' = LSQueue
        \/ \E l \in LoadType : ~l.fill /\ LSQueue' = LSQueue \cup {l}
    BY ExecuteQueue
  <2> QED
    BY <2>1, <2>2
<1>10. TypeOK'
  BY Zenon, <1>4, <1>5, <1>6, <1>8, <1>9, Executes, ExecuteQueue, AdvanceFacts
     DEF Inv, IType, TypeOK, Stages
<1> QED
  BY <1>4, <1>7, <1>9, <1>10, AdvanceFacts DEF IType

LEMMA TickExecuteInv ==
  ASSUME Inv, NEW h \in Harts, TickExecute(h) PROVE Inv'
<1> DEFINE i == inst[h]
<1>1. \/ LSQueue' = LSQueue
      \/ \E l \in LoadType : /\ l.hart = h /\ l.reg = i.rd
                             /\ LSQueue' = LSQueue \cup {l}
  BY ExecuteQueue
<1>2. ASSUME NEW g \in Harts \ IdleHarts, NEW r \in Regs \ {Zero}
      PROVE  /\ Loading(LSQueue', g, r) => r \in Scoreboard'[g]
             /\ r \in Scoreboard'[g] =>
                  Loading(LSQueue', g, r) \/ Unretired(Pipeline', g, r)
  <2>1. ~(g = h /\ r = i.rd) => (Loading(LSQueue', g, r) <=> Loading(LSQueue, g, r))
    BY <1>1 DEF Loading
  <2> DEFINE s == Hazards(h, i)
  <2>2. PICK c \in [Harts -> Nat] :
          RetiresAtOnce(h, i, s, c, LSQueue') \/ StaysBehind(h, i, s, c)
    BY ExecutePipe
  <2>3. i \in Insts
    BY Executes
  <2> DEFINE q == LSQueue'
  <2>4. s = Hazards(h, i) /\ (i.op = "load" /\ ~ctrl => q = LSQueue)
    BY ExecuteQueue
  <2>5. i.rd # Zero => ~Loading(LSQueue, h, i.rd)
    BY Executes, NoHazard
  <2> HIDE DEF q, s, i
  <2>6. /\ RetiresAtOnce(h, i, s, c, q) \/ StaysBehind(h, i, s, c)
        /\ ~(g = h /\ r = i.rd) => (Loading(q, g, r) <=> Loading(LSQueue, g, r))
    BY <2>1, <2>2 DEF q
  <2>7. /\ Loading(q, g, r) => r \in Scoreboard'[g]
        /\ r \in Scoreboard'[g] => Loading(q, g, r) \/ Unretired(Pipeline', g, r)
    BY ZenonT(40), <2>3, <2>4, <2>5, <2>6, ExecuteBoard
  <2> QED
    BY <2>7 DEF q
<1>3. IBoard'
  BY Zenon, <1>2, Executes DEF IBoard, Complete
<1>4. ASSUME NEW l \in LSQueue', l.reg # Zero PROVE l.hart \notin IdleHarts'
  <2>1. l \in LoadType /\ l.hart \notin IdleHarts
    BY Zenon, <1>1, <1>4, Executes DEF Inv, IType, TypeOK, ILoads
  <2>2. l.hart \in Harts \ IdleHarts /\ l.reg \in Regs \ {Zero}
    BY <2>1, <1>4 DEF LoadType
  <2>3. l.reg \in Scoreboard'[l.hart]
    BY <2>2, <1>2 DEF Loading
  <2> QED
    BY ZenonT(40), <2>1, <2>3, Executes DEF Complete
<1>5. ASSUME NEW l \in LSQueue', NEW m \in LSQueue',
             l.hart = m.hart, l.reg = m.reg, l.reg # Zero
      PROVE  l = m
  <2>1. i.rd # Zero => ~Loading(LSQueue, h, i.rd)
    BY Executes, NoHazard
  <2>2. \A k \in LSQueue : k.hart = h /\ k.reg = i.rd => k.reg = Zero
    BY <2>1 DEF Loading
  <2> QED
    BY <1>1, <1>5, <2>2 DEF Inv, ILoads
<1>6. ILoads'
  BY <1>4, <1>5 DEF ILoads
<1>7. IIdle'
  <2>1. /\ h \notin IdleHarts /\ IdleHarts \subseteq Harts
        /\ \A g \in IdleHarts : inst[g] = NoInst
    BY Executes DEF Inv, IType, TypeOK, IIdle
  <2>2. \A g \in Harts \ {h} : inst'[g] = inst[g]
    BY AdvanceFacts
  <2>3. IdleHarts' \subseteq IdleHarts \cup {h}
        /\ (h \in IdleHarts' => inst'[h] = NoInst)
    BY <2>1, Executes DEF Complete
  <2> QED
    BY <2>1, <2>2, <2>3 DEF IIdle
<1>8. sim' # "crashed"
  BY Executes DEF Complete
<1> QED
  BY <1>3, <1>6, <1>7, <1>8, ExecuteType DEF Inv

-----------------------------------------------------------------------------
(* The invariant and what follows from it                                  *)

LEMMA InvStep == Inv /\ [Next]_vars => Inv'
<1> SUFFICES ASSUME Inv, [Next]_vars PROVE Inv'
  OBVIOUS
<1>1. CASE TickIdle
  BY <1>1, TickIdleInv
<1>2. ASSUME NEW h \in Harts, TickMiss(h) PROVE Inv'
  BY <1>2, TickMissInv
<1>3. ASSUME NEW h \in Harts, TickStall(h) PROVE Inv'
  BY <1>3, TickStallInv
<1>4. ASSUME NEW h \in Harts, TickExecute(h) PROVE Inv'
  BY <1>4, TickExecuteInv
<1>5. ASSUME NEW l \in LSQueue, MarkLoadComplete(l) PROVE Inv'
  BY <1>5, MarkLoadCompleteInv
<1>6. ASSUME NEW l \in LSQueue, FillComplete(l) PROVE Inv'
  BY <1>6, FillCompleteInv
<1>7. ASSUME NEW h \in Harts, AssignThread(h) PROVE Inv'
  BY <1>7, AssignThreadInv
<1>8. ASSUME NEW h \in Harts, ExternalStallHart(h) \/ ExternalReleaseHart(h)
      PROVE  Inv'
  BY <1>8, ExternalInv
<1>9. CASE UNCHANGED vars
  BY <1>9 DEF vars, coreVars, hartVars, Inv, IType, TypeOK, ILoads, IBoard,
              IPipe, IIdle
<1> QED
  BY <1>1, <1>2, <1>3, <1>4, <1>5, <1>6, <1>7, <1>8, <1>9 DEF Next, Tick

LEMMA Invariance == Spec => []Inv
BY InitInv, InvStep, PTL DEF Spec

\* The scoreboard of a running hart holds every register with an outstanding
\* load and no register without a load or an unretired writer, whatever order
\* retirement, MarkLoadComplete and the end of threads come in.
THEOREM ScoreboardCorrect == Spec => []ScoreboardExact
<1>1. Inv => ScoreboardExact
  <2> SUFFICES ASSUME Inv PROVE ScoreboardExact
    OBVIOUS
  <2>1. TypeOK /\ LSQueue \subseteq LoadType /\ Scoreboard \in [Harts -> SUBSET Regs]
    BY DEF Inv, IType, TypeOK
  <2>2. ASSUME NEW h \in Harts \ IdleHarts, NEW l \in LSQueue, l.hart = h,
               l.reg # Zero
        PROVE  l.reg \in Scoreboard[h]
    <3>1. l.reg \in Regs \ {Zero} /\ Loading(LSQueue, h, l.reg)
      BY <2>1, <2>2 DEF LoadType, Loading
    <3> QED
      BY <3>1 DEF Inv, IBoard
  <2>3. ASSUME NEW h \in Harts \ IdleHarts, NEW r \in Scoreboard[h]
        PROVE  /\ r # Zero
               /\ \/ \E l \in LSQueue : l.hart = h /\ l.reg = r
                  \/ \E k \in DOMAIN Pipeline : Pipeline[k].hart = h
                                               /\ Pipeline[k].rd = r
    <3>1. r \in Regs \ {Zero}
      BY <2>1 DEF Inv, IType
    <3> QED
      BY <3>1 DEF Inv, IBoard, Loading, Unretired
  <2> QED
    BY <2>1, <2>2, <2>3 DEF ScoreboardExact
<1> QED
  BY <1>1, Invariance, PTL

\* No thread leaves its hart while data is on its way into its registers, and a
\* null register file is read only when an instruction can never retire.
THEOREM RegFilesKept == Spec => []RegFilesAlive
<1>1. Inv => RegFilesAlive
  BY DEF Inv, ILoads, RegFilesAlive
<1> QED
  BY <1>1, Invariance, PTL

\* An instruction that is still in the pipeline when a tick ends stays at its
\* front for good: retirement takes the cycle it subtracts back from a cost
\* other than 1, so nothing behind it retires either.
THEOREM FrontNeverRetires ==
  Spec => [][Pipeline # <<>> =>
               Pipeline' # <<>> /\ Head(Pipeline') = Head(Pipeline)]_vars
<1> DEFINE A == Pipeline # <<>> => Pipeline' # <<>> /\ Head(Pipeline') = Head(Pipeline)
<1>1. Inv /\ [Next]_vars => [A]_vars
  <2> SUFFICES ASSUME Inv, Next, Pipeline # <<>>
               PROVE  Pipeline' # <<>> /\ Head(Pipeline') = Head(Pipeline)
    BY DEF vars
  <2>1. CASE Pipeline' = Pipeline
    BY <2>1
  <2>2. ASSUME NEW h \in Harts, TickExecute(h)
        PROVE  Pipeline' # <<>> /\ Head(Pipeline') = Head(Pipeline)
    <3>1. Issued(h, inst[h]) \in Stages /\ Pipeline \in Seq(Stages)
      BY <2>2, Executes, IssuedFacts
    <3>2. Pipeline' = Append(Pipeline, Issued(h, inst[h]))
      BY <2>2, ExecutePipe DEF RetiresAtOnce, StaysBehind
    <3> QED
      BY <3>1, <3>2
  <2>3. ASSUME TickIdle \/ \E h \in Harts : TickMiss(h) \/ TickStall(h)
        PROVE  Pipeline' = Pipeline
    BY Zenon, <2>3, FrontWaits DEF TickIdle, TickMiss, TickStall
  <2>4. ASSUME \/ \E l \in LSQueue : MarkLoadComplete(l) \/ FillComplete(l)
               \/ \E h \in Harts : AssignThread(h) \/ ExternalStallHart(h)
                                   \/ ExternalReleaseHart(h)
        PROVE  Pipeline' = Pipeline
    BY Zenon, <2>4 DEF MarkLoadComplete, FillComplete, AssignThread, ExternalStallHart,
                ExternalReleaseHart
  <2> QED
    BY <2>1, <2>2, <2>3, <2>4 DEF Next, Tick
<1> QED
  BY <1>1, Invariance, PTL DEF Spec

-----------------------------------------------------------------------------
(* The core implements HartISA                                             *)

\* What the program sees of a register.
Seen(q, x, h, r) ==
  CASE r = Zero -> 0
    [] r # Zero /\ Into(q, h, r) # {} ->
         Data[(CHOOSE l \in Into(q, h, r) : TRUE).addr]
    [] OTHER -> x[h][r]

LEMMA SeenLoad ==
  ASSUME NEW q, NEW x, NEW h, NEW r, r # Zero, NEW l, Into(q, h, r) = {l}
  PROVE  Seen(q, x, h, r) = Data[l.addr]
<1>1. (CHOOSE m \in Into(q, h, r) : TRUE) = l
  OBVIOUS
<1> QED
  BY <1>1 DEF Seen

LEMMA SeenPlain ==
  ASSUME NEW q, NEW x, NEW h, NEW r, r # Zero, ~Loading(q, h, r)
  PROVE  Seen(q, x, h, r) = x[h][r]
<1>1. Into(q, h, r) = {}
  BY NoLoad
<1> QED
  BY <1>1 DEF Seen

LEMMA SeenSame ==
  ASSUME NEW q, NEW x, NEW q1, NEW x1, NEW h, NEW r,
         r # Zero => Into(q1, h, r) = Into(q, h, r) /\ x1[h][r] = x[h][r]
  PROVE  Seen(q1, x1, h, r) = Seen(q, x, h, r)
<1>1. CASE r = Zero
  BY <1>1 DEF Seen
<1>2. CASE r # Zero
  BY <1>2 DEF Seen
<1> QED
  BY <1>1, <1>2

\* The registers of the refinement mapping.
SeenRegs(q, x) == [h \in Harts |-> [r \in Regs |-> Seen(q, x, h, r)]]

LEMMA Mapping == ArchRegs = SeenRegs(LSQueue, X)
BY DEF ArchRegs, ArchReg, SeenRegs, Seen

LEMMA InitISA == Init => ISA!Init
<1> SUFFICES ASSUME Init PROVE ISA!Init
  OBVIOUS
<1>1. ASSUME NEW h \in Harts, NEW r \in Regs
      PROVE  Seen(LSQueue, X, h, r) = 0
  <2>1. ~Loading(LSQueue, h, r)
    BY DEF Init, Loading
  <2>2. X[h][r] = 0
    BY DEF Init, Cleared
  <2>3. CASE r = Zero
    BY <2>3 DEF Seen
  <2>4. CASE r # Zero
    BY <2>1, <2>2, <2>4, SeenPlain
  <2> QED
    BY <2>3, <2>4
<1>2. SeenRegs(LSQueue, X) = [h \in Harts |-> ISA!Cleared]
  BY <1>1 DEF SeenRegs, ISA!Cleared
<1> QED
  BY <1>2, Mapping DEF Init, ISA!Init

LEMMA MappingNext == ArchRegs' = SeenRegs(LSQueue', X')
BY DEF ArchRegs, ArchReg, SeenRegs, Seen

\* The queue and the registers a step leaves show the program the same.
LEMMA StutterISA ==
  ASSUME UNCHANGED <<inst, sent>>,
         \A h \in Harts : \A r \in Regs :
           Seen(LSQueue', X', h, r) = Seen(LSQueue, X, h, r)
  PROVE  UNCHANGED ISA!vars
<1>1. SeenRegs(LSQueue', X') = SeenRegs(LSQueue, X)
  BY DEF SeenRegs
<1> QED
  BY <1>1, Mapping, MappingNext DEF ISA!vars

\* Requesting and receiving instructions is invisible.
LEMMA FillISA ==
  ASSUME UNCHANGED <<inst, sent, X>>,
         \A h \in Harts : \A r \in Regs \ {Zero} :
           Into(LSQueue', h, r) = Into(LSQueue, h, r)
  PROVE  UNCHANGED ISA!vars
<1>1. ASSUME NEW h \in Harts, NEW r \in Regs
      PROVE  Seen(LSQueue', X', h, r) = Seen(LSQueue, X, h, r)
  BY SeenSame
<1> QED
  BY <1>1, StutterISA

\* Data that arrives is what the program already saw.
LEMMA MarkLoadCompleteISA ==
  ASSUME Inv, NEW l \in LSQueue, MarkLoadComplete(l) PROVE UNCHANGED ISA!vars
<1>1. l \in LoadType /\ X \in [Harts -> [Regs -> Values]]
  BY DEF Inv, IType, TypeOK
<1>2. l.hart \in Harts /\ l.reg \in Regs \cup {Zero}
  BY <1>1 DEF LoadType
<1>3. X' = SetX(l.hart, l.reg, Data[l.addr]) /\ LSQueue' = LSQueue \ {l}
      /\ UNCHANGED <<inst, sent>>
  BY DEF MarkLoadComplete
<1>4. ASSUME NEW h \in Harts, NEW r \in Regs
      PROVE  Seen(LSQueue', X', h, r) = Seen(LSQueue, X, h, r)
  <2>1. CASE r = Zero
    BY <2>1 DEF Seen
  <2>2. CASE r # Zero /\ h = l.hart /\ r = l.reg
    <3>1. \A m \in LSQueue : m.hart = h /\ m.reg = r => m = l
      BY <2>2 DEF Inv, ILoads
    <3>2. Into(LSQueue, h, r) = {l}
      BY <2>2, <3>1 DEF Into
    <3>3. ~Loading(LSQueue', h, r)
      BY <1>3, <3>1 DEF Loading
    <3>4. X'[h][r] = Data[l.addr]
      BY <1>1, <1>2, <1>3, <2>2 DEF SetX
    <3> QED
      BY <2>2, <3>2, <3>3, <3>4, SeenLoad, SeenPlain
  <2>3. CASE r # Zero /\ ~(h = l.hart /\ r = l.reg)
    <3>1. Into(LSQueue', h, r) = Into(LSQueue, h, r)
      BY <1>3, <2>3 DEF Into
    <3>2. X'[h][r] = X[h][r]
      BY <1>1, <1>2, <1>3, <2>3 DEF SetX
    <3> QED
      BY <3>1, <3>2, SeenSame
  <2> QED
    BY <2>1, <2>2, <2>3
<1> QED
  BY <1>3, <1>4, StutterISA

\* A new thread finds clear registers: no load of the last one is left.
LEMMA AssignThreadISA ==
  ASSUME Inv, NEW h \in Harts, AssignThread(h) PROVE ISA!Start(h)
<1>1. LSQueue' = LSQueue /\ X' = [X EXCEPT ![h] = Cleared] /\ sent' = sent
      /\ \E i \in Insts : inst' = [inst EXCEPT ![h] = i]
  BY Zenon DEF AssignThread
<1>2. inst[h] = NoInst
  BY DEF AssignThread, Inv, IIdle
<1>3. X \in [Harts -> [Regs -> Values]]
  BY DEF Inv, IType, TypeOK
<1>4. ASSUME NEW r \in Regs PROVE Seen(LSQueue', X', h, r) = 0
  <2>1. CASE r = Zero
    BY <2>1 DEF Seen
  <2>2. CASE r # Zero
    <3>1. ~Loading(LSQueue', h, r)
      BY <1>1, <2>2 DEF Loading, AssignThread, Inv, ILoads
    <3>2. X'[h][r] = 0
      BY <1>1, <1>3 DEF Cleared
    <3> QED
      BY <2>2, <3>1, <3>2, SeenPlain
  <2> QED
    BY <2>1, <2>2
<1>5. ASSUME NEW g \in Harts, g # h, NEW r \in Regs
      PROVE  Seen(LSQueue', X', g, r) = Seen(LSQueue, X, g, r)
  <2>1. X'[g][r] = X[g][r]
    BY <1>1, <1>3, <1>5
  <2>2. Into(LSQueue', g, r) = Into(LSQueue, g, r)
    BY <1>1
  <2> QED
    BY <2>1, <2>2, SeenSame
<1>6. SeenRegs(LSQueue', X')
        = [SeenRegs(LSQueue, X) EXCEPT ![h] = ISA!Cleared]
  BY Zenon, <1>4, <1>5 DEF SeenRegs, ISA!Cleared
<1> QED
  BY Zenon, <1>1, <1>2, <1>6, Mapping, MappingNext DEF ISA!Start

\* The operands are those the program sees.
LEMMA OperandsISA ==
  ASSUME Inv, NEW h \in Harts, NEW i \in Insts, ~DependencyCheck(h, i)
  PROVE  ISA!Operands(i, SeenRegs(LSQueue, X)[h]) = Operands(h, i)
<1>1. i.srcs \subseteq Regs
  BY InstAssumption DEF InstType
<1>2. ASSUME NEW r \in i.srcs
      PROVE  SeenRegs(LSQueue, X)[h][r] = GetX(h, r)
  <2>1. SeenRegs(LSQueue, X)[h][r] = Seen(LSQueue, X, h, r)
    BY <1>1 DEF SeenRegs
  <2>2. CASE r = Zero
    BY <2>1, <2>2 DEF Seen, GetX
  <2>3. CASE r # Zero
    <3>1. ~Loading(LSQueue, h, r)
      BY <2>3, NoHazard
    <3>2. Seen(LSQueue, X, h, r) = X[h][r]
      BY <2>3, <3>1, SeenPlain
    <3> QED
      BY <2>1, <2>3, <3>2 DEF GetX
  <2> QED
    BY <2>2, <2>3
<1> QED
  BY <1>2 DEF Operands, ISA!Operands

\* The value an instruction produces.
Result(h, i) ==
  IF i.op = "load" THEN Data[ALU(i, Operands(h, i))] ELSE ALU(i, Operands(h, i))

\* What an instruction does to the registers and the load queue.
LEMMA ExecuteCases ==
  ASSUME Inv, NEW h \in Harts, NEW i \in Insts, NEW junk \in Values,
         Execute(h, i, junk)
  PROVE  \/ i.rd \notin Regs /\ UNCHANGED <<X, LSQueue>>
         \/ UNCHANGED LSQueue /\ X' = SetX(h, i.rd, Result(h, i))
         \/ /\ X' = SetX(h, i.rd, junk)
            /\ \E l : /\ l.hart = h /\ l.reg = i.rd
                     /\ Data[l.addr] = Result(h, i)
                     /\ LSQueue' = LSQueue \cup {l}
<1>1. ctrl \in BOOLEAN
  BY DEF Inv, IType, TypeOK
<1>2. i.op \in {"alu", "load", "store"} /\ (i.op = "store" => i.rd \notin Regs)
  BY InstAssumption, RegAssumption DEF InstType
<1>3. CASE i.op = "alu"
  BY <1>3 DEF Execute, Result
<1>4. CASE i.op = "store"
  BY <1>2, <1>4 DEF Execute
<1>5. CASE i.op = "load" /\ ~ctrl
  BY <1>5 DEF Execute, Result
<1>6. CASE i.op = "load" /\ ctrl
  <2> DEFINE l == [hart |-> h, reg |-> i.rd, addr |-> ALU(i, Operands(h, i)),
                   seq |-> Request(h), fill |-> FALSE]
  <2>1. LSQueue' = LSQueue \cup {l} /\ X' = SetX(h, i.rd, junk)
    BY <1>6 DEF Execute
  <2>2. l.hart = h /\ l.reg = i.rd /\ Data[l.addr] = Result(h, i)
    BY Zenon, <1>6 DEF Result
  <2> HIDE DEF l
  <2> QED
    BY <2>1, <2>2
<1> QED
  BY ZenonT(40), <1>1, <1>2, <1>3, <1>4, <1>5, <1>6

\* SetX writes the given register and no other.
LEMMA SetXFacts ==
  ASSUME Inv, NEW h \in Harts, NEW x, NEW v, NEW g \in Harts,
         NEW r \in Regs \ {Zero}
  PROVE  SetX(h, x, v)[g][r] = IF g = h /\ r = x THEN v ELSE X[g][r]
<1>1. X \in [Harts -> [Regs -> Values]]
  BY DEF Inv, IType, TypeOK
<1> QED
  BY <1>1 DEF SetX

\* What the program sees in the registers after an instruction.
LEMMA ExecuteSeen ==
  ASSUME Inv, NEW h \in Harts, TickExecute(h), NEW g \in Harts, NEW r \in Regs
  PROVE  Seen(LSQueue', X', g, r) = IF g = h /\ r = inst[h].rd /\ r # Zero
                                      THEN Result(h, inst[h])
                                      ELSE Seen(LSQueue, X, g, r)
<1> DEFINE i == inst[h]
           w == Result(h, i)
<1>1. i \in Insts /\ ~DependencyCheck(h, i)
  BY Executes
<1>2. PICK junk \in Values : Execute(h, i, junk)
  BY ZenonT(40) DEF TickExecute
<1>3. \/ i.rd \notin Regs /\ UNCHANGED <<X, LSQueue>>
      \/ UNCHANGED LSQueue /\ X' = SetX(h, i.rd, w)
      \/ /\ X' = SetX(h, i.rd, junk)
         /\ \E l : l.hart = h /\ l.reg = i.rd /\ Data[l.addr] = w
                   /\ LSQueue' = LSQueue \cup {l}
  BY <1>1, <1>2, ExecuteCases
<1> HIDE DEF i, w
<1>4. CASE r = Zero
  BY <1>4 DEF Seen
<1>5. CASE r # Zero /\ ~(g = h /\ r = i.rd)
  <2>1. X'[g][r] = X[g][r]
    BY <1>3, <1>5, SetXFacts
  <2>2. Into(LSQueue', g, r) = Into(LSQueue, g, r)
    BY <1>3, <1>5 DEF Into
  <2>3. Seen(LSQueue', X', g, r) = Seen(LSQueue, X, g, r)
    BY <2>1, <2>2, SeenSame
  <2> QED
    BY <1>5, <2>3 DEF i
<1>6. CASE r # Zero /\ g = h /\ r = i.rd
  <2>1. ~Loading(LSQueue, h, r)
    BY <1>1, <1>6, NoHazard
  <2>2. CASE UNCHANGED LSQueue /\ X' = SetX(h, i.rd, w)
    <3>1. X'[h][r] = w
      BY <1>6, <2>2, SetXFacts
    <3>2. Seen(LSQueue', X', h, r) = w
      BY <1>6, <2>1, <2>2, <3>1, SeenPlain
    <3> QED
      BY <1>6, <3>2 DEF i, w
  <2>3. CASE \E l : l.hart = h /\ l.reg = i.rd /\ Data[l.addr] = w
                    /\ LSQueue' = LSQueue \cup {l}
    <3>1. PICK l : l.hart = h /\ l.reg = r /\ Data[l.addr] = w
                   /\ LSQueue' = LSQueue \cup {l}
      BY <1>6, <2>3
    <3>2. Into(LSQueue', h, r) = {l}
      BY <2>1, <3>1 DEF Into, Loading
    <3>3. Seen(LSQueue', X', h, r) = w
      <4> DEFINE q == LSQueue'
                 x == X'
      <4>1. Into(q, h, r) = {l}
        BY <3>2
      <4> HIDE DEF q, x
      <4>2. Seen(q, x, h, r) = Data[l.addr]
        BY <1>6, <4>1, SeenLoad
      <4> QED
        BY <3>1, <4>2 DEF q, x
    <3> QED
      BY <1>6, <3>3 DEF i, w
  <2> QED
    BY ZenonT(40), <1>3, <1>6, <2>2, <2>3
<1> QED
  BY <1>4, <1>5, <1>6 DEF i

LEMMA TickExecuteISA ==
  ASSUME Inv, NEW h \in Harts, TickExecute(h) PROVE ISA!Execute(h)
<1> DEFINE i == inst[h]
           f == SeenRegs(LSQueue, X)
           w == Result(h, i)
<1>1. i \in Insts /\ i # NoInst /\ ~DependencyCheck(h, i)
  BY Executes, InstAssumption
<1>2. \E j \in Insts \cup {NoInst} : inst' = [inst EXCEPT ![h] = j]
  BY Executes DEF AdvancePC
<1>3. ISA!Produces(i, f[h]) = w
  BY <1>1, OperandsISA DEF ISA!Produces, Result
<1>4. sent' = IF i.op = "store" THEN [sent EXCEPT ![h] = w] ELSE sent
  <2>1. i.op \in {"alu", "load", "store"} /\ ctrl \in BOOLEAN
    BY <1>1, InstAssumption DEF InstType, Inv, IType, TypeOK
  <2> QED
    BY Zenon, <2>1 DEF TickExecute, Execute, Result
<1>5. \A g \in Harts : \A r \in Regs :
        Seen(LSQueue', X', g, r) = IF g = h /\ r = i.rd /\ r # Zero
                                     THEN w ELSE Seen(LSQueue, X, g, r)
  BY ExecuteSeen
<1> HIDE DEF i, w
<1>6. SeenRegs(LSQueue', X')
        = [f EXCEPT ![h] = [r \in Regs |-> IF r = i.rd /\ r # Zero
                                             THEN w ELSE f[h][r]]]
  BY ZenonT(40), <1>5 DEF SeenRegs
<1>7. f = ArchRegs /\ SeenRegs(LSQueue', X') = ArchRegs'
  BY Mapping, MappingNext
<1> HIDE DEF f
<1> QED
  BY Zenon, <1>1, <1>2, <1>3, <1>4, <1>6, <1>7 DEF ISA!Execute, i

\* Every step of the core is a step of HartISA or invisible in it.
LEMMA StepISA == Inv /\ [Next]_vars => [ISA!Next]_(ISA!vars)
<1> SUFFICES ASSUME Inv, [Next]_vars PROVE [ISA!Next]_(ISA!vars)
  OBVIOUS
<1>1. ASSUME NEW h \in Harts, TickExecute(h) PROVE ISA!Next
  BY <1>1, TickExecuteISA DEF ISA!Next
<1>2. ASSUME NEW h \in Harts, AssignThread(h) PROVE ISA!Next
  BY <1>2, AssignThreadISA DEF ISA!Next
<1>3. ASSUME NEW l \in LSQueue, MarkLoadComplete(l) PROVE UNCHANGED ISA!vars
  BY <1>3, MarkLoadCompleteISA
<1>4. ASSUME NEW l \in LSQueue, FillComplete(l) PROVE UNCHANGED ISA!vars
  <2>1. l.reg = Zero
    BY <1>4 DEF FillComplete, Inv, IType
  <2> QED
    BY <1>4, <2>1, FillISA DEF FillComplete, Into
<1>5. ASSUME NEW h \in Harts, TickMiss(h) PROVE UNCHANGED ISA!vars
  BY <1>5, FillISA DEF TickMiss, Into
<1>6. ASSUME \/ TickIdle
             \/ \E h \in Harts : TickStall(h) \/ ExternalStallHart(h)
                                 \/ ExternalReleaseHart(h)
             \/ UNCHANGED vars
      PROVE  UNCHANGED ISA!vars
  <2>1. UNCHANGED <<inst, sent, X, LSQueue>>
    BY Zenon, <1>6 DEF TickIdle, TickStall, ExternalStallHart, ExternalReleaseHart,
                vars, coreVars, hartVars
  <2> QED
    BY <2>1, FillISA
<1> QED
  BY <1>1, <1>2, <1>3, <1>4, <1>5, <1>6 DEF Next, Tick

\* A core with any number of harts, any instructions and loads that take any
\* time runs its programs as HartISA does: DependencyCheck, the load queue and
\* the end of threads never let late data reach the wrong reader or thread.
THEOREM CoreImplementsISA == Spec => ImplementsISA
BY InitISA, StepISA, Invariance, PTL DEF Spec, ImplementsISA, ISA!Spec

=============================================================================
