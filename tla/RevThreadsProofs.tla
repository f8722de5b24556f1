-------------------------- MODULE RevThreadsProofs --------------------------
(***************************************************************************)
(* Proofs about RevThreads, for every number of cores, harts, threads and  *)
(* instructions.                                                           *)
(***************************************************************************)
EXTENDS RevThreads, StdContainersProofs

\* The provers a leaf that names none is given to, in this order.
USE SMTT(10), ZenonT(10), SMTT(60), Z3T(60)

-----------------------------------------------------------------------------
(* Type correctness.                                                       *)

USE DEF Cores, Harts, TIDs, NoTID

\* What a tick of an enabled core leaves alone, and where it stands.
LEMMA DecodeFacts ==
  ASSUME TypeOK, NEW h, NEW t, Decode(h, t)
  PROVE  /\ h \in Harts /\ h \notin IdleHarts[core]
         /\ t = Thread[core][h]
         /\ phase = "tick" /\ phase' = "handle"
         /\ sim = "running"
         /\ Enabled[core]
         /\ HartToDecodeID' \in [Cores -> Harts]
         /\ UNCHANGED <<ReadyThreads, BlockedThreads, CompletedThreads, Enabled,
                        core, scan>>
BY DEF TypeOK, Decode, GetNextHartToDecodeID, AtCore, queueVars

LEMMA PopType ==
  ASSUME TypeOK, NEW h \in Harts, NEW t \in Threads, NEW state \in ThreadStates,
         PopThreadFromHart(h, t, state)
  PROVE  /\ Thread' \in [Cores -> [Harts -> Threads \cup {NoThread}]]
         /\ IdleHarts' \in [Cores -> SUBSET Harts]
         /\ State' \in [Threads -> ThreadStates]
         /\ ThreadsThatChangedState' \in [Cores -> Seq(Threads)]
<1>1. core \in Cores /\ NoThread \in Threads \cup {NoThread}
  BY DEF TypeOK
<1>2. Thread' \in [Cores -> [Harts -> Threads \cup {NoThread}]]
  BY <1>1 DEF TypeOK, PopThreadFromHart
<1>3. IdleHarts' \in [Cores -> SUBSET Harts]
  BY Zenon, <1>1 DEF TypeOK, PopThreadFromHart
<1>4. State' \in [Threads -> ThreadStates]
  BY DEF TypeOK, PopThreadFromHart
<1>5. ThreadsThatChangedState' \in [Cores -> Seq(Threads)]
  BY Zenon, <1>1, AppendFacts DEF TypeOK, PopThreadFromHart
<1> QED
  BY <1>2, <1>3, <1>4, <1>5

LEMMA TypeInit == Init => TypeOK
BY CoreAssumption, HartAssumption, ThreadAssumption, TIDAssumption,
   BoundAssumption
   DEF Init, TypeOK, ThreadStates, Phases

LEMMA TypeHartStep ==
  ASSUME TypeOK, NEW h \in Harts, NEW t \in Threads, HartStep(h, t)
  PROVE  TypeOK'
<1> USE DEF TypeOK, Phases, progVars
<1>1. CASE FetchMiss(h, t)
  BY Zenon, <1>1, DecodeFacts DEF FetchMiss
<1>2. CASE Stall(h, t)
  BY Zenon, <1>2, DecodeFacts DEF Stall
<1>3. ASSUME NEW load \in BOOLEAN, Execute(h, t, load) PROVE TypeOK'
  <2>1. left' \in [Threads -> 0 .. MaxInst]
    BY <1>3, BoundAssumption DEF Execute
  <2>2. dep' \in [Threads -> BOOLEAN]
    BY <1>3 DEF Execute
  <2> QED
    BY Zenon, <1>3, <2>1, <2>2, DecodeFacts DEF Execute
<1>4. CASE Return(h, t)
  BY ZenonT(40), <1>4, DecodeFacts, PopType DEF Return, Complete, ThreadStates
<1>5. CASE Spin(h, t)
  BY ZenonT(40), <1>5, DecodeFacts, PopType DEF Spin, Complete, ThreadStates
<1>6. ASSUME NEW u \in Threads, NEW i \in TIDs, ECALL_pthread_create(h, t, u, i)
      PROVE  TypeOK'
  <2>0. left' = [left EXCEPT ![t] = @ - 1] /\ left[t] > 0
    BY Zenon, <1>6 DEF ECALL_pthread_create
  <2>1. left' \in [Threads -> 0 .. MaxInst]
    BY ONLY <2>0, left \in [Threads -> 0 .. MaxInst], t \in Threads, BoundAssumption
  <2>2. ThreadsThatChangedState' \in [Cores -> Seq(Threads)]
    BY Zenon, <1>6, AppendFacts DEF ECALL_pthread_create
  <2>3. /\ State' \in [Threads -> ThreadStates]
        /\ ID' \in [Threads -> TIDs]
        /\ ParentID' \in [Threads -> Threads \cup {NoThread}]
        /\ fetch' \in [Threads -> {"hit", "miss", "filled"}]
    BY <1>6 DEF ECALL_pthread_create, ThreadStates
  <2> QED
    BY Zenon, <1>6, <2>1, <2>2, <2>3, DecodeFacts DEF ECALL_pthread_create
<1>7. ASSUME NEW i \in TIDs, ECALL_pthread_join(h, t, i) PROVE TypeOK'
  <2>1. left' \in [Threads -> 0 .. MaxInst]
    BY <1>7, BoundAssumption DEF ECALL_pthread_join
  <2>2. WaitingToJoinTID' \in [Threads -> TIDs]
    BY Zenon, <1>7 DEF ECALL_pthread_join
  <2> QED
    BY ZenonT(40), <1>7, <2>1, <2>2, DecodeFacts, PopType
       DEF ECALL_pthread_join, ThreadStates
<1>8. CASE ECALL_exit(h, t)
  BY Zenon, <1>8, DecodeFacts DEF ECALL_exit
<1> QED
  BY Zenon, <1>1, <1>2, <1>3, <1>4, <1>5, <1>6, <1>7, <1>8 DEF HartStep

LEMMA ChangedType ==
  ASSUME TypeOK, NEW t \in Threads, NEW state, Changed(t, state)
  PROVE  /\ ThreadsThatChangedState' \in [Cores -> Seq(Threads)]
         /\ Enabled' \in [Cores -> BOOLEAN]
         /\ UNCHANGED <<Thread, IdleHarts, HartToDecodeID, ID, ParentID,
                        WaitingToJoinTID, zeroPC, dep, fetch, left, phase, core,
                        scan, sim>>
<1>1. Tail(ThreadsThatChangedState[core]) \in Seq(Threads)
  BY ZenonT(40), TailFacts DEF TypeOK, Changed
<1>2. ThreadsThatChangedState' \in [Cores -> Seq(Threads)]
  BY <1>1 DEF TypeOK, Changed
<1>3. Enabled' \in [Cores -> BOOLEAN]
  BY DEF TypeOK, Changed, DisableIfNoWork
<1> QED
  BY <1>2, <1>3 DEF Changed, hartVars, progVars, tickVars

LEMMA TypeStep == TypeOK /\ [Next]_vars => TypeOK'
<1> SUFFICES ASSUME TypeOK, [Next]_vars PROVE TypeOK'
  OBVIOUS
<1> USE DEF TypeOK, Phases, queueVars, hartVars, threadVars, progVars, tickVars,
            AtCore
<1>1. ASSUME NEW h \in Harts, AssignThread(h) PROVE TypeOK'
  <2>1. /\ Head(ReadyThreads) \in Threads
        /\ ReadyThreads' \in Seq(Threads)
    BY <1>1, TailFacts DEF AssignThread
  <2>2. Thread' \in [Cores -> [Harts -> Threads \cup {NoThread}]]
    BY Zenon, <1>1, <2>1 DEF AssignThread
  <2>3. IdleHarts' \in [Cores -> SUBSET Harts]
    BY Zenon, <1>1 DEF AssignThread
  <2>4. State' \in [Threads -> ThreadStates]
    BY <1>1, <2>1 DEF AssignThread, ThreadStates
  <2> QED
    BY Zenon, <1>1, <2>1, <2>2, <2>3, <2>4 DEF AssignThread
<1>2. CASE NothingToAssign
  BY <1>2 DEF NothingToAssign
<1>3. ASSUME NEW h \in Harts, NEW t \in Threads, HartStep(h, t) PROVE TypeOK'
  BY Zenon, <1>3, TypeHartStep
<1>4. CASE NotClocked
  BY <1>4 DEF NotClocked
<1>5. ASSUME NEW t \in Threads, HandleDone(t) PROVE TypeOK'
  <2>1. Changed(t, State[t])
    BY <1>5 DEF HandleDone, Changed
  <2> QED
    BY Zenon, <1>5, <2>1, ChangedType, AppendFacts DEF HandleDone, ThreadStates
<1>6. ASSUME NEW t \in Threads, HandleBlocked(t) PROVE TypeOK'
  <2>1. Changed(t, State[t])
    BY <1>6 DEF HandleBlocked, Changed
  <2> QED
    BY Zenon, <1>6, <2>1, ChangedType, AppendFacts DEF HandleBlocked, ThreadStates
<1>7. ASSUME NEW t \in Threads, HandleStart(t) PROVE TypeOK'
  <2>1. Changed(t, State[t])
    BY <1>7 DEF HandleStart, Changed
  <2> QED
    BY Zenon, <1>7, <2>1, ChangedType, AppendFacts DEF HandleStart, ThreadStates
<1>8. CASE FinishCore
  <2>1. core' \in Cores /\ phase' \in Phases
    <3>1. CASE core = NumCores - 1
      BY <1>8, <3>1, CoreAssumption DEF FinishCore
    <3>2. CASE core # NumCores - 1
      <4>1. core + 1 \in Cores
        BY <3>2, CoreAssumption
      <4> QED
        BY <1>8, <3>2, <4>1 DEF FinishCore
    <3> QED
      BY <3>1, <3>2
  <2>2. Enabled' \in [Cores -> BOOLEAN]
    BY <1>8 DEF FinishCore, DisableIfNoWork
  <2> QED
    BY <1>8, <2>1, <2>2 DEF FinishCore
<1>9. CASE EndTick
  BY Zenon, <1>9 DEF EndTick
<1>10. CASE StartCheck
  BY <1>10 DEF StartCheck
<1>11. CASE CheckBlockedThreads
  <2>1. scan \in 1 .. Len(BlockedThreads) /\ scan + 1 \in Nat \ {0}
    BY <1>11 DEF CheckBlockedThreads
  <2>2. /\ BlockedThreads[scan] \in Threads
        /\ Erase(BlockedThreads, scan) \in Seq(Threads)
        /\ Append(ReadyThreads, BlockedThreads[scan]) \in Seq(Threads)
    BY <2>1, EraseFacts
  <2> QED
    BY Zenon, <1>11, <2>1, <2>2 DEF CheckBlockedThreads
<1>12. CASE CheckDone
  BY <1>12 DEF CheckDone
<1>13. ASSUME NEW t \in Threads, MarkLoadComplete(t) PROVE TypeOK'
  BY <1>13 DEF MarkLoadComplete
<1>14. ASSUME NEW t \in Threads, MarkInstructionLoadComplete(t) PROVE TypeOK'
  BY Zenon, <1>14 DEF MarkInstructionLoadComplete
<1>15. CASE Stopped \/ UNCHANGED vars
  BY Zenon, <1>15 DEF Stopped, vars
<1> QED
  BY Zenon, <1>1, <1>2, <1>3, <1>4, <1>5, <1>6, <1>7, <1>8, <1>9, <1>10, <1>11, <1>12,
     <1>13, <1>14, <1>15
     DEF Next, clockTick

\* Every variable keeps its type, for every number of cores, harts and threads.
THEOREM TypeCorrect == Spec => []TypeOK
<1>1. Init => TypeOK
  BY TypeInit
<1>2. TypeOK /\ [Next]_vars => TypeOK'
  BY TypeStep
<1> QED
  BY <1>1, <1>2, PTL DEF Spec

-----------------------------------------------------------------------------
(* The steps of a hart as the scheduler sees them: the thread stays on its *)
(* hart, leaves it with no load outstanding, or creates another thread.    *)

Stays(t) ==
  /\ UNCHANGED <<Thread, IdleHarts, State, ThreadsThatChangedState, ID,
                 WaitingToJoinTID>>
  /\ \A x \in Threads : dep'[x] => dep[x] \/ x = t

Leaves(h, t, state) ==
  /\ PopThreadFromHart(h, t, state)
  /\ ~dep[t]
  /\ UNCHANGED <<dep, ID>>
  /\ \/ state = "DONE" /\ UNCHANGED WaitingToJoinTID
     \/ /\ state = "BLOCKED"
        /\ \E i \in TIDs :
             WaitingToJoinTID' = [WaitingToJoinTID EXCEPT ![t] = i]

Creates(u, i) ==
  /\ State[u] = "NONE" /\ GetNewThreadID(i)
  /\ State' = [State EXCEPT ![u] = "START"]
  /\ ID' = [ID EXCEPT ![u] = i]
  /\ ThreadsThatChangedState' =
       [ThreadsThatChangedState EXCEPT ![core] = Append(@, u)]
  /\ UNCHANGED <<Thread, IdleHarts, WaitingToJoinTID, dep>>

LEMMA HartStepCases ==
  ASSUME TypeOK, NEW h \in Harts, NEW t \in Threads, HartStep(h, t)
  PROVE  /\ Decode(h, t)
         /\ sim' \in {"running", "exited"}
         /\ \/ Stays(t)
            \/ sim' = "running" /\ \E s \in {"DONE", "BLOCKED"} : Leaves(h, t, s)
            \/ sim' = "running" /\ \E u \in Threads, i \in TIDs : Creates(u, i)
<1> USE DEF progVars
<1>0. Decode(h, t) => sim = "running"
  BY DEF Decode, AtCore
<1>1. CASE FetchMiss(h, t)
  BY <1>0, <1>1 DEF FetchMiss, Stays
<1>2. CASE Stall(h, t)
  BY <1>0, <1>2 DEF Stall, Stays
<1>3. ASSUME NEW load \in BOOLEAN, Execute(h, t, load)
      PROVE  Decode(h, t) /\ sim' = "running" /\ Stays(t)
  BY <1>0, <1>3 DEF Execute, Stays, TypeOK
<1>4. CASE Return(h, t) \/ Spin(h, t)
  BY <1>0, <1>4 DEF Return, Spin, Complete, Stays, Leaves
<1>5. ASSUME NEW u \in Threads, NEW i \in TIDs, ECALL_pthread_create(h, t, u, i)
      PROVE  Decode(h, t) /\ sim' = "running" /\ Creates(u, i)
  BY <1>0, <1>5 DEF ECALL_pthread_create, Creates
<1>6. ASSUME NEW i \in TIDs, ECALL_pthread_join(h, t, i)
      PROVE  /\ Decode(h, t) /\ sim' = "running"
             /\ Stays(t) \/ Leaves(h, t, "BLOCKED")
  BY <1>0, <1>6 DEF ECALL_pthread_join, Stays, Leaves
<1>7. CASE ECALL_exit(h, t)
  BY <1>0, <1>7 DEF ECALL_exit, Stays
<1> QED
  BY <1>1, <1>2, <1>3, <1>4, <1>5, <1>6, <1>7 DEF HartStep

\* A thread that a hart holds is among OnHarts.
LEMMA OnHart ==
  ASSUME NEW c \in Cores, NEW h \in Harts, Thread[c][h] # NoThread
  PROVE  Thread[c][h] \in OnHarts
BY DEF OnHarts

\* The threads on harts depend on the harts alone.
LEMMA OnHartsKept ==
  ASSUME Thread' = Thread
  PROVE  OnHarts' = OnHarts
BY DEF OnHarts

-----------------------------------------------------------------------------
(* Harts: the bitset agrees with them, and a load is answered on them.     *)

HartInv == TypeOK /\ IdleAgrees /\ LoadsOnHart

\* The actions that leave harts, scoreboards and thread states alone.
Bookkeeping ==
  \/ NothingToAssign \/ NotClocked \/ FinishCore \/ EndTick \/ StartCheck
  \/ CheckDone \/ CheckBlockedThreads \/ Stopped \/ UNCHANGED vars
  \/ \E t \in Threads : MarkInstructionLoadComplete(t)

LEMMA BookkeepingFacts ==
  ASSUME Bookkeeping
  PROVE  UNCHANGED <<CompletedThreads, ThreadsThatChangedState, Thread, IdleHarts,
                     State, ID, WaitingToJoinTID, dep>>
BY Zenon DEF Bookkeeping, NothingToAssign, NotClocked, FinishCore, EndTick, StartCheck,
       CheckDone, CheckBlockedThreads, Stopped, MarkInstructionLoadComplete,
       vars, queueVars, hartVars, threadVars, progVars

LEMMA HandleFacts ==
  ASSUME NEW t, HandleDone(t) \/ HandleBlocked(t) \/ HandleStart(t)
  PROVE  UNCHANGED <<Thread, IdleHarts, ID, WaitingToJoinTID, dep, phase, core,
                     sim>>
BY DEF HandleDone, HandleBlocked, HandleStart, Changed, hartVars, progVars,
       tickVars

LEMMA NextCases ==
  ASSUME [Next]_vars
  PROVE  \/ \E h \in Harts : AssignThread(h)
         \/ \E h \in Harts, t \in Threads : HartStep(h, t)
         \/ \E t \in Threads : HandleDone(t) \/ HandleBlocked(t) \/ HandleStart(t)
         \/ \E t \in Threads : MarkLoadComplete(t)
         \/ Bookkeeping
BY DEF Next, clockTick, Bookkeeping

LEMMA HartInvStep == HartInv /\ [Next]_vars => HartInv'
<1> SUFFICES ASSUME HartInv, [Next]_vars PROVE HartInv'
  OBVIOUS
<1>0. TypeOK' /\ core \in Cores
  BY Zenon, TypeStep DEF HartInv, TypeOK
<1> USE DEF HartInv
<1>1. ASSUME NEW h \in Harts, AssignThread(h) PROVE IdleAgrees' /\ LoadsOnHart'
  <2>1. /\ h \in IdleHarts[core] /\ Thread[core][h] = NoThread
        /\ Head(ReadyThreads) \in Threads
        /\ dep' = dep
    BY Zenon, <1>0, <1>1, TailFacts
       DEF AssignThread, FindIdleHartID, IdleAgrees, TypeOK, progVars
  <2>2. \A c \in Cores, g \in Harts :
          /\ c = core /\ g = h => /\ Thread'[c][g] = Head(ReadyThreads)
                                  /\ g \notin IdleHarts'[c]
          /\ ~(c = core /\ g = h) => /\ Thread'[c][g] = Thread[c][g]
                                     /\ g \in IdleHarts'[c] <=> g \in IdleHarts[c]
    <3>1. \A c \in Cores, g \in Harts :
            Thread'[c][g] = IF c = core /\ g = h THEN Head(ReadyThreads)
                                                 ELSE Thread[c][g]
      <4>1. Thread' = [Thread EXCEPT ![core][h] = Head(ReadyThreads)]
        BY <1>1 DEF AssignThread
      <4>2. Thread \in [Cores -> [Harts -> Threads \cup {NoThread}]]
        BY DEF TypeOK
      <4> QED
        BY ONLY Zenon, <4>1, <4>2
    <3>2. \A c \in Cores :
            IdleHarts'[c] = IF c = core THEN IdleHarts[c] \ {h} ELSE IdleHarts[c]
      BY Zenon, <1>0, <1>1 DEF AssignThread, TypeOK
    <3> QED
      BY Zenon, <3>1, <3>2
  <2>3. IdleAgrees'
    BY <2>1, <2>2, ThreadAssumption DEF IdleAgrees
  <2>4. LoadsOnHart'
    BY <2>1, <2>2, ThreadAssumption DEF LoadsOnHart, OnHarts
  <2> QED
    BY <2>3, <2>4
<1>2. ASSUME NEW h \in Harts, NEW t \in Threads, HartStep(h, t)
      PROVE  IdleAgrees' /\ LoadsOnHart'
  <2>1. t = Thread[core][h]
    BY <1>2, HartStepCases DEF Decode
  <2>2. CASE Stays(t)
    <3>1. t \in OnHarts
      BY Zenon, <1>0, <2>1, OnHart, ThreadAssumption
    <3>2. OnHarts' = OnHarts
      BY <2>2, OnHartsKept DEF Stays
    <3> QED
      BY <2>2, <3>1, <3>2 DEF Stays, IdleAgrees, LoadsOnHart
  <2>3. ASSUME NEW s, Leaves(h, t, s) PROVE IdleAgrees' /\ LoadsOnHart'
    <3>1. \A c \in Cores, g \in Harts :
            /\ c = core /\ g = h => /\ Thread'[c][g] = NoThread
                                    /\ g \in IdleHarts'[c]
            /\ ~(c = core /\ g = h) =>
                 /\ Thread'[c][g] = Thread[c][g]
                 /\ g \in IdleHarts'[c] <=> g \in IdleHarts[c]
      <4>1. /\ Thread' = [Thread EXCEPT ![core][h] = NoThread]
            /\ IdleHarts' = [IdleHarts EXCEPT ![core] = @ \cup {h}]
        BY <2>3 DEF Leaves, PopThreadFromHart
      <4>2. \A c \in Cores, g \in Harts :
              Thread'[c][g] = IF c = core /\ g = h THEN NoThread ELSE Thread[c][g]
        <5>1. Thread \in [Cores -> [Harts -> Threads \cup {NoThread}]]
          BY DEF TypeOK
        <5> QED
          BY ONLY Zenon, <4>1, <5>1
      <4>3. \A c \in Cores :
              IdleHarts'[c] = IF c = core THEN IdleHarts[c] \cup {h} ELSE IdleHarts[c]
        BY Zenon, <1>0, <4>1 DEF TypeOK
      <4> QED
        BY Zenon, <4>2, <4>3
    <3>2. ~dep[t] /\ dep' = dep
      BY <2>3 DEF Leaves
    <3>3. IdleAgrees'
      BY <3>1 DEF IdleAgrees
    <3>4. LoadsOnHart'
      BY <2>1, <3>1, <3>2 DEF LoadsOnHart, OnHarts
    <3> QED
      BY <3>3, <3>4
  <2>4. ASSUME NEW u, NEW i, Creates(u, i) PROVE IdleAgrees' /\ LoadsOnHart'
    BY <2>4, OnHartsKept DEF Creates, IdleAgrees, LoadsOnHart
  <2> QED
    BY <1>2, <2>2, <2>3, <2>4, HartStepCases
<1>3. ASSUME NEW t \in Threads, HandleDone(t) \/ HandleBlocked(t) \/ HandleStart(t)
      PROVE  IdleAgrees' /\ LoadsOnHart'
  BY <1>3, HandleFacts, OnHartsKept DEF IdleAgrees, LoadsOnHart
<1>4. ASSUME NEW t \in Threads, MarkLoadComplete(t)
      PROVE  IdleAgrees' /\ LoadsOnHart'
  <2>1. OnHarts' = OnHarts /\ IdleAgrees'
    BY <1>4, OnHartsKept DEF MarkLoadComplete, IdleAgrees, hartVars
  <2>2. \A x \in Threads : dep'[x] => dep[x]
    BY <1>4 DEF MarkLoadComplete, TypeOK
  <2> QED
    BY <2>1, <2>2 DEF LoadsOnHart
<1>5. ASSUME Bookkeeping PROVE IdleAgrees' /\ LoadsOnHart'
  BY <1>5, BookkeepingFacts, OnHartsKept DEF IdleAgrees, LoadsOnHart
<1>6. IdleAgrees' /\ LoadsOnHart'
  BY <1>1, <1>2, <1>3, <1>4, <1>5, NextCases
<1> QED
  BY <1>0, <1>6 DEF HartInv

LEMMA HartInvInit == Init => HartInv
BY TypeInit DEF Init, HartInv, IdleAgrees, LoadsOnHart

\* IdleHarts is exact, and an answered load always finds the register file of
\* its thread on a hart.
THEOREM HartsCorrect == Spec => [](IdleAgrees /\ LoadsOnHart)
<1>1. HartInv => IdleAgrees /\ LoadsOnHart
  BY DEF HartInv
<1> QED
  BY <1>1, HartInvInit, HartInvStep, PTL DEF Spec

\* A load is outstanding only for a thread that is on a hart: neither a join nor
\* the end of a thread takes it off before its loads are answered.
THEOREM LoadsStayOnHart == Spec => []LoadsOnHart
BY HartsCorrect, PTL

-----------------------------------------------------------------------------
(* Enabled cores.                                                          *)

\* A core with a thread is enabled, at every step of a tick.
BusyIsEnabled == \A c \in Cores : ~HasNoBusyHarts(c) => Enabled[c]

EnabledInv == HartInv /\ EnabledAgrees /\ BusyIsEnabled

LEMMA EnabledInvInit == Init => EnabledInv
BY HartInvInit
   DEF Init, EnabledInv, EnabledAgrees, BusyIsEnabled, HasNoBusyHarts

LEMMA EnabledInvStep == EnabledInv /\ [Next]_vars => EnabledInv'
<1> SUFFICES ASSUME EnabledInv, [Next]_vars
             PROVE  EnabledAgrees' /\ BusyIsEnabled'
  BY HartInvStep DEF EnabledInv
<1> USE DEF EnabledAgrees, BusyIsEnabled, HasNoBusyHarts
<1>0. TypeOK /\ core \in Cores /\ EnabledAgrees /\ BusyIsEnabled
  BY DEF EnabledInv, HartInv, TypeOK
<1>1. ASSUME NEW h \in Harts, AssignThread(h)
      PROVE  EnabledAgrees' /\ BusyIsEnabled'
  <2>1. phase = "assign" /\ phase' = "tick" /\ core' = core
    BY <1>1 DEF AssignThread, AtCore
  <2>2. \A c \in Cores :
          Enabled'[c] = (c = core \/ Enabled[c])
    BY Zenon, <1>0, <1>1 DEF AssignThread, TypeOK
  <2>3. \A c \in Cores :
          IdleHarts'[c] = IF c = core THEN IdleHarts[c] \ {h} ELSE IdleHarts[c]
    BY Zenon, <1>0, <1>1 DEF AssignThread, TypeOK
  <2> QED
    BY Zenon, <1>0, <2>1, <2>2, <2>3
<1>2. ASSUME NEW h \in Harts, NEW t \in Threads, HartStep(h, t)
      PROVE  EnabledAgrees' /\ BusyIsEnabled'
  <2>1. /\ phase = "tick" /\ phase' = "handle" /\ core' = core
        /\ Enabled' = Enabled /\ Enabled[core]
    BY <1>0, <1>2, HartStepCases, DecodeFacts
  <2>2. \A c \in Cores : c # core => IdleHarts'[c] = IdleHarts[c]
    <3>1. CASE Stays(t) BY <3>1 DEF Stays
    <3>2. ASSUME NEW x, Leaves(h, t, x)
          PROVE  \A c \in Cores : c # core => IdleHarts'[c] = IdleHarts[c]
      BY <1>0, <3>2 DEF Leaves, PopThreadFromHart, TypeOK
    <3>3. ASSUME NEW u, NEW i, Creates(u, i) PROVE IdleHarts' = IdleHarts
      BY <3>3 DEF Creates
    <3> QED
      BY <1>0, <1>2, <3>1, <3>2, <3>3, HartStepCases
  <2> QED
    BY <1>0, <2>1, <2>2
<1>3. ASSUME DisableIfNoWork, IdleHarts' = IdleHarts,
             phase = "handle", phase' = "handle" => core' = core
      PROVE  EnabledAgrees' /\ BusyIsEnabled'
  <2>1. \A c \in Cores :
          Enabled'[c] = IF c = core THEN Enabled[c] /\ ~HasNoBusyHarts(c)
                                    ELSE Enabled[c]
    BY <1>0, <1>3 DEF DisableIfNoWork, TypeOK
  <2> QED
    BY Zenon, <1>0, <1>3, <2>1
<1>4. ASSUME NEW t \in Threads, HandleDone(t) \/ HandleBlocked(t) \/ HandleStart(t)
      PROVE  EnabledAgrees' /\ BusyIsEnabled'
  <2>1. DisableIfNoWork /\ phase = "handle"
    BY <1>4 DEF HandleDone, HandleBlocked, HandleStart, Changed, AtCore
  <2> QED
    BY <1>3, <1>4, <2>1, HandleFacts
<1>5. CASE FinishCore
  <2>1. /\ DisableIfNoWork /\ phase = "handle" /\ phase' # "handle"
        /\ IdleHarts' = IdleHarts
    BY <1>5 DEF FinishCore, AtCore, hartVars
  <2> QED
    BY <1>3, <2>1
<1>6. ASSUME UNCHANGED <<Enabled, IdleHarts>>,
             phase = "handle" => phase' = phase /\ core' = core
      PROVE  EnabledAgrees' /\ BusyIsEnabled'
  BY <1>0, <1>6
<1>7. ASSUME Bookkeeping, ~FinishCore
      PROVE  /\ UNCHANGED <<Enabled, IdleHarts>>
             /\ phase = "handle" => phase' = phase /\ core' = core
  BY <1>7
     DEF Bookkeeping, NothingToAssign, NotClocked, EndTick, StartCheck,
         CheckDone, CheckBlockedThreads, Stopped, MarkInstructionLoadComplete,
         BetweenTicks, AtCore, vars, hartVars, tickVars
<1>8. ASSUME NEW t \in Threads, MarkLoadComplete(t)
      PROVE  /\ UNCHANGED <<Enabled, IdleHarts>>
             /\ phase = "handle" => phase' = phase /\ core' = core
  BY <1>8 DEF MarkLoadComplete, hartVars, tickVars
<1> QED
  BY <1>1, <1>2, <1>4, <1>5, <1>6, <1>7, <1>8, NextCases

\* RevCPU clocks a core exactly when it has a thread to run, so ClockTick always
\* finds a hart to decode and never touches a stale register file pointer.
THEOREM EnabledCorrect == Spec => []EnabledAgrees
<1>1. EnabledInv => EnabledAgrees
  BY DEF EnabledInv
<1> QED
  BY <1>1, EnabledInvInit, EnabledInvStep, PTL DEF Spec

-----------------------------------------------------------------------------
(* Every thread is in one place.  This needs thread IDs that do not        *)
(* repeat: CompletedThreads is keyed by ID and drops a second thread.      *)

PlaceInv == EnabledInv /\ OnePlace /\ ThreadIDsDiffer

\* The third part of HeldOnce: a core hands over at most one thread per tick.
OneChange ==
  \A c \in Cores : ThreadsThatChangedState[c] # <<>> =>
    c = core /\ phase = "handle" /\ Len(ThreadsThatChangedState[c]) = 1

OneThreadPerHart ==
  \A c, d \in Cores, h, g \in Harts :
    Thread[c][h] = Thread[d][g] /\ Thread[c][h] # NoThread => c = d /\ h = g

\* A thread popped from its hart is on no other one.
LEMMA OnHartsLeft ==
  ASSUME OneThreadPerHart, core \in Cores, NEW h \in Harts, NEW t \in Threads,
         t = Thread[core][h],
         \A c \in Cores, g \in Harts :
           Thread'[c][g] = IF c = core /\ g = h THEN NoThread ELSE Thread[c][g]
  PROVE  OnHarts' = OnHarts \ {t}
<1>1. \A c \in Cores, g \in Harts :
        Thread'[c][g] # NoThread =>
          Thread'[c][g] = Thread[c][g] /\ Thread[c][g] # t
  BY ThreadAssumption DEF OneThreadPerHart
<1>2. \A c \in Cores, g \in Harts :
        Thread[c][g] # t => Thread'[c][g] = Thread[c][g]
  OBVIOUS
<1>3. OnHarts' \subseteq OnHarts \ {t}
  BY <1>1 DEF OnHarts
<1>4. OnHarts \ {t} \subseteq OnHarts'
  BY <1>2 DEF OnHarts
<1> QED
  BY <1>3, <1>4

LEMMA HeldOnceParts ==
  /\ HeldOnce <=> /\ IsInjective(ReadyThreads) /\ IsInjective(BlockedThreads)
                  /\ OneChange /\ OneThreadPerHart
  /\ HeldOnce' <=> /\ IsInjective(ReadyThreads') /\ IsInjective(BlockedThreads')
                   /\ OneChange' /\ OneThreadPerHart'
BY DEF HeldOnce, OneChange, OneThreadPerHart, IsInjective

\* Outside the handling of changes no thread is on its way to RevCPU.
LEMMA NothingInFlight ==
  ASSUME TypeOK, OneChange, phase # "handle"
  PROVE  InFlight = {} /\ \A c \in Cores : ThreadsThatChangedState[c] = <<>>
<1>1. \A c \in Cores : ThreadsThatChangedState[c] = <<>>
  BY DEF OneChange
<1>2. Range(<<>>) = {}
  BY DEF Range
<1> QED
  BY <1>1, <1>2 DEF InFlight

\* AddThreadsThatChangedState during a tick: one thread is on its way.
LEMMA OneInFlight ==
  ASSUME TypeOK, OneChange, phase = "tick", phase' = "handle", core' = core,
         NEW u \in Threads,
         ThreadsThatChangedState' =
           [ThreadsThatChangedState EXCEPT ![core] = Append(@, u)]
  PROVE  InFlight' = {u} /\ OneChange'
<1>1. \A c \in Cores : ThreadsThatChangedState[c] = <<>>
  BY NothingInFlight
<1>2. \A c \in Cores :
        ThreadsThatChangedState'[c] = IF c = core THEN <<u>> ELSE <<>>
  <2>1. Append(<<>>, u) = <<u>>
    OBVIOUS
  <2>2. \A c \in Cores :
          ThreadsThatChangedState'[c] =
            IF c = core THEN Append(ThreadsThatChangedState[c], u)
                        ELSE ThreadsThatChangedState[c]
    BY DEF TypeOK
  <2> QED
    BY Zenon, <1>1, <2>1, <2>2
<1>3. Range(<<>>) = {} /\ Range(<<u>>) = {u}
  BY DEF Range
<1>4. InFlight' = {u}
  <2>1. core \in Cores
    BY DEF TypeOK
  <2> QED
    BY <1>2, <1>3, <2>1 DEF InFlight
<1> QED
  BY <1>2, <1>4 DEF OneChange

\* HandleThreadStateChangesForProc takes the one changed thread.
LEMMA ChangeTaken ==
  ASSUME TypeOK, OneChange, NEW t \in Threads, NEW state, Changed(t, state)
  PROVE  /\ InFlight = {t} /\ InFlight' = {} /\ OneChange'
         /\ State[t] = state
<1>1. /\ core \in Cores /\ core' = core
      /\ ThreadsThatChangedState[core] # <<>>
      /\ t = Head(ThreadsThatChangedState[core])
  BY DEF TypeOK, Changed, tickVars
<1>2. ThreadsThatChangedState[core] = <<t>>
  <2>1. /\ ThreadsThatChangedState[core] \in Seq(Threads)
        /\ Len(ThreadsThatChangedState[core]) = 1
    BY Zenon, <1>1 DEF OneChange, TypeOK
  <2> QED
    BY <1>1, <2>1
<1>3. \A c \in Cores : c # core => ThreadsThatChangedState[c] = <<>>
  BY DEF OneChange
<1>4. \A c \in Cores : ThreadsThatChangedState'[c] = <<>>
  <2>1. Tail(<<t>>) = <<>>
    OBVIOUS
  <2> QED
    BY <1>1, <1>2, <1>3, <2>1 DEF Changed, TypeOK
<1>5. Range(<<>>) = {} /\ Range(<<t>>) = {t}
  BY DEF Range
<1>6. InFlight = {t}
  BY Zenon, <1>1, <1>2, <1>3, <1>5 DEF InFlight
<1>7. InFlight' = {}
  BY <1>4, <1>5 DEF InFlight
<1> QED
  BY <1>4, <1>6, <1>7 DEF OneChange, Changed

LEMMA PlaceInvInit == Init => PlaceInv
<1> SUFFICES ASSUME Init PROVE OnePlace /\ ThreadIDsDiffer
  BY EnabledInvInit DEF PlaceInv
<1>1. /\ Range(<<>>) = {} /\ Range(<<MainThread>>) = {MainThread}
      /\ IsInjective(<<>>) /\ IsInjective(<<MainThread>>)
  BY DEF Range, IsInjective
<1>2. /\ Ready = {MainThread} /\ Blocked = {} /\ CompletedThreads = {}
      /\ OnHarts = {} /\ InFlight = {}
  BY <1>1 DEF Init, Ready, Blocked, OnHarts, InFlight
<1>3. HeldOnce
  BY <1>1 DEF Init, HeldOnce
<1>4. PlaceFitsState /\ NotTwice /\ NotLost
  BY <1>2 DEF Init, PlaceFitsState, NotTwice, NotLost
<1>5. ThreadIDsDiffer
  BY DEF Init, ThreadIDsDiffer, Created
<1> QED
  BY <1>3, <1>4, <1>5 DEF OnePlace

LEMMA PlaceAssign ==
  ASSUME PlaceInv, NEW h \in Harts, AssignThread(h)
  PROVE  OnePlace' /\ ThreadIDsDiffer'
<1> DEFINE t == Head(ReadyThreads)
<1>0. /\ TypeOK /\ core \in Cores /\ phase = "assign" /\ phase' = "tick"
      /\ core' = core
      /\ Thread[core][h] = NoThread
  BY ZenonT(40) DEF PlaceInv, EnabledInv, HartInv, IdleAgrees, TypeOK, AssignThread,
         FindIdleHartID, AtCore
<1>1. /\ t \in Threads /\ t \in Ready
      /\ IsInjective(ReadyThreads') /\ IsInjective(BlockedThreads')
      /\ Ready = Ready' \cup {t} /\ t \notin Ready'
      /\ Blocked' = Blocked
  BY <1>0, TailFacts
     DEF PlaceInv, OnePlace, HeldOnce, Ready, Blocked, AssignThread, TypeOK
<1>2. \A c \in Cores, g \in Harts :
        Thread'[c][g] = IF c = core /\ g = h THEN t ELSE Thread[c][g]
  BY ZenonT(40), <1>0 DEF AssignThread, TypeOK
<1>3. \A x \in Threads : State'[x] = IF x = t THEN "RUNNING" ELSE State[x]
  BY <1>0, <1>1 DEF AssignThread, TypeOK
<1> HIDE DEF t
<1>4. OnHarts' = OnHarts \cup {t}
  BY <1>0, <1>1, <1>2, ThreadAssumption DEF OnHarts
<1>5. OneChange /\ OneThreadPerHart
  BY HeldOnceParts DEF PlaceInv, OnePlace
<1>6. InFlight = {} /\ InFlight' = {} /\ OneChange'
  <2>1. InFlight = {} /\ \A c \in Cores : ThreadsThatChangedState[c] = <<>>
    BY <1>0, <1>5, NothingInFlight
  <2> QED
    BY Zenon, <2>1 DEF AssignThread, InFlight, OneChange
<1>7. t \notin OnHarts
  BY <1>1 DEF PlaceInv, OnePlace, PlaceFitsState
<1>8. OneThreadPerHart'
  <2>1. \A c \in Cores, g \in Harts : Thread[c][g] # t
    BY <1>1, <1>7, ThreadAssumption DEF OnHarts
  <2> QED
    BY <1>2, <1>5, <2>1 DEF OneThreadPerHart
<1>9. HeldOnce'
  BY <1>1, <1>6, <1>8, HeldOnceParts
<1>10. PlaceFitsState' /\ NotTwice' /\ NotLost'
  BY <1>1, <1>3, <1>4, <1>6
     DEF PlaceInv, OnePlace, PlaceFitsState, NotTwice, NotLost, AssignThread
<1>11. ThreadIDsDiffer'
  BY <1>1, <1>3 DEF PlaceInv, OnePlace, PlaceFitsState, ThreadIDsDiffer, Created,
                    AssignThread
<1> QED
  BY <1>9, <1>10, <1>11 DEF OnePlace

\* Nothing moves: only the position in the tick may change.
LEMMA PlaceUnmoved ==
  ASSUME PlaceInv, OneChange',
         UNCHANGED <<ReadyThreads, BlockedThreads, CompletedThreads,
                     ThreadsThatChangedState, Thread, State, ID>>
  PROVE  OnePlace' /\ ThreadIDsDiffer'
<1>1. /\ Ready' = Ready /\ Blocked' = Blocked /\ InFlight' = InFlight
      /\ OnHarts' = OnHarts
  BY OnHartsKept DEF Ready, Blocked, InFlight
<1>2. HeldOnce'
  BY HeldOnceParts DEF PlaceInv, OnePlace, OneThreadPerHart
<1>3. PlaceFitsState' /\ NotTwice' /\ NotLost'
  BY <1>1 DEF PlaceInv, OnePlace, PlaceFitsState, NotTwice, NotLost
<1> QED
  BY <1>2, <1>3 DEF PlaceInv, OnePlace, ThreadIDsDiffer, Created

LEMMA PlaceHartStep ==
  ASSUME PlaceInv, ~RandomTIDs, NEW h \in Harts, NEW t \in Threads, HartStep(h, t)
  PROVE  OnePlace' /\ ThreadIDsDiffer'
<1>0. /\ TypeOK /\ core \in Cores /\ core' = core
      /\ phase = "tick" /\ phase' = "handle"
      /\ t = Thread[core][h]
      /\ UNCHANGED <<ReadyThreads, BlockedThreads, CompletedThreads>>
      /\ Ready' = Ready /\ Blocked' = Blocked
  <2>1. TypeOK
    BY DEF PlaceInv, EnabledInv, HartInv
  <2>2. Decode(h, t)
    BY <2>1, HartStepCases
  <2> QED
    BY Zenon, <2>1, <2>2, DecodeFacts DEF TypeOK, Ready, Blocked
<1>1. OneChange /\ OneThreadPerHart
  BY HeldOnceParts DEF PlaceInv, OnePlace
<1>2. InFlight = {} /\ \A c \in Cores : ThreadsThatChangedState[c] = <<>>
  BY <1>0, <1>1, NothingInFlight
<1>3. t \in OnHarts /\ State[t] = "RUNNING"
  <2>1. t \in OnHarts
    BY ZenonT(40), <1>0, OnHart, ThreadAssumption
  <2> QED
    BY <2>1 DEF PlaceInv, OnePlace, PlaceFitsState
<1>4. CASE Stays(t)
  <2>1. OneChange'
    BY <1>2, <1>4 DEF OneChange, Stays
  <2> QED
    BY <1>0, <1>4, <2>1, PlaceUnmoved DEF Stays
<1>5. ASSUME NEW s \in {"DONE", "BLOCKED"}, Leaves(h, t, s)
      PROVE  OnePlace' /\ ThreadIDsDiffer'
  <2>1. InFlight' = {t} /\ OneChange'
    BY Zenon, <1>0, <1>1, <1>5, OneInFlight DEF Leaves, PopThreadFromHart
  <2>2. \A c \in Cores, g \in Harts :
          Thread'[c][g] = IF c = core /\ g = h THEN NoThread ELSE Thread[c][g]
    BY Zenon, <1>0, <1>5 DEF Leaves, PopThreadFromHart, TypeOK
  <2>3. OnHarts' = OnHarts \ {t}
    BY <1>0, <1>1, <2>2, OnHartsLeft
  <2>4. \A x \in Threads : State'[x] = IF x = t THEN s ELSE State[x]
    BY <1>0, <1>5 DEF Leaves, PopThreadFromHart, TypeOK
  <2>5. OneThreadPerHart'
    BY <1>1, <2>2 DEF OneThreadPerHart
  <2>6. HeldOnce'
    BY ZenonT(40), <1>0, <2>1, <2>5, HeldOnceParts DEF PlaceInv, OnePlace
  <2>7. PlaceFitsState' /\ NotTwice' /\ NotLost'
    BY <1>0, <1>2, <1>3, <2>1, <2>3, <2>4
       DEF PlaceInv, OnePlace, PlaceFitsState, NotTwice, NotLost
  <2>8. ThreadIDsDiffer'
    BY <1>3, <1>5, <2>4 DEF PlaceInv, ThreadIDsDiffer, Created, Leaves
  <2> QED
    BY <2>6, <2>7, <2>8 DEF OnePlace
<1>6. ASSUME NEW u \in Threads, NEW i \in TIDs, Creates(u, i)
      PROVE  OnePlace' /\ ThreadIDsDiffer'
  <2>1. InFlight' = {u} /\ OneChange'
    BY ZenonT(40), <1>0, <1>1, <1>6, OneInFlight DEF Creates
  <2>2. OnHarts' = OnHarts /\ OneThreadPerHart'
    <3>1. Thread' = Thread
      BY <1>6 DEF Creates
    <3> QED
      BY <1>1, <3>1, OnHartsKept DEF OneThreadPerHart
  <2>3. /\ State[u] = "NONE"
        /\ \A x \in Threads : State'[x] = IF x = u THEN "START" ELSE State[x]
    BY <1>0, <1>6 DEF Creates, TypeOK
  <2>4. HeldOnce'
    BY <1>0, <2>1, <2>2, HeldOnceParts DEF PlaceInv, OnePlace
  <2>5. PlaceFitsState' /\ NotTwice' /\ NotLost'
    BY ZenonT(40), <1>0, <1>2, <2>1, <2>2, <2>3
       DEF PlaceInv, OnePlace, PlaceFitsState, NotTwice, NotLost
  <2>6. ThreadIDsDiffer'
    <3>1. \A x \in Threads : State[x] # "NONE" => ID[x] # i
      BY <1>6 DEF Creates, GetNewThreadID
    <3>2. \A x \in Threads : ID'[x] = IF x = u THEN i ELSE ID[x]
      BY <1>0, <1>6 DEF Creates, TypeOK
    <3> QED
      BY <2>3, <3>1, <3>2 DEF PlaceInv, ThreadIDsDiffer, Created
  <2> QED
    BY <2>4, <2>5, <2>6 DEF OnePlace
<1> QED
  BY <1>0, <1>4, <1>5, <1>6, HartStepCases

LEMMA PlaceHandle ==
  ASSUME PlaceInv, NEW t \in Threads,
         HandleDone(t) \/ HandleBlocked(t) \/ HandleStart(t)
  PROVE  OnePlace' /\ ThreadIDsDiffer'
<1>0. /\ TypeOK /\ OneChange /\ OneThreadPerHart
      /\ IsInjective(ReadyThreads) /\ IsInjective(BlockedThreads)
  BY HeldOnceParts DEF PlaceInv, EnabledInv, HartInv, OnePlace
<1>1. Changed(t, State[t])
  BY DEF HandleDone, HandleBlocked, HandleStart, Changed
<1>2. InFlight = {t} /\ InFlight' = {} /\ OneChange'
  BY <1>0, <1>1, ChangeTaken
<1>3. OnHarts' = OnHarts /\ OneThreadPerHart' /\ ID' = ID
  <2>1. Thread' = Thread /\ ID' = ID
    BY HandleFacts
  <2> QED
    BY ZenonT(40), <1>0, <2>1, OnHartsKept DEF OneThreadPerHart
<1>4. /\ t \notin Ready /\ t \notin Blocked /\ t \notin CompletedThreads
      /\ t \notin OnHarts
  BY <1>2 DEF PlaceInv, OnePlace, PlaceFitsState, NotTwice
<1>5. CASE HandleDone(t)
  <2>1. /\ Ready' = Ready /\ Blocked' = Blocked /\ State' = State
        /\ State[t] = "DONE"
    BY Zenon, <1>5 DEF HandleDone, Changed, Ready, Blocked
  <2>2. CompletedThreads' = CompletedThreads \cup {t}
    <3>1. \A u \in CompletedThreads : u \in Created /\ u # t
      BY <1>0, <1>4
         DEF PlaceInv, OnePlace, PlaceFitsState, Created, TypeOK
    <3>2. ~ \E u \in CompletedThreads : ID[u] = ID[t]
      BY <2>1, <3>1 DEF PlaceInv, ThreadIDsDiffer, Created
    <3> QED
      BY <1>5, <3>2 DEF HandleDone
  <2>3. HeldOnce'
    BY <1>0, <1>2, <1>3, <1>5, HeldOnceParts DEF HandleDone
  <2>4. PlaceFitsState' /\ NotTwice' /\ NotLost'
    BY ZenonT(40), <1>2, <1>3, <1>4, <2>1, <2>2
       DEF PlaceInv, OnePlace, PlaceFitsState, NotTwice, NotLost
  <2>5. ThreadIDsDiffer'
    BY ONLY Zenon, PlaceInv, <1>3, <2>1 DEF PlaceInv, ThreadIDsDiffer, Created
  <2> QED
    BY ONLY Zenon, <2>3, <2>4, <2>5 DEF OnePlace
<1>6. CASE HandleBlocked(t)
  <2>1. /\ Ready' = Ready /\ State' = State /\ State[t] = "BLOCKED"
        /\ CompletedThreads' = CompletedThreads
    BY <1>6 DEF HandleBlocked, Changed, Ready
  <2>2. Blocked' = Blocked \cup {t} /\ IsInjective(BlockedThreads')
    BY <1>0, <1>4, <1>6, AppendFacts DEF HandleBlocked, Blocked, TypeOK
  <2>3. HeldOnce'
    BY <1>0, <1>2, <1>3, <1>6, <2>2, HeldOnceParts DEF HandleBlocked
  <2>4. PlaceFitsState' /\ NotTwice' /\ NotLost'
    BY Zenon, <1>2, <1>3, <1>4, <2>1, <2>2
       DEF PlaceInv, OnePlace, PlaceFitsState, NotTwice, NotLost
  <2>5. ThreadIDsDiffer'
    BY ONLY Zenon, PlaceInv, <1>3, <2>1 DEF PlaceInv, ThreadIDsDiffer, Created
  <2> QED
    BY ONLY Zenon, <2>3, <2>4, <2>5 DEF OnePlace
<1>7. CASE HandleStart(t)
  <2>1. /\ Blocked' = Blocked /\ CompletedThreads' = CompletedThreads
        /\ State[t] = "START"
        /\ \A x \in Threads : State'[x] = IF x = t THEN "READY" ELSE State[x]
    BY ZenonT(40), <1>0, <1>7 DEF HandleStart, Changed, Blocked, TypeOK
  <2>2. Ready' = Ready \cup {t} /\ IsInjective(ReadyThreads')
    BY <1>0, <1>4, <1>7, AppendFacts DEF HandleStart, Ready, TypeOK
  <2>3. HeldOnce'
    BY <1>0, <1>2, <1>3, <1>7, <2>2, HeldOnceParts DEF HandleStart
  <2>4. PlaceFitsState' /\ NotTwice' /\ NotLost'
    BY ZenonT(40), <1>2, <1>3, <1>4, <2>1, <2>2
       DEF PlaceInv, OnePlace, PlaceFitsState, NotTwice, NotLost
  <2>5. ThreadIDsDiffer'
    BY Zenon, <1>3, <2>1 DEF PlaceInv, ThreadIDsDiffer, Created
  <2> QED
    BY Zenon, <2>3, <2>4, <2>5 DEF OnePlace
<1> QED
  BY <1>5, <1>6, <1>7

\* CheckBlockedThreads moves the thread at the iterator, and only that one.
LEMMA CheckFacts ==
  ASSUME PlaceInv, CheckBlockedThreads
  PROVE  /\ BlockedThreads[scan] \in Blocked
         /\ BlockedThreads[scan] \in Threads
         /\ \/ UNCHANGED <<ReadyThreads, BlockedThreads>>
            \/ /\ ThreadCanProceed(BlockedThreads[scan])
               /\ Ready' = Ready \cup {BlockedThreads[scan]}
               /\ Blocked' = Blocked \ {BlockedThreads[scan]}
               /\ IsInjective(ReadyThreads') /\ IsInjective(BlockedThreads')
<1> DEFINE t == BlockedThreads[scan]
<1>0. /\ TypeOK /\ IsInjective(ReadyThreads) /\ IsInjective(BlockedThreads)
  BY HeldOnceParts DEF PlaceInv, EnabledInv, HartInv, OnePlace
<1>1. /\ scan \in 1 .. Len(BlockedThreads)
      /\ BlockedThreads \in Seq(Threads) /\ ReadyThreads \in Seq(Threads)
  BY <1>0 DEF CheckBlockedThreads, TypeOK
<1>2. t \in Threads /\ t \in Blocked
  BY <1>1 DEF Blocked, Range
<1>3. t \notin Ready
  BY <1>2 DEF PlaceInv, OnePlace, NotTwice
<1>4. /\ Range(BlockedThreads) = Range(Erase(BlockedThreads, scan)) \cup {t}
      /\ IsInjective(Erase(BlockedThreads, scan))
      /\ t \notin Range(Erase(BlockedThreads, scan))
  BY <1>0, <1>1, EraseFacts
<1>5. /\ Range(Append(ReadyThreads, t)) = Range(ReadyThreads) \cup {t}
      /\ IsInjective(Append(ReadyThreads, t))
  <2> HIDE DEF t
  <2> QED
    BY <1>0, <1>1, <1>2, <1>3, AppendFacts DEF Ready
<1> QED
  BY Zenon, <1>2, <1>4, <1>5 DEF CheckBlockedThreads, Ready, Blocked

LEMMA PlaceCheck ==
  ASSUME PlaceInv, CheckBlockedThreads
  PROVE  OnePlace' /\ ThreadIDsDiffer'
<1> DEFINE t == BlockedThreads[scan]
<1>0. UNCHANGED <<CompletedThreads, ThreadsThatChangedState, Thread, State, ID,
                  phase, core>>
  BY DEF CheckBlockedThreads, hartVars, threadVars
<1>1. OneChange' /\ OneThreadPerHart' /\ InFlight' = InFlight /\ OnHarts' = OnHarts
  <2>1. OneChange /\ OneThreadPerHart
    BY HeldOnceParts DEF PlaceInv, OnePlace
  <2>2. OneChange' /\ OneThreadPerHart'
    BY <1>0, <2>1 DEF OneChange, OneThreadPerHart
  <2>3. InFlight' = InFlight
    BY <1>0 DEF InFlight
  <2> QED
    BY <1>0, <2>2, <2>3, OnHartsKept
<1>2. CASE UNCHANGED <<ReadyThreads, BlockedThreads>>
  BY <1>0, <1>1, <1>2, PlaceUnmoved
<1>3. CASE ~UNCHANGED <<ReadyThreads, BlockedThreads>>
  <2>1. /\ t \in Threads /\ t \in Blocked
        /\ Ready' = Ready \cup {t} /\ Blocked' = Blocked \ {t}
        /\ IsInjective(ReadyThreads') /\ IsInjective(BlockedThreads')
    BY <1>3, CheckFacts
  <2> HIDE DEF t
  <2>2. HeldOnce'
    BY ZenonT(40), <1>1, <2>1, HeldOnceParts
  <2>3. PlaceFitsState' /\ NotTwice' /\ NotLost'
    BY <1>0, <1>1, <2>1
       DEF PlaceInv, OnePlace, PlaceFitsState, NotTwice, NotLost
  <2> QED
    BY <1>0, <2>2, <2>3 DEF PlaceInv, OnePlace, ThreadIDsDiffer, Created
<1> QED
  BY <1>2, <1>3

LEMMA PlaceInvStep == ~RandomTIDs /\ PlaceInv /\ [Next]_vars => PlaceInv'
<1> SUFFICES ASSUME ~RandomTIDs, PlaceInv, [Next]_vars
             PROVE  OnePlace' /\ ThreadIDsDiffer'
  BY EnabledInvStep DEF PlaceInv
<1>0. TypeOK /\ OneChange
  BY HeldOnceParts DEF PlaceInv, EnabledInv, HartInv, OnePlace
<1>1. ASSUME Bookkeeping, ~CheckBlockedThreads
      PROVE  OnePlace' /\ ThreadIDsDiffer'
  <2>1. UNCHANGED <<ReadyThreads, BlockedThreads, CompletedThreads,
                    ThreadsThatChangedState, Thread, State, ID>>
    BY ZenonT(40), <1>1
       DEF Bookkeeping, NothingToAssign, NotClocked, FinishCore, EndTick,
           StartCheck, CheckDone, Stopped, MarkInstructionLoadComplete, vars,
           queueVars, hartVars, threadVars
  <2>2. \/ phase' = phase /\ core' = core
        \/ phase # "handle"
        \/ FinishCore
    BY <1>1
       DEF Bookkeeping, NothingToAssign, NotClocked, EndTick, StartCheck,
           CheckDone, Stopped, MarkInstructionLoadComplete, AtCore, vars,
           tickVars
  <2>3. OneChange'
    <3>1. CASE phase' = phase /\ core' = core
      BY <1>0, <2>1, <3>1 DEF OneChange
    <3>2. CASE phase # "handle"
      BY <1>0, <2>1, <3>2, NothingInFlight DEF OneChange
    <3>3. CASE FinishCore
      <4>1. \A c \in Cores : ThreadsThatChangedState[c] = <<>>
        BY <1>0, <3>3 DEF FinishCore, OneChange
      <4> QED
        BY <2>1, <4>1 DEF OneChange
    <3> QED
      BY <2>2, <3>1, <3>2, <3>3
  <2> QED
    BY <2>1, <2>3, PlaceUnmoved
<1>2. ASSUME NEW t \in Threads, MarkLoadComplete(t)
      PROVE  OnePlace' /\ ThreadIDsDiffer'
  <2>1. UNCHANGED <<ReadyThreads, BlockedThreads, CompletedThreads,
                    ThreadsThatChangedState, Thread, State, ID, phase, core>>
    BY <1>2 DEF MarkLoadComplete, queueVars, hartVars, threadVars, tickVars
  <2>2. OneChange'
    BY <1>0, <2>1 DEF OneChange
  <2> QED
    BY <2>1, <2>2, PlaceUnmoved
<1> QED
  BY <1>1, <1>2, PlaceAssign, PlaceHartStep, PlaceHandle, PlaceCheck, NextCases

\* With thread IDs that do not repeat, no thread is ever lost, duplicated or in
\* a place that does not fit its state.
THEOREM PlacesCorrect ==
  ASSUME ~RandomTIDs
  PROVE  Spec => []OnePlace
<1>1. PlaceInv /\ [Next]_vars => PlaceInv'
  BY PlaceInvStep
<1>2. PlaceInv => OnePlace
  BY DEF PlaceInv
<1> QED
  BY <1>1, <1>2, PlaceInvInit, PTL DEF Spec

-----------------------------------------------------------------------------
(* Joins and the end of the simulation.                                    *)

\* A thread that has not run yet waits for nobody.
FreshWaitsForNone ==
  \A t \in Threads : State[t] \in {"NONE", "START", "READY"} =>
    WaitingToJoinTID[t] = NoTID

\* The thread joined by one that may run again is in the map of completed ones.
JoinedIsCompleted ==
  \A t \in Threads : t \in Ready \/ t \in OnHarts =>
    \/ WaitingToJoinTID[t] = NoTID
    \/ \E u \in CompletedThreads : ID[u] = WaitingToJoinTID[t]

JoinInv ==
  PlaceInv /\ FreshWaitsForNone /\ JoinedIsCompleted /\ NoEarlyEnd

LEMMA JoinInvInit == Init => JoinInv
<1> SUFFICES ASSUME Init
             PROVE  FreshWaitsForNone /\ JoinedIsCompleted /\ NoEarlyEnd
  BY Zenon, PlaceInvInit DEF JoinInv
<1> QED
  BY DEF Init, FreshWaitsForNone, JoinedIsCompleted, NoEarlyEnd

LEMMA JoinHartStep ==
  ASSUME JoinInv, NEW h \in Harts, NEW t \in Threads, HartStep(h, t)
  PROVE  FreshWaitsForNone' /\ JoinedIsCompleted'
<1>0. /\ TypeOK /\ core \in Cores /\ t = Thread[core][h]
      /\ CompletedThreads' = CompletedThreads
      /\ Ready' = Ready
      /\ t \in OnHarts /\ State[t] = "RUNNING"
      /\ OneThreadPerHart
      /\ FreshWaitsForNone /\ JoinedIsCompleted
  <2>1. TypeOK /\ OneThreadPerHart
    BY HeldOnceParts DEF JoinInv, PlaceInv, EnabledInv, HartInv, OnePlace
  <2>2. Decode(h, t)
    BY Zenon, <2>1, HartStepCases
  <2>3. t = Thread[core][h] /\ core \in Cores
    BY Zenon, <2>1, <2>2, DecodeFacts DEF TypeOK
  <2>4. t \in OnHarts
    BY Zenon, <2>3, OnHart, ThreadAssumption
  <2> QED
    BY <2>1, <2>2, <2>3, <2>4, DecodeFacts
       DEF Ready, JoinInv, PlaceInv, OnePlace, PlaceFitsState
<1>1. CASE Stays(t)
  <2>1. OnHarts' = OnHarts
    BY Zenon, <1>1, OnHartsKept DEF Stays
  <2> QED
    BY ZenonT(40), <1>0, <1>1, <2>1 DEF Stays, FreshWaitsForNone, JoinedIsCompleted
<1>2. ASSUME NEW s \in {"DONE", "BLOCKED"}, Leaves(h, t, s)
      PROVE  FreshWaitsForNone' /\ JoinedIsCompleted'
  <2>1. \A c \in Cores, g \in Harts :
          Thread'[c][g] = IF c = core /\ g = h THEN NoThread ELSE Thread[c][g]
    BY ZenonT(40), <1>0, <1>2 DEF Leaves, PopThreadFromHart, TypeOK
  <2>2. OnHarts' = OnHarts \ {t}
    BY Zenon, <1>0, <2>1, OnHartsLeft
  <2>3. t \notin Ready
    BY <1>0 DEF JoinInv, PlaceInv, OnePlace, PlaceFitsState
  <2>4. \A x \in Threads : x # t => /\ WaitingToJoinTID'[x] = WaitingToJoinTID[x]
                                    /\ State'[x] = State[x]
    BY ZenonT(40), <1>0, <1>2 DEF Leaves, PopThreadFromHart, TypeOK
  <2>5. State'[t] = s /\ ID' = ID
    BY <1>0, <1>2 DEF Leaves, PopThreadFromHart, TypeOK
  <2>6. FreshWaitsForNone'
    BY ZenonT(40), <1>0, <2>4, <2>5 DEF FreshWaitsForNone
  <2>7. JoinedIsCompleted'
    BY <1>0, <2>2, <2>3, <2>4, <2>5 DEF JoinedIsCompleted
  <2> QED
    BY <2>6, <2>7
<1>3. ASSUME NEW u \in Threads, NEW i \in TIDs, Creates(u, i)
      PROVE  FreshWaitsForNone' /\ JoinedIsCompleted'
  <2>1. OnHarts' = OnHarts /\ WaitingToJoinTID' = WaitingToJoinTID
    BY <1>3, OnHartsKept DEF Creates
  <2>2. /\ State[u] = "NONE"
        /\ \A x \in Threads : x # u => State'[x] = State[x] /\ ID'[x] = ID[x]
    BY <1>0, <1>3 DEF Creates, TypeOK
  <2>3. u \notin CompletedThreads
    BY <2>2 DEF JoinInv, PlaceInv, OnePlace, PlaceFitsState
  <2>4. \A v \in CompletedThreads : ID'[v] = ID[v]
    BY ZenonT(40), <1>0, <2>2, <2>3 DEF TypeOK
  <2>5. FreshWaitsForNone'
    BY <1>0, <2>1, <2>2 DEF FreshWaitsForNone
  <2>6. JoinedIsCompleted'
    BY <1>0, <2>1, <2>4 DEF JoinedIsCompleted
  <2> QED
    BY <2>5, <2>6
<1> QED
  BY ZenonT(40), <1>0, <1>1, <1>2, <1>3, HartStepCases

LEMMA JoinSched ==
  ASSUME JoinInv, [Next]_vars, ~ \E h \in Harts, t \in Threads : HartStep(h, t)
  PROVE  FreshWaitsForNone' /\ JoinedIsCompleted'
<1>0. TypeOK /\ FreshWaitsForNone /\ JoinedIsCompleted
  BY Zenon DEF JoinInv, PlaceInv, EnabledInv, HartInv
<1>1. ASSUME NEW h \in Harts, AssignThread(h)
      PROVE  FreshWaitsForNone' /\ JoinedIsCompleted'
  <2> DEFINE t == Head(ReadyThreads)
  <2>1. t \in Threads /\ Ready = Ready' \cup {t}
    BY ZenonT(40), <1>0, <1>1, TailFacts DEF AssignThread, Ready, TypeOK
  <2>2. OnHarts' \subseteq OnHarts \cup {t}
    <3>1. \A c \in Cores, g \in Harts : Thread'[c][g] \in {t, Thread[c][g]}
      BY ZenonT(40), <1>0, <1>1 DEF AssignThread, TypeOK
    <3> QED
      BY ONLY <3>1 DEF OnHarts
  <2>3. /\ State'[t] = "RUNNING"
        /\ \A x \in Threads : x # t => State'[x] = State[x]
        /\ UNCHANGED <<CompletedThreads, ID, WaitingToJoinTID>>
    BY <1>0, <1>1, <2>1 DEF AssignThread, TypeOK
  <2> HIDE DEF t
  <2> QED
    BY Zenon, <1>0, <2>1, <2>2, <2>3 DEF FreshWaitsForNone, JoinedIsCompleted
<1>2. ASSUME NEW t \in Threads, HandleDone(t) \/ HandleBlocked(t) \/ HandleStart(t)
      PROVE  FreshWaitsForNone' /\ JoinedIsCompleted'
  <2>1. OnHarts' = OnHarts /\ UNCHANGED <<ID, WaitingToJoinTID>>
    BY <1>2, HandleFacts, OnHartsKept
  <2>2. CompletedThreads \subseteq CompletedThreads'
    BY Zenon, <1>2 DEF HandleDone, HandleBlocked, HandleStart
  <2>3. CASE HandleStart(t)
    <3>1. State[t] = "START" /\ Ready' = Ready \cup {t}
      <4>1. ReadyThreads' = Append(ReadyThreads, t) /\ State[t] = "START"
        BY Zenon, <2>3 DEF HandleStart, Changed
      <4> QED
        <5>1. ReadyThreads \in Seq(Threads)
          BY <1>0 DEF TypeOK
        <5>2. Range(Append(ReadyThreads, t)) = Range(ReadyThreads) \cup {t}
          BY ONLY <5>1, t \in Threads, AppendFacts
        <5> QED
          BY ONLY Zenon, <4>1, <5>2 DEF Ready
    <3>2. \A x \in Threads : x # t => State'[x] = State[x]
      BY <1>0, <2>3 DEF HandleStart, TypeOK
    <3> QED
      BY Zenon, <1>0, <2>1, <2>2, <3>1, <3>2 DEF FreshWaitsForNone, JoinedIsCompleted
  <2>4. CASE HandleDone(t) \/ HandleBlocked(t)
    <3>1. Ready' = Ready /\ State' = State
      BY ZenonT(40), <2>4 DEF HandleDone, HandleBlocked, Ready
    <3> QED
      BY <1>0, <2>1, <2>2, <3>1 DEF FreshWaitsForNone, JoinedIsCompleted
  <2> QED
    BY <1>2, <2>3, <2>4
<1>3. ASSUME UNCHANGED <<CompletedThreads, Thread, State, ID, WaitingToJoinTID>>,
             \/ Ready' = Ready
             \/ CheckBlockedThreads
      PROVE  FreshWaitsForNone' /\ JoinedIsCompleted'
  <2>1. OnHarts' = OnHarts
    BY <1>3, OnHartsKept
  <2>2. \A x \in Ready' : x \in Ready \/ ThreadCanProceed(x)
    <3>1. CASE CheckBlockedThreads
      BY <3>1, CheckFacts DEF JoinInv, Ready
    <3> QED
      BY <1>3, <3>1
  <2> QED
    BY <1>0, <1>3, <2>1, <2>2
       DEF FreshWaitsForNone, JoinedIsCompleted, ThreadCanProceed
<1>4. ASSUME Bookkeeping PROVE FreshWaitsForNone' /\ JoinedIsCompleted'
  <2>1. Ready' = Ready \/ CheckBlockedThreads
    BY Zenon, <1>4
       DEF Bookkeeping, NothingToAssign, NotClocked, FinishCore, EndTick,
           StartCheck, CheckDone, Stopped, MarkInstructionLoadComplete, vars,
           queueVars, Ready
  <2> QED
    BY <1>3, <1>4, <2>1, BookkeepingFacts
<1>5. ASSUME NEW t \in Threads, MarkLoadComplete(t)
      PROVE  FreshWaitsForNone' /\ JoinedIsCompleted'
  BY Zenon, <1>3, <1>5 DEF MarkLoadComplete, queueVars, hartVars, threadVars, Ready
<1> QED
  BY <1>1, <1>2, <1>4, <1>5, NextCases

\* When EndTick ends the simulation, no thread is left anywhere.
LEMMA EndIsEarned ==
  ASSUME PlaceInv, EndTick, sim' = "ended"
  PROVE  Created \subseteq CompletedThreads
<1>1. /\ TypeOK /\ IdleAgrees /\ EnabledAgrees /\ OneChange /\ phase = "end"
      /\ sim = "running"
  BY HeldOnceParts
     DEF PlaceInv, EnabledInv, HartInv, OnePlace, EndTick, AtCore
<1>2. NoWork /\ ReadyThreads = <<>> /\ BlockedThreads = <<>>
  BY <1>1 DEF EndTick, NoWork
<1>3. Ready = {} /\ Blocked = {}
  BY <1>2 DEF Ready, Blocked, Range
<1>4. InFlight = {}
  BY <1>1, NothingInFlight
<1>5. OnHarts = {}
  <2>1. \A c \in Cores : IdleHarts[c] = Harts
    BY <1>1, <1>2 DEF EnabledAgrees, NoWork, HasNoBusyHarts
  <2>2. \A c \in Cores, h \in Harts : Thread[c][h] = NoThread
    BY Zenon, <1>1, <2>1 DEF IdleAgrees
  <2> QED
    BY <2>2 DEF OnHarts
<1> QED
  BY Zenon, <1>1, <1>3, <1>4, <1>5
     DEF PlaceInv, OnePlace, NotLost, Created, TypeOK, ThreadStates

LEMMA NoEarlyEndStep ==
  ASSUME PlaceInv, NoEarlyEnd, [Next]_vars
  PROVE  NoEarlyEnd'
<1>0. TypeOK
  BY DEF PlaceInv, EnabledInv, HartInv
<1>1. CASE EndTick
  <2>1. UNCHANGED <<CompletedThreads, State>>
    BY <1>1 DEF EndTick, queueVars, threadVars
  <2> QED
    BY <1>1, <2>1, EndIsEarned DEF NoEarlyEnd, Created
<1>2. CASE sim' # "ended"
  BY <1>2 DEF NoEarlyEnd
<1>3. CASE Stopped \/ UNCHANGED vars
  BY Zenon, <1>3 DEF NoEarlyEnd, Created, Stopped, vars, queueVars, threadVars
<1>4. ASSUME ~EndTick, ~Stopped, ~UNCHANGED vars PROVE sim' # "ended"
  <2>1. ASSUME NEW h \in Harts, NEW t \in Threads, HartStep(h, t)
        PROVE  sim' # "ended"
    BY <1>0, <2>1, HartStepCases
  <2> QED
    BY Zenon, <1>4, <2>1
       DEF Next, clockTick, AssignThread, NothingToAssign, NotClocked, HandleDone,
           HandleBlocked, HandleStart, Changed, FinishCore, StartCheck,
           CheckBlockedThreads, CheckDone, MarkLoadComplete,
           MarkInstructionLoadComplete, BetweenTicks, AtCore
<1> QED
  BY <1>1, <1>2, <1>3, <1>4

LEMMA JoinInvStep == ~RandomTIDs /\ JoinInv /\ [Next]_vars => JoinInv'
<1> SUFFICES ASSUME ~RandomTIDs, JoinInv, [Next]_vars
             PROVE  FreshWaitsForNone' /\ JoinedIsCompleted' /\ NoEarlyEnd'
  BY PlaceInvStep DEF JoinInv
<1> QED
  BY JoinHartStep, JoinSched, NoEarlyEndStep DEF JoinInv

LEMMA JoinInvIsSafe == JoinInv => JoinSafe /\ NoEarlyEnd
<1> SUFFICES ASSUME JoinInv PROVE JoinSafe
  BY Zenon DEF JoinInv
<1>1. \A u \in CompletedThreads : u \in Threads /\ State[u] = "DONE"
  BY DEF JoinInv, PlaceInv, EnabledInv, HartInv, OnePlace, PlaceFitsState, TypeOK
<1> QED
  BY <1>1
     DEF JoinInv, PlaceInv, JoinSafe, JoinedIsCompleted, ThreadIDsDiffer, Created

\* With thread IDs that do not repeat, a join returns only after the joined
\* thread has finished, and the simulation ends only when every thread has.
THEOREM JoinsCorrect ==
  ASSUME ~RandomTIDs
  PROVE  Spec => [](JoinSafe /\ NoEarlyEnd)
<1>1. JoinInv /\ [Next]_vars => JoinInv'
  BY JoinInvStep
<1> QED
  BY <1>1, JoinInvInit, JoinInvIsSafe, PTL DEF Spec

-----------------------------------------------------------------------------
(* RevThreads implements ThreadLife when thread IDs do not repeat: every   *)
(* step of the scheduler is one step of a thread's life, or no step of it. *)

stages == [t \in Threads |-> Stage(t)]

\* Stage, state by state.
LEMMA StageFacts ==
  ASSUME NEW t \in Threads
  PROVE  /\ State[t] = "NONE" => Stage(t) = "none"
         /\ State[t] \in {"START", "READY"} => Stage(t) = "runnable"
         /\ State[t] = "RUNNING" => Stage(t) = "running"
         /\ State[t] = "DONE" => Stage(t) = "done"
         /\ State[t] = "BLOCKED" /\ t \in Ready => Stage(t) = "runnable"
         /\ State[t] = "BLOCKED" /\ t \notin Ready => Stage(t) = "waiting"
BY DEF Stage

\* The same in the next state.
LEMMA StageFactsNext ==
  ASSUME NEW t \in Threads
  PROVE  /\ State'[t] = "NONE" => Stage(t)' = "none"
         /\ State'[t] \in {"START", "READY"} => Stage(t)' = "runnable"
         /\ State'[t] = "RUNNING" => Stage(t)' = "running"
         /\ State'[t] = "DONE" => Stage(t)' = "done"
         /\ State'[t] = "BLOCKED" /\ t \in Ready' => Stage(t)' = "runnable"
         /\ State'[t] = "BLOCKED" /\ t \notin Ready' => Stage(t)' = "waiting"
BY DEF Stage

\* A thread whose state and queue do not change keeps its stage.
LEMMA StageKept ==
  ASSUME NEW t \in Threads, State'[t] = State[t], t \in Ready' <=> t \in Ready
  PROVE  Stage(t)' = Stage(t)
BY DEF Stage

LEMMA LifeStepInit == Init => Life!LifeInit
<1> SUFFICES ASSUME Init PROVE Life!LifeInit
  OBVIOUS
<1>1. \A t \in Threads : Stage(t) = IF t = MainThread THEN "runnable" ELSE "none"
  BY StageFacts DEF Init
<1>2. stages = [t \in Threads |-> IF t = MainThread THEN "runnable" ELSE "none"]
  BY <1>1 DEF stages
<1>3. /\ ID = [t \in Threads |-> IF t = MainThread THEN 1 ELSE 0]
      /\ WaitingToJoinTID = [t \in Threads |-> 0]
      /\ (sim # "running") = FALSE
  BY DEF Init
<1> QED
  BY <1>2, <1>3 DEF Life!LifeInit, stages

\* The effect on one thread's stage is Move of the abstract specification.
LEMMA MoveFacts ==
  ASSUME NEW t \in Threads, NEW from, NEW to,
         Stage(t) = from, Stage(t)' = to,
         \A x \in Threads : x # t => Stage(x)' = Stage(x)
  PROVE  Life!Move(t, from, to)
<1>1. stages' = [stages EXCEPT ![t] = to]
  BY Zenon DEF stages
<1> QED
  BY <1>1 DEF Life!Move, stages

LEMMA StutterFacts ==
  ASSUME \A x \in Threads : Stage(x)' = Stage(x),
         UNCHANGED <<ID, WaitingToJoinTID, sim>>
  PROVE  UNCHANGED Life!lifeVars
BY DEF Life!lifeVars
LEMMA LifeHartStep ==
  ASSUME ~RandomTIDs, JoinInv, NEW h \in Harts, NEW t \in Threads, HartStep(h, t)
  PROVE  [Life!LifeNext]_(Life!lifeVars)
<1>0. /\ TypeOK /\ Ready' = Ready /\ State[t] = "RUNNING" /\ t \notin Ready
      /\ sim = "running"
  <2>1. TypeOK
    BY DEF JoinInv, PlaceInv, EnabledInv, HartInv
  <2>2. Decode(h, t)
    BY <2>1, HartStepCases
  <2>3. t = Thread[core][h] /\ core \in Cores
    BY <2>1, <2>2, DecodeFacts DEF TypeOK
  <2>4. t \in OnHarts
    BY <2>3, ThreadAssumption DEF OnHarts
  <2> QED
    BY <2>1, <2>2, <2>4, DecodeFacts
       DEF Ready, JoinInv, PlaceInv, OnePlace, PlaceFitsState
<1>1. Stage(t) = "running"
  BY <1>0, StageFacts
<1>2. CASE Stays(t)
  <2>1. \A x \in Threads : Stage(x)' = Stage(x)
    BY <1>0, <1>2, StageKept DEF Stays
  <2>2. CASE sim' = "running"
    BY <1>0, <1>2, <2>1, <2>2, StutterFacts DEF Stays
  <2>3. CASE sim' = "exited"
    <3>1. stages' = stages /\ stages[t] = "running"
      BY <1>1, <2>1 DEF stages
    <3>2. ID' = ID /\ WaitingToJoinTID' = WaitingToJoinTID
      BY <1>2 DEF Stays
    <3>3. ~(sim # "running") /\ (sim # "running")' = TRUE
      BY <1>0, <2>3
    <3>4. Life!End
      BY <3>1, <3>2, <3>3 DEF Life!End, stages
    <3> QED
      BY <3>4 DEF Life!LifeNext
  <2> QED
    BY <1>0, <2>2, <2>3, HartStepCases
<1>3. ASSUME NEW s \in {"DONE", "BLOCKED"}, Leaves(h, t, s), sim' = "running"
      PROVE  Life!LifeNext
  <2>1. \A x \in Threads : State'[x] = IF x = t THEN s ELSE State[x]
    BY <1>0, <1>3 DEF Leaves, PopThreadFromHart, TypeOK
  <2>2. \A x \in Threads : x # t => Stage(x)' = Stage(x)
    BY <1>0, <2>1, StageKept
  <2>3. (sim # "running")' = (sim # "running") /\ ID' = ID
    BY <1>0, <1>3 DEF Leaves
  <2>4. CASE s = "DONE"
    <3>1. Life!Move(t, "running", "done")
      <4>1. Stage(t)' = "done"
        BY <2>1, <2>4, StageFactsNext
      <4> QED
        BY <1>1, <2>2, <4>1, MoveFacts
    <3>2. WaitingToJoinTID' = WaitingToJoinTID
      BY <1>3, <2>4 DEF Leaves
    <3>3. Life!Finish(t)
      BY <2>3, <3>1, <3>2 DEF Life!Finish
    <3> QED
      BY <3>3 DEF Life!LifeNext
  <2>5. CASE s = "BLOCKED"
    <3>1. Life!Move(t, "running", "waiting")
      <4>1. Stage(t)' = "waiting"
        BY <1>0, <2>1, <2>5, StageFactsNext
      <4> QED
        BY <1>1, <2>2, <4>1, MoveFacts
    <3>2. PICK i \in TIDs : WaitingToJoinTID' = [WaitingToJoinTID EXCEPT ![t] = i]
      BY <1>3, <2>5 DEF Leaves
    <3>3. Life!Join(t, i)
      BY <2>3, <3>1, <3>2 DEF Life!Join
    <3> QED
      BY <3>3 DEF Life!LifeNext
  <2> QED
    BY <2>4, <2>5
<1>4. ASSUME NEW u \in Threads, NEW i \in TIDs, Creates(u, i), sim' = "running"
      PROVE  Life!LifeNext
  <2>1. /\ State[u] = "NONE"
        /\ \A x \in Threads : State'[x] = IF x = u THEN "START" ELSE State[x]
    BY <1>0, <1>4 DEF Creates, TypeOK
  <2>2. Life!Move(u, "none", "runnable")
    <3>1. Stage(u) = "none" /\ Stage(u)' = "runnable"
      BY <2>1, StageFacts, StageFactsNext
    <3>2. \A x \in Threads : x # u => Stage(x)' = Stage(x)
      BY <1>0, <2>1, StageKept
    <3> QED
      BY <3>1, <3>2, MoveFacts
  <2>3. i # 0 /\ \A x \in Threads : stages[x] # "none" => ID[x] # i
    BY <1>4, StageFacts DEF Creates, GetNewThreadID, stages
  <2>4. /\ (sim # "running")' = (sim # "running")
        /\ WaitingToJoinTID' = WaitingToJoinTID
        /\ ID' = [ID EXCEPT ![u] = i]
    BY <1>0, <1>4 DEF Creates
  <2>5. stages[t] = "running" /\ i \in 1 .. MaxTID
    BY <1>1, <2>3, TIDAssumption DEF stages
  <2>6. Life!Create(t, u, i)
    BY <2>2, <2>3, <2>4, <2>5 DEF Life!Create, stages
  <2> QED
    BY <2>5, <2>6 DEF Life!LifeNext
<1> QED
  BY <1>0, <1>2, <1>3, <1>4, HartStepCases

LEMMA LifeAssign ==
  ASSUME JoinInv, NEW h \in Harts, AssignThread(h)
  PROVE  Life!LifeNext
<1>0. TypeOK
  BY DEF JoinInv, PlaceInv, EnabledInv, HartInv
<1>t. PICK t \in Threads : t = Head(ReadyThreads)
  BY <1>0, TailFacts DEF AssignThread, TypeOK
<1>1. t \in Ready /\ Ready = Ready' \cup {t}
  BY <1>0, <1>t, TailFacts DEF AssignThread, Ready, TypeOK
<1>2. \A x \in Threads : State'[x] = IF x = t THEN "RUNNING" ELSE State[x]
  BY <1>0, <1>t DEF AssignThread, TypeOK
<1>3. UNCHANGED <<ID, WaitingToJoinTID, sim>>
  BY DEF AssignThread
<1>4. Stage(t) = "runnable" /\ Stage(t)' = "running"
  BY <1>1, <1>2, StageFacts, StageFactsNext
     DEF JoinInv, PlaceInv, OnePlace, PlaceFitsState
<1>5. \A x \in Threads : x # t => Stage(x)' = Stage(x)
  BY <1>1, <1>2, StageKept
<1>6. Life!Move(t, "runnable", "running")
  BY <1>1, <1>4, <1>5, MoveFacts
<1>7. (sim # "running")' = (sim # "running")
  BY <1>3
<1>8. Life!Dispatch(t)
  BY <1>3, <1>6, <1>7 DEF Life!Dispatch
<1> QED
  BY <1>1, <1>8 DEF Life!LifeNext

LEMMA LifeHandle ==
  ASSUME JoinInv, NEW t \in Threads,
         HandleDone(t) \/ HandleBlocked(t) \/ HandleStart(t)
  PROVE  UNCHANGED Life!lifeVars
<1>0. TypeOK
  BY DEF JoinInv, PlaceInv, EnabledInv, HartInv
<1>1. UNCHANGED <<ID, WaitingToJoinTID, sim>>
  BY HandleFacts
<1>2. CASE HandleDone(t) \/ HandleBlocked(t)
  <2>1. State' = State /\ Ready' = Ready
    BY <1>2 DEF HandleDone, HandleBlocked, Ready
  <2>2. \A x \in Threads : Stage(x)' = Stage(x)
    BY <2>1, StageKept
  <2> QED
    BY <1>1, <2>2, StutterFacts
<1>3. CASE HandleStart(t)
  <2>1. /\ State[t] = "START"
        /\ \A x \in Threads : State'[x] = IF x = t THEN "READY" ELSE State[x]
    BY <1>0, <1>3 DEF HandleStart, Changed, TypeOK
  <2>2. Ready' = Ready \cup {t}
    BY <1>0, <1>3, AppendFacts DEF HandleStart, Ready, TypeOK
  <2>3. \A x \in Threads : x # t => Stage(x)' = Stage(x)
    BY <2>1, <2>2, StageKept
  <2>4. Stage(t)' = Stage(t)
    BY <2>1, StageFacts, StageFactsNext
  <2>5. \A x \in Threads : Stage(x)' = Stage(x)
    BY <2>3, <2>4
  <2> QED
    BY <1>1, <2>5, StutterFacts
<1> QED
  BY <1>2, <1>3

LEMMA LifeCheck ==
  ASSUME JoinInv, CheckBlockedThreads
  PROVE  [Life!LifeNext]_(Life!lifeVars)
<1>0. PlaceInv /\ UNCHANGED <<CompletedThreads, State, ID, WaitingToJoinTID, sim>>
  BY DEF JoinInv, CheckBlockedThreads, threadVars
<1>1. CASE UNCHANGED <<ReadyThreads, BlockedThreads>>
  <2>1. \A x \in Threads : Stage(x)' = Stage(x)
    BY <1>0, <1>1, StageKept DEF Ready
  <2> QED
    BY <1>0, <2>1, StutterFacts
<1>2. CASE ~UNCHANGED <<ReadyThreads, BlockedThreads>>
  <2>t. PICK t \in Threads : t = BlockedThreads[scan]
    BY <1>0, CheckFacts
  <2>1. t \in Blocked /\ ThreadCanProceed(t) /\ Ready' = Ready \cup {t}
    BY <1>0, <1>2, <2>t, CheckFacts
  <2>2. State[t] = "BLOCKED" /\ t \notin Ready
    BY <1>0, <2>1 DEF PlaceInv, OnePlace, PlaceFitsState, NotTwice
  <2>3. Stage(t) = "waiting" /\ Stage(t)' = "runnable"
    BY <1>0, <2>1, <2>2, StageFacts, StageFactsNext
  <2>4. \A x \in Threads : x # t => Stage(x)' = Stage(x)
    BY <1>0, <2>1, StageKept
  <2>5. Life!Move(t, "waiting", "runnable")
    BY <2>1, <2>3, <2>4, MoveFacts
  <2>6. \/ WaitingToJoinTID[t] = 0
        \/ \E u \in Threads : stages[u] = "done" /\ ID[u] = WaitingToJoinTID[t]
    <3>1. \A u \in CompletedThreads : u \in Threads /\ stages[u] = "done"
      BY <1>0, StageFacts
         DEF PlaceInv, EnabledInv, HartInv, TypeOK, OnePlace, PlaceFitsState,
             stages
    <3> QED
      BY <2>1, <3>1 DEF ThreadCanProceed
  <2>7. (sim # "running")' = (sim # "running")
    BY <1>0
  <2>8. Life!Wake(t)
    BY <1>0, <2>5, <2>6, <2>7 DEF Life!Wake, stages
  <2> QED
    BY <2>1, <2>8 DEF Life!LifeNext
<1> QED
  BY <1>1, <1>2

LEMMA LifeEnd ==
  ASSUME JoinInv, EndTick
  PROVE  [Life!LifeNext]_(Life!lifeVars)
<1>0. UNCHANGED <<CompletedThreads, State, ID, WaitingToJoinTID>> /\ Ready' = Ready
  BY DEF EndTick, threadVars, queueVars, Ready
<1>1. \A x \in Threads : Stage(x)' = Stage(x)
  BY <1>0, StageKept
<1>2. CASE sim' = sim
  BY <1>0, <1>1, <1>2, StutterFacts
<1>3. CASE sim' # sim
  <2>1. sim = "running" /\ sim' = "ended"
    BY <1>3 DEF EndTick, AtCore
  <2>2. \A x \in Threads : stages[x] \in {"none", "done"}
    <3>1. Created \subseteq CompletedThreads
      BY <2>1, EndIsEarned DEF JoinInv
    <3>2. \A x \in Threads : State[x] \in {"NONE", "DONE"}
      BY <3>1 DEF Created, JoinInv, PlaceInv, OnePlace, PlaceFitsState
    <3> QED
      BY <3>2, StageFacts DEF stages
  <2>3. ~(sim # "running") /\ (sim # "running")' = TRUE
    BY <2>1
  <2>4. stages' = stages
    BY <1>1 DEF stages
  <2>5. Life!End
    BY <1>0, <2>2, <2>3, <2>4 DEF Life!End, stages
  <2> QED
    BY <2>5 DEF Life!LifeNext
<1> QED
  BY <1>2, <1>3

LEMMA LifeStep ==
  ASSUME ~RandomTIDs, JoinInv, [Next]_vars
  PROVE  [~(sim # "running") /\ Life!LifeNext]_(Life!lifeVars)
<1>1. ASSUME Bookkeeping, ~CheckBlockedThreads, ~EndTick
      PROVE  UNCHANGED Life!lifeVars
  <2>1. Ready' = Ready /\ sim' = sim
    BY Zenon, <1>1
       DEF Bookkeeping, NothingToAssign, NotClocked, FinishCore, StartCheck,
           CheckDone, Stopped, MarkInstructionLoadComplete, vars, queueVars,
           Ready
  <2>2. \A x \in Threads : Stage(x)' = Stage(x)
    BY <1>1, <2>1, BookkeepingFacts, StageKept
  <2> QED
    BY ZenonT(40), <1>1, <2>1, <2>2, BookkeepingFacts, StutterFacts
<1>2. ASSUME NEW t \in Threads, MarkLoadComplete(t)
      PROVE  UNCHANGED Life!lifeVars
  <2>1. Ready' = Ready /\ UNCHANGED <<State, ID, WaitingToJoinTID, sim>>
    BY <1>2 DEF MarkLoadComplete, queueVars, threadVars, Ready
  <2>2. \A x \in Threads : Stage(x)' = Stage(x)
    BY <2>1, StageKept
  <2> QED
    BY <2>1, <2>2, StutterFacts
<1>3. [Life!LifeNext]_(Life!lifeVars)
  BY <1>1, <1>2, LifeAssign, LifeHartStep, LifeHandle, LifeCheck, LifeEnd,
     NextCases
<1>4. sim # "running" => UNCHANGED Life!lifeVars
  <2>1. ASSUME sim # "running" PROVE UNCHANGED vars
    <3>1. ASSUME NEW h \in Harts, NEW t \in Threads, HartStep(h, t)
          PROVE  FALSE
      <4>1. Decode(h, t)
        BY <3>1, HartStepCases DEF JoinInv, PlaceInv, EnabledInv, HartInv
      <4> QED
        BY <2>1, <4>1 DEF Decode, AtCore
    <3> QED
      BY ZenonT(40), <2>1, <3>1
         DEF Next, clockTick, AssignThread, NothingToAssign, NotClocked,
             HandleDone, HandleBlocked, HandleStart, Changed, FinishCore, EndTick,
             StartCheck, CheckBlockedThreads, CheckDone, MarkLoadComplete,
             MarkInstructionLoadComplete, BetweenTicks, AtCore, Stopped
  <2>2. ASSUME UNCHANGED vars PROVE UNCHANGED Life!lifeVars
    <3>1. Ready' = Ready /\ UNCHANGED <<State, ID, WaitingToJoinTID, sim>>
      BY <2>2 DEF vars, queueVars, threadVars, Ready
    <3>2. \A x \in Threads : Stage(x)' = Stage(x)
      BY <3>1, StageKept
    <3> QED
      BY <3>1, <3>2, StutterFacts
  <2> QED
    BY ZenonT(40), <2>1, <2>2
<1> QED
  BY <1>3, <1>4

\* RevCPU's queues, the harts of the cores and the thread system calls together
\* implement the life of a thread: create, dispatch, join, wake, finish, and an
\* end only when all threads are done or one has called exit.
THEOREM Implements ==
  ASSUME ~RandomTIDs
  PROVE  Spec => ImplementsThreadLife
<1>1. Init => Life!LifeInit
  BY LifeStepInit
<1>2. JoinInv /\ [Next]_vars =>
        [~(sim # "running") /\ Life!LifeNext]_(Life!lifeVars)
  BY LifeStep
<1>3. JoinInv /\ [Next]_vars => JoinInv'
  BY JoinInvStep
<1> QED
  BY <1>1, <1>2, <1>3, JoinInvInit, PTL
     DEF Spec, ImplementsThreadLife, Life!LifeSpec

=============================================================================
