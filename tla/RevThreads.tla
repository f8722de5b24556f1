----------------------------- MODULE RevThreads -----------------------------
(***************************************************************************)
(* The software-thread scheduler of Rev: the thread queues of RevCPU       *)
(* (src/RevCPU.cc), the harts of every RevProc (src/RevProc.cc,            *)
(* include/RevHart.h) and the thread system calls (src/RevSysCalls.cc).    *)
(*                                                                         *)
(* One call of RevCPU::clockTick is a fixed sequence of steps: for every   *)
(* core UpdateThreadAssignments, RevProc::ClockTick, the loop of           *)
(* HandleThreadStateChangesForProc, then the end of the tick with the loop *)
(* of CheckBlockedThreads.  "phase" and "core" say how far the tick has    *)
(* come.  Memory answers (MarkLoadComplete) arrive between two ticks only: *)
(* SST runs one event at a time.                                           *)
(*                                                                         *)
(* A thread's program is abstracted to what the scheduler can see of it:   *)
(* instructions that may leave a load outstanding, instruction-cache       *)
(* misses, rev_pthread_create, rev_pthread_join, exit, and the return to   *)
(* address 0.  Every instruction costs one cycle, as every entry of the    *)
(* built-in tables does (the cost is modelled in RevPipeline), so a hart   *)
(* is clear to decode exactly when it is not idle.                         *)
(***************************************************************************)
EXTENDS Integers, Sequences, Functions, StdContainers

CONSTANTS
  NumCores,    \* Procs.size()
  NumHarts,    \* numHarts: harts per core
  Threads,     \* the RevThread objects a run may create
  MainThread,  \* the one InitMainThread creates
  NoThread,    \* a null std::unique_ptr<RevThread>
  MaxTID,      \* thread IDs are drawn from 0..MaxTID (UINT32_MAX in the code)
  MaxInst,     \* instructions a thread executes before it returns
  RandomTIDs,  \* TRUE: an ID is any draw of the RNG; FALSE: no draw repeats
  AnyJoin      \* TRUE: join takes any ID; FALSE: the ID of an own child

Cores == 0 .. NumCores - 1
Harts == 0 .. NumHarts - 1
TIDs == 0 .. MaxTID

\* _INVALID_TID_
NoTID == 0

ASSUME CoreAssumption == NumCores \in Nat \ {0}
ASSUME HartAssumption == NumHarts \in Nat \ {0}
ASSUME ThreadAssumption == MainThread \in Threads /\ NoThread \notin Threads
ASSUME TIDAssumption == MaxTID \in Nat \ {0}
ASSUME BoundAssumption == MaxInst \in Nat
ASSUME FlagAssumption == RandomTIDs \in BOOLEAN /\ AnyJoin \in BOOLEAN

VARIABLES
  ReadyThreads,             \* RevCPU: threads that wait for a hart, in order
  BlockedThreads,           \* RevCPU: threads that wait in a join, in order
  CompletedThreads,         \* RevCPU: the threads kept in the map, by ID
  Enabled,                  \* RevCPU: the cores that are clocked
  ThreadsThatChangedState,  \* RevProc: handed to RevCPU after the tick
  Thread,                   \* RevHart: the thread assigned to it
  IdleHarts,                \* RevProc: bitset of harts without a thread
  HartToDecodeID,           \* RevProc
  State,                    \* RevThread: ThreadState, "NONE" before creation
  ID,                       \* RevThread: its thread ID
  WaitingToJoinTID,         \* RevThread
  ParentID,                 \* RevThread: the creating thread
  zeroPC,                   \* register file: the PC is 0
  dep,                      \* register file: a scoreboard bit is set
  fetch,                    \* instruction fetch: "hit", "miss" or "filled"
  left,                     \* instructions the thread may still execute
  phase,                    \* where clockTick stands
  core,                     \* loop index of clockTick
  scan,                     \* iterator of CheckBlockedThreads
  sim                       \* "running", "ended" (OKToEndSim) or "exited"

queueVars == <<ReadyThreads, BlockedThreads, CompletedThreads>>
hartVars == <<Thread, IdleHarts, HartToDecodeID>>
threadVars == <<State, ID, WaitingToJoinTID, ParentID>>
progVars == <<zeroPC, dep, fetch, left>>
tickVars == <<phase, core, scan>>
vars == <<queueVars, Enabled, ThreadsThatChangedState, hartVars, threadVars,
          progVars, tickVars, sim>>

ThreadStates == {"NONE", "START", "READY", "RUNNING", "BLOCKED", "DONE"}
Phases == {"assign", "tick", "handle", "end", "check"}

\* Every variable holds a value of the type its C++ declaration gives it.
TypeOK ==
  /\ ReadyThreads \in Seq(Threads)
  /\ BlockedThreads \in Seq(Threads)
  /\ CompletedThreads \subseteq Threads
  /\ Enabled \in [Cores -> BOOLEAN]
  /\ ThreadsThatChangedState \in [Cores -> Seq(Threads)]
  /\ Thread \in [Cores -> [Harts -> Threads \cup {NoThread}]]
  /\ IdleHarts \in [Cores -> SUBSET Harts]
  /\ HartToDecodeID \in [Cores -> Harts]
  /\ State \in [Threads -> ThreadStates]
  /\ ID \in [Threads -> TIDs]
  /\ WaitingToJoinTID \in [Threads -> TIDs]
  /\ ParentID \in [Threads -> Threads \cup {NoThread}]
  /\ zeroPC \in [Threads -> BOOLEAN]
  /\ dep \in [Threads -> BOOLEAN]
  /\ fetch \in [Threads -> {"hit", "miss", "filled"}]
  /\ left \in [Threads -> 0 .. MaxInst]
  /\ phase \in Phases
  /\ core \in Cores
  /\ scan \in Nat \ {0}
  /\ sim \in {"running", "ended", "exited"}

-----------------------------------------------------------------------------
(* The constructor of RevCPU leaves one ready thread and no enabled core.  *)

Init ==
  /\ ReadyThreads = <<MainThread>>
  /\ BlockedThreads = <<>>
  /\ CompletedThreads = {}
  /\ Enabled = [c \in Cores |-> FALSE]
  /\ ThreadsThatChangedState = [c \in Cores |-> <<>>]
  /\ Thread = [c \in Cores |-> [h \in Harts |-> NoThread]]
  /\ IdleHarts = [c \in Cores |-> Harts]
  /\ HartToDecodeID = [c \in Cores |-> 0]
  /\ State = [t \in Threads |-> IF t = MainThread THEN "READY" ELSE "NONE"]
  /\ ID = [t \in Threads |-> IF t = MainThread THEN 1 ELSE NoTID]
  /\ WaitingToJoinTID = [t \in Threads |-> NoTID]
  /\ ParentID = [t \in Threads |-> NoThread]
  /\ zeroPC = [t \in Threads |-> FALSE]
  /\ dep = [t \in Threads |-> FALSE]
  /\ fetch = [t \in Threads |-> "hit"]
  /\ left = [t \in Threads |-> MaxInst]
  /\ phase = "assign"
  /\ core = 0
  /\ scan = 1
  /\ sim = "running"

-----------------------------------------------------------------------------
(* RevCPU::UpdateThreadAssignments, called for one core at a time.         *)

\* HasIdleHart, HasNoBusyHarts
HasIdleHart(c) == IdleHarts[c] # {}
HasNoBusyHarts(c) == IdleHarts[c] = Harts

\* FindIdleHartID: the first idle hart
FindIdleHartID(c, h) == h \in IdleHarts[c] /\ \A g \in IdleHarts[c] : h <= g

AtCore(p) == sim = "running" /\ phase = p

AssignThread(h) ==
  /\ AtCore("assign")
  /\ ReadyThreads # <<>>
  /\ FindIdleHartID(core, h)
  /\ Thread' = [Thread EXCEPT ![core][h] = Head(ReadyThreads)]
  /\ State' = [State EXCEPT ![Head(ReadyThreads)] = "RUNNING"]
  /\ IdleHarts' = [IdleHarts EXCEPT ![core] = @ \ {h}]
  /\ ReadyThreads' = Tail(ReadyThreads)
  /\ Enabled' = [Enabled EXCEPT ![core] = TRUE]
  /\ phase' = "tick"
  /\ UNCHANGED <<BlockedThreads, CompletedThreads, ThreadsThatChangedState,
                 HartToDecodeID, ID, WaitingToJoinTID, ParentID, progVars,
                 core, scan, sim>>

NothingToAssign ==
  /\ AtCore("assign")
  /\ ReadyThreads = <<>> \/ ~HasIdleHart(core)
  /\ phase' = "tick"
  /\ UNCHANGED <<queueVars, Enabled, ThreadsThatChangedState, hartVars,
                 threadVars, progVars, core, scan, sim>>

-----------------------------------------------------------------------------
(* RevProc::ClockTick of the current core.  One action per outcome of the  *)
(* instruction at the head of the selected hart.                           *)

\* GetNextHartToDecodeID: the current hart while it is clear to decode, else
\* the first clear one after it, round robin.
Distance(c, h) == (h - HartToDecodeID[c]) % NumHarts

GetNextHartToDecodeID(c, h) ==
  /\ h \in Harts \ IdleHarts[c]
  /\ \A g \in Harts \ IdleHarts[c] : Distance(c, h) <= Distance(c, g)

\* What every tick of an enabled core does: t is the thread it works for.
Decode(h, t) ==
  /\ AtCore("tick")
  /\ Enabled[core]
  /\ GetNextHartToDecodeID(core, h)
  /\ t = Thread[core][h]
  /\ HartToDecodeID' = [HartToDecodeID EXCEPT ![core] = h]
  /\ phase' = "handle"
  /\ UNCHANGED <<queueVars, Enabled, core, scan>>

\* PrefetchInst succeeds.
Fetched(t) == ~zeroPC[t] /\ fetch[t] # "miss"

\* Variant: the bit in IdleHarts is not set.
PopWithoutIdleBit(h, t, state) ==
  /\ Thread' = [Thread EXCEPT ![core][h] = NoThread]
  /\ State' = [State EXCEPT ![t] = state]
  /\ ThreadsThatChangedState' =
       [ThreadsThatChangedState EXCEPT ![core] = Append(@, t)]
  /\ UNCHANGED IdleHarts

\* PopThreadFromHart, SetState and AddThreadsThatChangedState
PopThreadFromHart(h, t, state) ==
  /\ Thread' = [Thread EXCEPT ![core][h] = NoThread]
  /\ IdleHarts' = [IdleHarts EXCEPT ![core] = @ \cup {h}]
  /\ State' = [State EXCEPT ![t] = state]
  /\ ThreadsThatChangedState' =
       [ThreadsThatChangedState EXCEPT ![core] = Append(@, t)]

\* Variant: HartHasNoDependencies is not asked.
CompleteEarly(h, t) == PopThreadFromHart(h, t, "DONE")

\* The end of ClockTick for a hart whose PC is 0.  (The second test there
\* asks the same of HartToExecID, which is HartToDecodeID or invalid.)
Complete(h, t) ==
  IF dep[t]
    THEN UNCHANGED <<Thread, IdleHarts, State, ThreadsThatChangedState>>
    ELSE PopThreadFromHart(h, t, "DONE")

\* The instruction is not in the prefetch buffer: a fill is requested.
FetchMiss(h, t) ==
  /\ Decode(h, t)
  /\ ~zeroPC[t] /\ fetch[t] = "hit"
  /\ fetch' = [fetch EXCEPT ![t] = "miss"]
  /\ UNCHANGED <<ThreadsThatChangedState, Thread, IdleHarts, State, ID,
                 ParentID, WaitingToJoinTID, zeroPC, dep, left, sim>>

\* Waiting for a fill, or for a register with an outstanding load.
Stall(h, t) ==
  /\ Decode(h, t)
  /\ ~zeroPC[t]
  /\ fetch[t] = "miss" \/ dep[t]
  /\ UNCHANGED <<ThreadsThatChangedState, Thread, IdleHarts, State, ID,
                 ParentID, WaitingToJoinTID, progVars, sim>>

\* An instruction that no queue sees; it may leave a load outstanding.
Execute(h, t, load) ==
  /\ Decode(h, t)
  /\ Fetched(t) /\ left[t] > 0
  /\ dep' = [dep EXCEPT ![t] = @ \/ load]
  /\ left' = [left EXCEPT ![t] = @ - 1]
  /\ fetch' = [fetch EXCEPT ![t] = "hit"]
  /\ UNCHANGED <<ThreadsThatChangedState, Thread, IdleHarts, State, ID,
                 ParentID, WaitingToJoinTID, zeroPC, sim>>

\* The return from the thread's function: the PC becomes 0.
Return(h, t) ==
  /\ Decode(h, t)
  /\ Fetched(t)
  /\ zeroPC' = [zeroPC EXCEPT ![t] = TRUE]
  /\ fetch' = [fetch EXCEPT ![t] = "hit"]
  /\ Complete(h, t)
  /\ UNCHANGED <<ID, ParentID, WaitingToJoinTID, dep, left, sim>>

\* A hart whose PC is 0 spins until its loads are back.
Spin(h, t) ==
  /\ Decode(h, t)
  /\ zeroPC[t]
  /\ Complete(h, t)
  /\ UNCHANGED <<ID, ParentID, WaitingToJoinTID, progVars, sim>>

\* Variant: only the invalid ID is avoided.
RepeatedTIDs(i) == i # NoTID

\* GetNewThreadID
GetNewThreadID(i) ==
  \/ RandomTIDs
  \/ i # NoTID /\ \A t \in Threads : State[t] # "NONE" => ID[t] # i

\* ECALL_pthread_create and CreateThread
ECALL_pthread_create(h, t, u, i) ==
  /\ Decode(h, t)
  /\ Fetched(t) /\ left[t] > 0
  /\ State[u] = "NONE"
  /\ GetNewThreadID(i)
  /\ State' = [State EXCEPT ![u] = "START"]
  /\ ID' = [ID EXCEPT ![u] = i]
  /\ ParentID' = [ParentID EXCEPT ![u] = t]
  /\ ThreadsThatChangedState' =
       [ThreadsThatChangedState EXCEPT ![core] = Append(@, u)]
  /\ left' = [left EXCEPT ![t] = @ - 1]
  /\ fetch' = [fetch EXCEPT ![t] = "hit"]
  /\ UNCHANGED <<Thread, IdleHarts, WaitingToJoinTID, zeroPC, dep, sim>>

\* The IDs a program may pass to rev_pthread_join
JoinableTIDs(t) ==
  IF AnyJoin THEN TIDs ELSE {ID[u] : u \in {v \in Threads : ParentID[v] = t}}

\* ECALL_pthread_join: CONTINUE (the ecall is executed again) while the hart
\* has outstanding loads.
ECALL_pthread_join(h, t, i) ==
  /\ Decode(h, t)
  /\ Fetched(t) /\ left[t] > 0
  /\ i \in JoinableTIDs(t)
  /\ fetch' = [fetch EXCEPT ![t] = "hit"]
  /\ IF dep[t]
       THEN UNCHANGED <<Thread, IdleHarts, State, ThreadsThatChangedState,
                        WaitingToJoinTID, left>>
       ELSE /\ PopThreadFromHart(h, t, "BLOCKED")
            /\ WaitingToJoinTID' = [WaitingToJoinTID EXCEPT ![t] = i]
            /\ left' = [left EXCEPT ![t] = @ - 1]
  /\ UNCHANGED <<ID, ParentID, zeroPC, dep, sim>>

\* ECALL_exit ends the whole simulation.
ECALL_exit(h, t) ==
  /\ Decode(h, t)
  /\ Fetched(t) /\ left[t] > 0
  /\ sim' = "exited"
  /\ UNCHANGED <<ThreadsThatChangedState, Thread, IdleHarts, State, ID,
                 ParentID, WaitingToJoinTID, progVars>>

\* A disabled core is not clocked.
NotClocked ==
  /\ AtCore("tick")
  /\ ~Enabled[core]
  /\ phase' = "handle"
  /\ UNCHANGED <<queueVars, Enabled, ThreadsThatChangedState, hartVars,
                 threadVars, progVars, core, scan, sim>>

-----------------------------------------------------------------------------
(* RevCPU::HandleThreadStateChangesForProc, one changed thread per step.   *)

\* Variant: a core without work stays enabled.
StayEnabled == UNCHANGED Enabled

\* Without a busy hart the core is disabled.  HasNoWork adds "and the
\* coprocessor is done", but the caller repeats the test without it.
DisableIfNoWork ==
  Enabled' = [Enabled EXCEPT ![core] = @ /\ ~HasNoBusyHarts(core)]

Changed(t, state) ==
  /\ AtCore("handle")
  /\ ThreadsThatChangedState[core] # <<>>
  /\ t = Head(ThreadsThatChangedState[core])
  /\ State[t] = state
  /\ ThreadsThatChangedState' =
       [ThreadsThatChangedState EXCEPT ![core] = Tail(@)]
  /\ DisableIfNoWork
  /\ UNCHANGED <<hartVars, ID, ParentID, WaitingToJoinTID, progVars, tickVars,
                 sim>>

\* Variant: a finished thread is destroyed and not remembered.
ForgetDone(t) == Changed(t, "DONE") /\ UNCHANGED <<queueVars, State>>

\* CompletedThreads.emplace keeps the entry it has for an ID.
HandleDone(t) ==
  /\ Changed(t, "DONE")
  /\ CompletedThreads' = IF \E u \in CompletedThreads : ID[u] = ID[t]
                           THEN CompletedThreads
                           ELSE CompletedThreads \cup {t}
  /\ UNCHANGED <<ReadyThreads, BlockedThreads, State>>

HandleBlocked(t) ==
  /\ Changed(t, "BLOCKED")
  /\ BlockedThreads' = Append(BlockedThreads, t)
  /\ UNCHANGED <<ReadyThreads, CompletedThreads, State>>

HandleStart(t) ==
  /\ Changed(t, "START")
  /\ State' = [State EXCEPT ![t] = "READY"]
  /\ ReadyThreads' = Append(ReadyThreads, t)
  /\ UNCHANGED <<BlockedThreads, CompletedThreads>>

\* The rest of the loop body of clockTick, and the loop's increment.
FinishCore ==
  /\ AtCore("handle")
  /\ ThreadsThatChangedState[core] = <<>>
  /\ DisableIfNoWork
  /\ IF core = NumCores - 1
       THEN phase' = "end" /\ core' = 0
       ELSE phase' = "assign" /\ core' = core + 1
  /\ UNCHANGED <<queueVars, ThreadsThatChangedState, hartVars, threadVars,
                 progVars, scan, sim>>

-----------------------------------------------------------------------------
(* The end of clockTick: the end of the simulation, CheckBlockedThreads.   *)

NoWork == (\A c \in Cores : ~Enabled[c]) /\ ReadyThreads = <<>>

EndTick ==
  /\ AtCore("end")
  /\ ReadyThreads # <<>> \/ BlockedThreads = <<>>
  /\ sim' = IF NoWork /\ CompletedThreads # {} THEN "ended" ELSE sim
  /\ phase' = "assign"
  /\ UNCHANGED <<queueVars, Enabled, ThreadsThatChangedState, hartVars,
                 threadVars, progVars, core, scan>>

StartCheck ==
  /\ AtCore("end")
  /\ ReadyThreads = <<>> /\ BlockedThreads # <<>>
  /\ phase' = "check"
  /\ scan' = 1
  /\ UNCHANGED <<queueVars, Enabled, ThreadsThatChangedState, hartVars,
                 threadVars, progVars, core, sim>>

OnlyInvalidWillDo(t) == WaitingToJoinTID[t] = NoTID

ThreadCanProceed(t) ==
  \/ WaitingToJoinTID[t] = NoTID
  \/ \E u \in CompletedThreads : ID[u] = WaitingToJoinTID[t]

\* Variant: the entry is not erased.
CheckWithoutErase ==
  /\ AtCore("check")
  /\ scan <= Len(BlockedThreads)
  /\ ReadyThreads' = IF ThreadCanProceed(BlockedThreads[scan])
                       THEN Append(ReadyThreads, BlockedThreads[scan])
                       ELSE ReadyThreads
  /\ scan' = scan + 1
  /\ UNCHANGED <<BlockedThreads, CompletedThreads, Enabled,
                 ThreadsThatChangedState, hartVars, threadVars, progVars, phase,
                 core, sim>>

CheckBlockedThreads ==
  /\ AtCore("check")
  /\ scan <= Len(BlockedThreads)
  /\ IF ThreadCanProceed(BlockedThreads[scan])
       THEN /\ ReadyThreads' = Append(ReadyThreads, BlockedThreads[scan])
            /\ BlockedThreads' = Erase(BlockedThreads, scan)
            /\ UNCHANGED scan
       ELSE scan' = scan + 1 /\ UNCHANGED <<ReadyThreads, BlockedThreads>>
  /\ UNCHANGED <<CompletedThreads, Enabled, ThreadsThatChangedState, hartVars,
                 threadVars, progVars, phase, core, sim>>

CheckDone ==
  /\ AtCore("check")
  /\ scan > Len(BlockedThreads)
  /\ phase' = "assign"
  /\ UNCHANGED <<queueVars, Enabled, ThreadsThatChangedState, hartVars,
                 threadVars, progVars, core, scan, sim>>

-----------------------------------------------------------------------------
(* Answers of the memory system, between two ticks.                        *)

BetweenTicks == AtCore("assign") /\ core = 0

\* RevProc::MarkLoadComplete for the last outstanding load of a register
MarkLoadComplete(t) ==
  /\ BetweenTicks
  /\ dep[t]
  /\ dep' = [dep EXCEPT ![t] = FALSE]
  /\ UNCHANGED <<queueVars, Enabled, ThreadsThatChangedState, hartVars,
                 threadVars, zeroPC, fetch, left, tickVars, sim>>

\* RevPrefetcher::MarkInstructionLoadComplete
MarkInstructionLoadComplete(t) ==
  /\ BetweenTicks
  /\ fetch[t] = "miss"
  /\ fetch' = [fetch EXCEPT ![t] = "filled"]
  /\ UNCHANGED <<queueVars, Enabled, ThreadsThatChangedState, hartVars,
                 threadVars, zeroPC, dep, left, tickVars, sim>>

-----------------------------------------------------------------------------
\* The simulation is over.
Stopped == sim # "running" /\ UNCHANGED vars

HartStep(h, t) ==
  \/ FetchMiss(h, t)
  \/ Stall(h, t)
  \/ \E load \in BOOLEAN : Execute(h, t, load)
  \/ Return(h, t)
  \/ Spin(h, t)
  \/ \E u \in Threads, i \in TIDs : ECALL_pthread_create(h, t, u, i)
  \/ \E i \in TIDs : ECALL_pthread_join(h, t, i)
  \/ ECALL_exit(h, t)

clockTick ==
  \/ \E h \in Harts : AssignThread(h)
  \/ NothingToAssign
  \/ \E h \in Harts, t \in Threads : HartStep(h, t)
  \/ NotClocked
  \/ \E t \in Threads : HandleDone(t) \/ HandleBlocked(t) \/ HandleStart(t)
  \/ FinishCore
  \/ EndTick
  \/ StartCheck
  \/ CheckBlockedThreads
  \/ CheckDone

Next ==
  \/ clockTick
  \/ \E t \in Threads : MarkLoadComplete(t) \/ MarkInstructionLoadComplete(t)
  \/ Stopped

Spec == Init /\ [][Next]_vars

\* The clock keeps ticking, and the memory system answers every request.  An
\* answer can only be delivered between ticks, hence strong fairness.
FairSpec ==
  /\ Spec
  /\ WF_vars(clockTick)
  /\ \A t \in Threads : /\ SF_vars(MarkLoadComplete(t))
                        /\ SF_vars(MarkInstructionLoadComplete(t))

-----------------------------------------------------------------------------
(* Properties.                                                             *)

Created == {t \in Threads : State[t] # "NONE"}
Ready == Range(ReadyThreads)
Blocked == Range(BlockedThreads)
OnHarts == {Thread[c][h] : c \in Cores, h \in Harts} \ {NoThread}
InFlight == UNION {Range(ThreadsThatChangedState[c]) : c \in Cores}

\* The bitset IdleHarts (what AssignThread, HasIdleHart, HasNoBusyHarts and
\* UpdateStatusOfHarts read) agrees with the harts: a hart is idle exactly when
\* its RevThread and register file pointers are null.
IdleAgrees ==
  \A c \in Cores, h \in Harts : h \in IdleHarts[c] <=> Thread[c][h] = NoThread

\* A core is clocked exactly when one of its harts has a thread, so ClockTick
\* never works on the register file of a thread that has left the core.  Only
\* between a pop and the end of the core's turn the flag lags behind.
EnabledAgrees ==
  \A c \in Cores :
    \/ c = core /\ phase = "handle"
    \/ Enabled[c] <=> ~HasNoBusyHarts(c)

\* No queue holds a thread twice, no two harts share one, and a core hands over
\* at most one changed thread per tick.
HeldOnce ==
  /\ IsInjective(ReadyThreads) /\ IsInjective(BlockedThreads)
  /\ \A c \in Cores : ThreadsThatChangedState[c] # <<>> =>
       c = core /\ phase = "handle" /\ Len(ThreadsThatChangedState[c]) = 1
  /\ \A c, d \in Cores, h, g \in Harts :
       Thread[c][h] = Thread[d][g] /\ Thread[c][h] # NoThread => c = d /\ h = g

\* Where a thread is says which states it can be in.  In particular the switch of
\* HandleThreadStateChangesForProc only sees threads that started, blocked or
\* finished: its fatal branches and the one that drops a running thread are
\* unreachable.
PlaceFitsState ==
  \A t \in Threads :
    /\ t \in Ready => State[t] \in {"READY", "BLOCKED"}
    /\ t \in Blocked => State[t] = "BLOCKED"
    /\ t \in CompletedThreads => State[t] = "DONE"
    /\ t \in OnHarts => State[t] = "RUNNING"
    /\ t \in InFlight => State[t] \in {"START", "BLOCKED", "DONE"}

\* The places that one state allows exclude each other.
NotTwice ==
  \A t \in Threads :
    /\ ~(t \in Ready /\ t \in Blocked)
    /\ t \in InFlight => t \notin Ready \cup Blocked \cup CompletedThreads

\* A created thread is somewhere.
NotLost ==
  \A t \in Threads :
    /\ State[t] = "START" => t \in InFlight
    /\ State[t] = "READY" => t \in Ready
    /\ State[t] = "RUNNING" => t \in OnHarts
    /\ State[t] = "BLOCKED" =>
         t \in InFlight \/ t \in Blocked \cup Ready
    /\ State[t] = "DONE" => t \in InFlight \/ t \in CompletedThreads

\* A thread that exists is in exactly one place, once, and in one that fits its
\* state: the unique_ptr is moved from queue to hart to ThreadsThatChangedState
\* and back, and no move of AssignThread, PopThread,
\* HandleThreadStateChangesForProc or CheckBlockedThreads loses it or leaves a
\* copy.
OnePlace == HeldOnce /\ PlaceFitsState /\ NotTwice /\ NotLost

\* MarkLoadComplete clears a scoreboard bit in the register file of the hart
\* that issued the load.  The thread is still on that hart: neither a join nor
\* the end of a thread takes it off with a load outstanding.
LoadsOnHart == \A t \in Threads : dep[t] => t \in OnHarts

\* A thread that has joined another one runs again, or is queued to run, only
\* when every thread with the ID it waited for has finished.
JoinSafe ==
  \A t \in Threads : t \in Ready \/ t \in OnHarts =>
    \A u \in Created : WaitingToJoinTID[t] # NoTID /\ ID[u] = WaitingToJoinTID[t]
                       => State[u] = "DONE"

\* primaryComponentOKToEndSim is called only when every thread ever created is
\* among CompletedThreads.
NoEarlyEnd == sim = "ended" => Created \subseteq CompletedThreads

\* A program whose threads are finite and join only their own children ends.
Termination == <>(sim # "running")

\* A thread blocked in a join of its own child gets a hart again.
BlockedResumes ==
  \A t \in Threads : State[t] = "BLOCKED" ~> State[t] # "BLOCKED" \/ sim # "running"

\* No two threads share an ID.
ThreadIDsDiffer == \A t, u \in Created : ID[t] = ID[u] => t = u

-----------------------------------------------------------------------------
(* Refinement: the queues and harts implement the life of a thread.  A     *)
(* thread that CheckBlockedThreads has put back into ReadyThreads still    *)
(* carries the BLOCKED state, so the queue decides and not the label.      *)

Stage(t) ==
  CASE State[t] = "NONE" -> "none"
    [] State[t] \in {"START", "READY"} -> "runnable"
    [] State[t] = "RUNNING" -> "running"
    [] State[t] = "DONE" -> "done"
    [] State[t] = "BLOCKED" ->
         IF t \in Ready THEN "runnable" ELSE "waiting"

Life == INSTANCE ThreadLife WITH
  stage <- [t \in Threads |-> Stage(t)],
  id <- ID,
  waitFor <- WaitingToJoinTID,
  over <- sim # "running"

\* With thread IDs that do not repeat, every step of the scheduler is a step of
\* a thread's life or invisible to the program.
ImplementsThreadLife == Life!LifeSpec

=============================================================================
