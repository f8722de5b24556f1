----------------------------- MODULE ThreadLife -----------------------------
(***************************************************************************)
(* What Rev promises to a multi-threaded program, without cores, harts,    *)
(* queues or cycles: the life of a thread as the ThreadState comment of    *)
(* common/include/RevCommon.h tells it.  RevThreads implements this.       *)
(***************************************************************************)
EXTENDS Naturals

CONSTANTS Threads, MainThread, MaxTID

VARIABLES
  stage,    \* where a thread is in its life
  id,       \* its thread ID
  waitFor,  \* the ID it joined last, 0 for none
  over      \* the simulation has ended

lifeVars == <<stage, id, waitFor, over>>

Stages == {"none", "runnable", "running", "waiting", "done"}

LifeTypeOK ==
  /\ stage \in [Threads -> Stages]
  /\ id \in [Threads -> 0 .. MaxTID]
  /\ waitFor \in [Threads -> 0 .. MaxTID]
  /\ over \in BOOLEAN

LifeInit ==
  /\ stage = [t \in Threads |-> IF t = MainThread THEN "runnable" ELSE "none"]
  /\ id = [t \in Threads |-> IF t = MainThread THEN 1 ELSE 0]
  /\ waitFor = [t \in Threads |-> 0]
  /\ over = FALSE

Move(t, from, to) ==
  /\ stage[t] = from
  /\ stage' = [stage EXCEPT ![t] = to]

\* A running thread creates another, with an ID no thread has.
Create(t, u, i) ==
  /\ stage[t] = "running"
  /\ Move(u, "none", "runnable")
  /\ i # 0 /\ \A v \in Threads : stage[v] # "none" => id[v] # i
  /\ id' = [id EXCEPT ![u] = i]
  /\ UNCHANGED <<waitFor, over>>

Dispatch(t) == Move(t, "runnable", "running") /\ UNCHANGED <<id, waitFor, over>>

Join(t, i) ==
  /\ Move(t, "running", "waiting")
  /\ waitFor' = [waitFor EXCEPT ![t] = i]
  /\ UNCHANGED <<id, over>>

\* A join returns when the thread it names is done; ID 0 names no thread.
Wake(t) ==
  /\ Move(t, "waiting", "runnable")
  /\ waitFor[t] = 0 \/ \E u \in Threads : stage[u] = "done" /\ id[u] = waitFor[t]
  /\ UNCHANGED <<id, waitFor, over>>

Finish(t) == Move(t, "running", "done") /\ UNCHANGED <<id, waitFor, over>>

\* The simulation ends when nothing is left to do, or when a thread exits.
End ==
  /\ ~over
  /\ \/ \A t \in Threads : stage[t] \in {"none", "done"}
     \/ \E t \in Threads : stage[t] = "running"
  /\ over' = TRUE
  /\ UNCHANGED <<stage, id, waitFor>>

LifeNext ==
  \/ \E t, u \in Threads, i \in 1 .. MaxTID : Create(t, u, i)
  \/ \E t \in Threads : Dispatch(t) \/ Wake(t) \/ Finish(t)
  \/ \E t \in Threads, i \in 0 .. MaxTID : Join(t, i)
  \/ End

LifeSpec == LifeInit /\ [][~over /\ LifeNext]_lifeVars
=============================================================================
