----------------------------- MODULE LRSCLock -----------------------------
(***************************************************************************)
(* Harts that share a lock through load-reserved and store-conditional:    *)
(* RevReservations composed with the harts that run                        *)
(*                                                                         *)
(*    acquire:  lr.w  rd, (Lock)                                           *)
(*              bnez  rd, acquire                                          *)
(*              sc.w  rd, one, (Lock)                                      *)
(*              bnez  rd, acquire                                          *)
(*              ... critical section ...                                   *)
(*              sw    zero, (Lock)                                         *)
(*              j     acquire                                              *)
(*                                                                         *)
(* An instruction that names a register with an entry in LSQueue waits     *)
(* (DependencyCheck).  The program reloads what it keeps in the registers  *)
(* behind rd, which a successful SCBase clears along with rd.  The words   *)
(* other than Lock are data that the critical section and other devices of *)
(* the machine write; futures are set on any word at any time.             *)
(***************************************************************************)
EXTENDS RevReservations

CONSTANT Lock
ASSUME LockAssumption == Lock \in Addrs

VARIABLE pc

vars == <<memVars, pc>>

\* Every variable has its type, and FutureRes is kept sorted by SetFuture.
TypeOK == MemTypeOK /\ pc \in [Harts -> {"LR", "BNEZ_LR", "SC", "BNEZ_SC", "CS"}]

Init == MemInit /\ pc = [h \in Harts |-> "LR"]

GoTo(h, l) == pc' = [pc EXCEPT ![h] = l]

\* The registers of the next instruction are free.
Ready(h, l) == pc[h] = l /\ h \notin LSQueue

LR(h) ==
  /\ Ready(h, "LR")
  /\ LRBase(h, Lock) \/ LRBaseFails(h, Lock)
  /\ GoTo(h, "BNEZ_LR")

BnezLR(h) ==
  /\ Ready(h, "BNEZ_LR")
  /\ GoTo(h, IF rd[h] # 0 THEN "LR" ELSE "SC")
  /\ UNCHANGED memVars

SC(h) ==
  /\ Ready(h, "SC")
  /\ SCBase(h, Lock, 1) \/ SCBaseFails(h, Lock)
  /\ GoTo(h, "BNEZ_SC")

BnezSC(h) ==
  /\ Ready(h, "BNEZ_SC")
  /\ GoTo(h, IF rd[h] # 0 THEN "LR" ELSE "CS")
  /\ UNCHANGED memVars

Work(h) ==
  /\ Ready(h, "CS")
  /\ \E a \in Addrs, n \in Lens :
       /\ Covers(a, n) \subseteq Addrs \ {Lock}
       /\ \E d \in Data(n) : Store(a, n, d)
  /\ UNCHANGED pc

Release(h) ==
  /\ Ready(h, "CS")
  /\ Store(Lock, 1, OneWord(0))
  /\ GoTo(h, "LR")

Answer(h) ==
  /\ \/ ReadLock(h, Lock)
     \/ \E v \in Values : MarkLoadComplete(h, Lock, v)
  /\ UNCHANGED pc

Future ==
  /\ \E a \in Addrs : SetFuture(a) \/ RevokeFuture(a)
  /\ UNCHANGED pc

Next ==
  \/ Future
  \/ \E h \in Harts :
       LR(h) \/ BnezLR(h) \/ SC(h) \/ BnezSC(h) \/ Work(h) \/ Release(h) \/ Answer(h)

Spec == Init /\ [][Next]_vars

-----------------------------------------------------------------------------
(* Properties.                                                             *)

\* Two harts are never in the critical section: an address that one hart has
\* reserved cannot be reserved by another until the first one's SC has stored, even
\* when the value of the LR comes late.
MutualExclusion ==
  \A g, h \in Harts : pc[g] = "CS" /\ pc[h] = "CS" => g = h

\* A hart that waits for its LR has the load under way or was refused: no answer
\* is lost, and none comes to a register that was not waiting.
LoadsExact ==
  /\ \A r \in reads : r[1] \in LSQueue
  /\ \A h \in LSQueue : rd[h] = 1 \/ \E r \in reads : r[1] = h
=============================================================================
