---------------------------- MODULE MCLRSCLock ----------------------------
(***************************************************************************)
(* Two harts of one core and the first hart of another, which has the same *)
(* number as the first of these; the lock and two other words, which one   *)
(* store may write together.                                               *)
(***************************************************************************)
EXTENDS LRSCLock

CONSTANTS h1, h2, h3

MCHarts == {h1, h2, h3}
MCHartID == [h \in MCHarts |-> IF h = h2 THEN 1 ELSE 0]
MCAddrs == {1, 2, 3}
MCValues == {0, 1}
MCLens == {1, 2}
MCLock == 1

=============================================================================
