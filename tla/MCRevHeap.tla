----------------------------- MODULE MCRevHeap -----------------------------
(***************************************************************************)
(* Instances of RevHeap: a heap of a few bytes.                            *)
(***************************************************************************)
EXTENDS RevHeap, TLC

MCSizes == {1, 2, 3}
MCFixedAddrs == {5, 6}

=============================================================================
