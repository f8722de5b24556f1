---------------------------- MODULE MCRevThreads ----------------------------
(***************************************************************************)
(* TLC instances of RevThreads.  Threads other than the main thread are    *)
(* interchangeable.                                                        *)
(***************************************************************************)
EXTENDS RevThreads, TLC

Symmetry == Permutations(Threads \ {MainThread})
=============================================================================
