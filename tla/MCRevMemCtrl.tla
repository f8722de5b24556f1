---------------------------- MODULE MCRevMemCtrl ----------------------------
(***************************************************************************)
(* Instances of RevMemCtrl: two harts, two cache lines, and the kinds of   *)
(* request a core sends.                                                   *)
(***************************************************************************)
EXTENDS RevMemCtrl, TLC

CONSTANTS h1, h2

MCLines == {1, 2}

\* As many requests of a kind as operations in a cycle, and fewer stores.
MCLimits == {[k \in Kinds |-> 2], [k \in Kinds |-> IF k = "WRITE" THEN 1 ELSE 2]}

Plain(hart, kind, at) ==
  [hart |-> hart, kind |-> kind, at |-> at,
   aq |-> FALSE, rl |-> FALSE]

\* Loads, stores and flushes of one line or two, and fences.
MCPlain ==
  {Plain(h1, k, at) : k \in {"READ", "WRITE"}, at \in {{1}, {1, 2}}}
    \cup {Plain(h1, "FLUSH", {1, 2}), Plain(h1, "FENCE", {})}

\* AMOs of two harts, with acquire or release or both.
MCAtomics ==
  {[Plain(h1, "AMO", {1}) EXCEPT !.aq = TRUE], [Plain(h1, "AMO", {1}) EXCEPT !.rl = TRUE],
   [Plain(h2, "AMO", {1}) EXCEPT !.aq = TRUE, !.rl = TRUE]}

MCRequests == MCPlain \cup MCAtomics
=============================================================================
