--------------------------- MODULE StdContainers ---------------------------
(***************************************************************************)
(* Operations of std::vector and std::list, on sequences.                  *)
(***************************************************************************)
EXTENDS Integers, Sequences

\* erase of the element at an iterator
Erase(s, i) == SubSeq(s, 1, i - 1) \o SubSeq(s, i + 1, Len(s))

\* push_front and pop_back
PushFront(s, e) == <<e>> \o s
PopBack(s) == SubSeq(s, 1, Len(s) - 1)

=============================================================================
