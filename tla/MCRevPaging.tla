---------------------------- MODULE MCRevPaging ----------------------------
(***************************************************************************)
(* An instance of RevPaging: three pages of two bytes on a memory of two,  *)
(* and a TLB that holds two of the six addresses.                          *)
(***************************************************************************)
EXTENDS RevPaging, TLC

MCLens == {1, 2}
MCValues == {0, 1}

\* Page 0, and page 1 with the first byte of page 2
MCRegions == {{0} \X Offsets, ({1} \X Offsets) \cup {<<2, 0>>}}

=============================================================================
