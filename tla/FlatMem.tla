------------------------------ MODULE FlatMem ------------------------------
(***************************************************************************)
(* What the loads and stores of a program see of RevMem: one flat array of *)
(* bytes, zero at first, and a fault for what no segment holds.  RevPaging *)
(* implements this.                                                        *)
(***************************************************************************)
EXTENDS Naturals, Sequences

CONSTANTS
  Addrs,     \* the addresses of bytes
  Accesses,  \* the bytes that a load or store touches, in order
  Values,    \* what a byte can hold
  Zero

VARIABLES
  allocated,  \* the bytes that belong to a segment
  bytes,      \* memory
  loaded,     \* what the last load returned
  faulted

flatVars == <<allocated, bytes, loaded, faulted>>

FlatInit ==
  /\ allocated \subseteq Addrs
  /\ bytes = [v \in Addrs |-> Zero]
  /\ loaded = <<>>
  /\ faulted = FALSE

Contents(s) == [i \in DOMAIN s |-> bytes[s[i]]]

\* Memory with d written to the bytes of s
Update(s, d) ==
  [v \in Addrs |-> IF \E i \in DOMAIN s : s[i] = v
                     THEN d[CHOOSE i \in DOMAIN s : s[i] = v]
                     ELSE bytes[v]]

InMemory(s) == \A i \in DOMAIN s : s[i] \in Addrs

Load(s) ==
  /\ InMemory(s)
  /\ loaded' = Contents(s)
  /\ UNCHANGED <<allocated, bytes, faulted>>

Store(s, d) ==
  /\ InMemory(s)
  /\ bytes' = Update(s, d)
  /\ UNCHANGED <<allocated, loaded, faulted>>

\* A read and a write of the same bytes with nothing in between
Exchange(s, d) ==
  /\ InMemory(s)
  /\ loaded' = Contents(s)
  /\ bytes' = Update(s, d)
  /\ UNCHANGED <<allocated, faulted>>

\* Segments come and go; what they hold stays.
Resize == allocated' \subseteq Addrs /\ UNCHANGED <<bytes, loaded, faulted>>

\* Only an access to a byte of no segment faults.
Fault(s) ==
  /\ \E i \in DOMAIN s : s[i] \notin allocated
  /\ faulted' = TRUE
  /\ UNCHANGED <<allocated, bytes, loaded>>

FlatNext ==
  \/ \E s \in Accesses : Load(s) \/ Fault(s)
  \/ \E s \in Accesses : \E d \in [DOMAIN s -> Values] : Store(s, d) \/ Exchange(s, d)
  \/ Resize

FlatSpec == FlatInit /\ [][~faulted /\ FlatNext]_flatVars
=============================================================================
