-------------------------- MODULE RevReservations --------------------------
(***************************************************************************)
(* Load-reserved, store-conditional and futures: LRSC and FutureRes of     *)
(* RevMem (src/RevMem.cc) as the instructions of RV32A.h and RV64A.h use   *)
(* them, over a memory of words that RevPaging implements.  SeedInstTable  *)
(* enables no instruction that uses futures (RV64P.h): they are the        *)
(* interface of RevMem to whoever calls it.                                *)
(*                                                                         *)
(* An entry of LRSC holds the number of the hart in its core, the address  *)
(* and the register the load was for; aq and rl are stored and never read. *)
(* The value of a load-reserved comes later when a memory controller is    *)
(* configured: it is read from memory in one step and reaches the register *)
(* in another.  A store takes effect at once, because a load that is sent  *)
(* later sees it (ReadsLatest of RevMemCtrl, at the default limits).  The  *)
(* test that a store-conditional makes,                                    *)
(*    A = OR of (register rd + i of the load) << i,  B = the same of rs2,  *)
(*    (A & B) = 0 fails,                                                   *)
(* reads registers that these instructions do not name, so its outcome is  *)
(* left open.                                                              *)
(***************************************************************************)
EXTENDS Integers, Sequences, FiniteSets, TLC, StdContainers

CONSTANTS
  Harts,
  HartID,  \* the number GetHartToExecID returns: that of the hart in its core
  Addrs,
  Values,  \* what a word holds, 0 and 1 among them
  Lens,    \* how many words a store may write
  NoValue  \* no value has come from memory

ASSUME HartIDAssumption == HartID \in [Harts -> Nat]
ASSUME AddrAssumption == Addrs \subseteq Nat
ASSUME WordAssumption == {0, 1} \subseteq Values /\ NoValue \notin Values
ASSUME LenAssumption == Lens \subseteq Nat \ {0} /\ 1 \in Lens

VARIABLES
  mem,
  LRSC,
  FutureRes,
  rd,       \* the register of each hart that LR and SC write
  LSQueue,  \* the harts with an entry for that register
  reads     \* the loads under way: hart, address, and the value once it was read

memVars == <<mem, LRSC, FutureRes, rd, LSQueue, reads>>

\* FutureRes is sorted and has no address twice, so that one RevokeFuture, or one
\* store, is enough to end a future.
MemTypeOK ==
  /\ mem \in [Addrs -> Values]
  /\ LRSC \in Seq([Hart : Nat, Addr : Addrs, Target : Harts])
  /\ FutureRes \in Seq(Addrs)
  /\ \A i, j \in DOMAIN FutureRes : i < j => FutureRes[i] < FutureRes[j]
  /\ rd \in [Harts -> Values]
  /\ LSQueue \subseteq Harts
  /\ reads \subseteq Harts \X Addrs \X (Values \cup {NoValue})

MemInit ==
  /\ mem = [a \in Addrs |-> 0]
  /\ LRSC = <<>>
  /\ FutureRes = <<>>
  /\ rd = [h \in Harts |-> 0]
  /\ LSQueue = {}
  /\ reads = {}

-----------------------------------------------------------------------------
(* Futures.                                                                *)

Futures == {FutureRes[i] : i \in DOMAIN FutureRes}

\* The elements of S, in order, each once.
Sorted(S) ==
  CHOOSE s \in [1 .. Cardinality(S) -> S] :
    \A i, j \in DOMAIN s : i < j => s[i] < s[j]

\* Variant: std::unique is left out.
SetFutureTwice(a) ==
  /\ FutureRes' = SortSeq(Append(FutureRes, a), <=)
  /\ UNCHANGED <<mem, LRSC, rd, LSQueue, reads>>

SetFuture(a) ==
  /\ FutureRes' = Sorted(Futures \cup {a})
  /\ UNCHANGED <<mem, LRSC, rd, LSQueue, reads>>

\* What is left of FutureRes: the first equal entry is erased.
Revoked(a) ==
  IF a \in Futures
    THEN Erase(FutureRes, CHOOSE i \in DOMAIN FutureRes :
                 FutureRes[i] = a /\ \A j \in 1 .. i - 1 : FutureRes[j] # a)
    ELSE FutureRes

RevokeFuture(a) ==
  /\ FutureRes' = Revoked(a)
  /\ UNCHANGED <<mem, LRSC, rd, LSQueue, reads>>

StatusFuture(a) == a \in Futures

-----------------------------------------------------------------------------
(* Stores and reservations.                                                *)

Covers(a, n) == a .. a + n - 1

Data(n) == [0 .. n - 1 -> Values]

\* Variant: a store leaves futures alone.
WriteMemKeepsFuture(a, n, d) ==
  /\ mem' = [x \in Addrs |-> IF x \in Covers(a, n) THEN d[x - a] ELSE mem[x]]
  /\ UNCHANGED FutureRes

\* A store of n words revokes the future at the address it starts at, whatever
\* other futures it covers, and no reservation.
WriteMem(a, n, d) ==
  /\ mem' = [x \in Addrs |-> IF x \in Covers(a, n) THEN d[x - a] ELSE mem[x]]
  /\ FutureRes' = Revoked(a)

OneWord(v) == [i \in {0} |-> v]

Store(a, n, d) ==
  /\ WriteMem(a, n, d)
  /\ UNCHANGED <<LRSC, rd, LSQueue, reads>>

\* Variant: only the hart's own reservation counts.
ReservedOwn(h, a) == \E i \in DOMAIN LRSC : LRSC[i].Addr = a /\ LRSC[i].Hart = HartID[h]

\* LRBase refuses an address that is reserved, by this hart or another.
Reserved(h, a) == \E i \in DOMAIN LRSC : LRSC[i].Addr = a

\* The instruction puts its register in LSQueue; nothing removes it again when
\* LRBase fails.
LRBaseFails(h, a) ==
  /\ Reserved(h, a)
  /\ rd' = [rd EXCEPT ![h] = 1]
  /\ LSQueue' = LSQueue \cup {h}
  /\ UNCHANGED <<mem, LRSC, FutureRes, reads>>

LRBase(h, a) ==
  /\ ~Reserved(h, a)
  /\ LRSC' = Append(LRSC, [Hart |-> HartID[h], Addr |-> a, Target |-> h])
  /\ LSQueue' = LSQueue \cup {h}
  /\ reads' = reads \cup {<<h, a, NoValue>>}
  /\ UNCHANGED <<mem, FutureRes, rd>>

\* The memory system reads the word, and later answers.
ReadLock(h, a) ==
  /\ <<h, a, NoValue>> \in reads
  /\ reads' = (reads \ {<<h, a, NoValue>>}) \cup {<<h, a, mem[a]>>}
  /\ UNCHANGED <<mem, LRSC, FutureRes, rd, LSQueue>>

\* Variant: the entry of LSQueue stays.
MarkLoadCompleteKeepsEntry(h, a, v) ==
  /\ <<h, a, v>> \in reads
  /\ rd' = [rd EXCEPT ![h] = v]
  /\ reads' = reads \ {<<h, a, v>>}
  /\ UNCHANGED <<mem, LRSC, FutureRes, LSQueue>>

MarkLoadComplete(h, a, v) ==
  /\ <<h, a, v>> \in reads
  /\ rd' = [rd EXCEPT ![h] = v]
  /\ LSQueue' = LSQueue \ {h}
  /\ reads' = reads \ {<<h, a, v>>}
  /\ UNCHANGED <<mem, LRSC, FutureRes>>

\* The entries SCBase accepts; it takes the first.
Matches(h, a) ==
  {i \in DOMAIN LRSC : LRSC[i].Hart = HartID[h] /\ LRSC[i].Addr = a}

\* No reservation, or the test of the registers fails: the reservation stays.
SCBaseFails(h, a) ==
  /\ rd' = [rd EXCEPT ![h] = 1]
  /\ UNCHANGED <<mem, LRSC, FutureRes, LSQueue, reads>>

SCBase(h, a, v) ==
  \E i \in Matches(h, a) :
    /\ \A j \in Matches(h, a) : i <= j
    /\ WriteMem(a, 1, OneWord(v))
    /\ rd' = [rd EXCEPT ![h] = 0]
    /\ LRSC' = Erase(LRSC, i)
    /\ UNCHANGED <<LSQueue, reads>>

-----------------------------------------------------------------------------
(* Properties.                                                             *)

\* An address has at most one reservation, whichever hart holds it: LRBase looks
\* for a colliding entry before it adds one, and SCBase erases the one it used.
OneReservation ==
  \A i, j \in DOMAIN LRSC : LRSC[i].Addr = LRSC[j].Addr => i = j

\* What a future tells a program that polls it.  A word that changes under a future
\* that stays pending was stored to from a lower address: RevokeFuture compares the
\* start of a store only.  And a future that ends was revoked, or its word stored to:
\* no other store or future ends it, however often it was set before.
StoreEndsFuture ==
  [][\A a \in Addrs :
       /\ mem'[a] # mem[a] /\ StatusFuture(a)' =>
            \E b \in Addrs, n \in Lens :
              b < a /\ a \in Covers(b, n) /\ \E d \in Data(n) : WriteMem(b, n, d)
       /\ StatusFuture(a) /\ ~StatusFuture(a)' =>
            RevokeFuture(a) \/ \E n \in Lens : \E d \in Data(n) : WriteMem(a, n, d)]_memVars

=============================================================================
