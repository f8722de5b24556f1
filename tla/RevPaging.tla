----------------------------- MODULE RevPaging -----------------------------
(***************************************************************************)
(* The internal memory of RevMem (src/RevMem.cc): physical memory, the     *)
(* page map that assigns a physical page to a virtual one on first touch,  *)
(* the TLB in front of it, and the reads, writes and AMOs that go through  *)
(* them, over the end of a page if need be.                                *)
(*                                                                         *)
(* An address is a pair of a page number and an offset in the page, as     *)
(* addrShift splits it.  The segments are abstracted to the set of         *)
(* addresses isValidVirtAddr accepts (RevHeap models them).  Every access  *)
(* is one step: RevMem is called by one instruction at a time and returns  *)
(* when it is done.  A segmentation fault ends the simulation.             *)
(*                                                                         *)
(* Nothing compares nextPage with the size of memory.  An access to a      *)
(* physical page that is not there is undefined: it sets overrun, and the  *)
(* model says nothing of what follows.  Memory has at most 4 GB, because   *)
(* the code shifts the number of a physical page in 32 bits.  Left out:    *)
(* futures, which WriteMem revokes, and the counters of memStats.          *)
(***************************************************************************)
EXTENDS Integers, Sequences, FiniteSets, Functions, StdContainers

CONSTANTS
  NumVPages, \* of the addresses a program may use
  NumPages,  \* memSize / pageSize
  pageSize,
  tlbSize,
  Lens,      \* lengths of loads and stores
  Values,    \* what a byte can hold
  Zero,      \* what the constructor fills memory with
  Regions    \* what AllocMem, DeallocMem and their callers add and remove

Pages == 0 .. NumVPages - 1
PhysPages == 0 .. NumPages - 1
Offsets == 0 .. pageSize - 1
Addrs == Pages \X Offsets
PhysAddrs == PhysPages \X Offsets

\* No access is longer than a page: the code looks for one page end only.
ASSUME SizeAssumption ==
  /\ NumVPages \in Nat /\ NumPages \in Nat
  /\ pageSize \in Nat \ {0} /\ Lens \subseteq 1 .. pageSize
ASSUME TLBAssumption == tlbSize \in Nat \ {0}
ASSUME ValueAssumption == Zero \in Values
ASSUME RegionAssumption == \A r \in Regions : r \subseteq Addrs

VARIABLES
  valid,     \* isValidVirtAddr
  pageMap,   \* physical page of a virtual page that has been touched
  nextPage,  \* the next physical page to be used
  TLB,       \* physical address of a virtual address
  LRUQueue,  \* the addresses in the TLB, the one used last in front
  physMem,
  data,      \* what the last load returned
  halted,    \* a segmentation fault has ended the simulation
  overrun    \* an access went to a physical page that is not there

transVars == <<pageMap, nextPage, TLB, LRUQueue>>
vars == <<valid, transVars, physMem, data, halted, overrun>>

PartialFunctions(S, T) == UNION {[D -> T] : D \in SUBSET S}
EmptyMap == [x \in {} |-> x]

TypeOK ==
  /\ valid \subseteq Addrs
  /\ pageMap \in PartialFunctions(Pages, Nat)
  /\ nextPage \in Nat
  /\ TLB \in PartialFunctions(Addrs, Nat \X Offsets)
  /\ LRUQueue \in Seq(Addrs)
  /\ physMem \in [PhysAddrs -> Values]
  /\ data \in Seq(Values)
  /\ halted \in BOOLEAN /\ overrun \in BOOLEAN

Init ==
  /\ valid \in Regions
  /\ pageMap = EmptyMap
  /\ nextPage = 0
  /\ TLB = EmptyMap
  /\ LRUQueue = <<>>
  /\ physMem = [p \in PhysAddrs |-> Zero]
  /\ data = <<>>
  /\ halted = FALSE /\ overrun = FALSE

-----------------------------------------------------------------------------
(* Translation.  One access may translate two addresses, so these are      *)
(* functions of the translation state m.                                   *)

Translation ==
  [pageMap |-> pageMap, nextPage |-> nextPage, TLB |-> TLB, LRUQueue |-> LRUQueue]

\* f with x mapped to y
Put(f, x, y) == [z \in DOMAIN f \cup {x} |-> IF z = x THEN y ELSE f[z]]

\* Variant: the old place in the queue is not given up.
SearchTLBWithoutErase(m, vAddr) == [m EXCEPT !.LRUQueue = PushFront(@, vAddr)]

\* A hit moves the address to the front.
SearchTLB(m, vAddr) ==
  LET it == CHOOSE i \in DOMAIN m.LRUQueue : m.LRUQueue[i] = vAddr
  IN  [m EXCEPT !.LRUQueue = PushFront(Erase(@, it), vAddr)]

\* After a miss: the address used least recently makes room.
AddToTLB(m, vAddr, physAddr) ==
  LET kept == IF Len(m.LRUQueue) = tlbSize THEN PopBack(m.LRUQueue) ELSE m.LRUQueue
  IN  [m EXCEPT !.LRUQueue = PushFront(kept, vAddr),
                !.TLB = Put(Restrict(m.TLB, Range(kept)), vAddr, physAddr)]

\* Variant: the next page is not counted.
FirstTouchUncounted(m, pageNum) ==
  IF pageNum \in DOMAIN m.pageMap
    THEN m ELSE [m EXCEPT !.pageMap = Put(@, pageNum, m.nextPage)]

\* The first touch of a page takes the next physical page.
FirstTouch(m, pageNum) ==
  IF pageNum \in DOMAIN m.pageMap
    THEN m
    ELSE [m EXCEPT !.pageMap = Put(@, pageNum, m.nextPage), !.nextPage = @ + 1]

\* Whether CalcPhysAddr returns: an address in the TLB is not looked at again.
Translates(m, vAddr) == vAddr \in DOMAIN m.TLB \/ vAddr \in valid

CalcPhysAddr(m, vAddr) ==
  IF vAddr \in DOMAIN m.TLB
    THEN SearchTLB(m, vAddr)
    ELSE LET t == FirstTouch(m, vAddr[1])
         IN  AddToTLB(t, vAddr, <<t.pageMap[vAddr[1]], vAddr[2]>>)

\* The address it returns
PhysAddr(m, vAddr) == CalcPhysAddr(m, vAddr).TLB[vAddr]

-----------------------------------------------------------------------------
(* The bytes of an access of n bytes at vAddr.                             *)

\* The access walks off the page; the first address of the next page.  (The code
\* compares with the end of the physical page pageMap[pageNum], which the
\* physical address is in: TLBExact.)
Crosses(vAddr, n) == vAddr[2] + n > pageSize
adjAddr(vAddr) == <<vAddr[1] + 1, 0>>

Faults(m, vAddr, n) ==
  \/ ~Translates(m, vAddr)
  \/ Crosses(vAddr, n) /\ ~Translates(CalcPhysAddr(m, vAddr), adjAddr(vAddr))

\* The translation state after the access
Walk(m, vAddr, n) ==
  IF Crosses(vAddr, n)
    THEN CalcPhysAddr(CalcPhysAddr(m, vAddr), adjAddr(vAddr))
    ELSE CalcPhysAddr(m, vAddr)

\* Variant: the second part of the data is not moved to the start of its page.
BaseMemFromCur(m, vAddr, n) ==
  LET physAddr    == PhysAddr(m, vAddr)
      adjPhysAddr == PhysAddr(CalcPhysAddr(m, vAddr), adjAddr(vAddr))
  IN  [i \in 1 .. n |-> IF i <= pageSize - vAddr[2]
                          THEN <<physAddr[1], physAddr[2] + i - 1>>
                          ELSE <<adjPhysAddr[1], adjPhysAddr[2] + i - 1>>]

\* The physical address of each byte: BaseMem[i], first from physAddr and then,
\* for the last "span" bytes, from adjPhysAddr
BaseMem(m, vAddr, n) ==
  LET physAddr    == PhysAddr(m, vAddr)
      adjPhysAddr == PhysAddr(CalcPhysAddr(m, vAddr), adjAddr(vAddr))
      first       == pageSize - vAddr[2]
  IN  [i \in 1 .. n |-> IF i <= first
                          THEN <<physAddr[1], physAddr[2] + i - 1>>
                          ELSE <<adjPhysAddr[1], adjPhysAddr[2] + i - first - 1>>]

\* A byte of the access is behind the end of physMem.
Overruns(m, vAddr, n) == \E i \in 1 .. n : BaseMem(m, vAddr, n)[i] \notin PhysAddrs

\* physMem with Data written to the bytes at s
Written(s, Data) ==
  [p \in PhysAddrs |-> IF \E i \in DOMAIN s : s[i] = p
                         THEN Data[CHOOSE i \in DOMAIN s : s[i] = p]
                         ELSE physMem[p]]

SetTranslation(m) ==
  /\ pageMap' = m.pageMap /\ nextPage' = m.nextPage
  /\ TLB' = m.TLB /\ LRUQueue' = m.LRUQueue

Running == ~halted /\ ~overrun

WriteMem(vAddr, n, Data) ==
  /\ Running
  /\ ~Faults(Translation, vAddr, n) /\ ~Overruns(Translation, vAddr, n)
  /\ SetTranslation(Walk(Translation, vAddr, n))
  /\ physMem' = Written(BaseMem(Translation, vAddr, n), Data)
  /\ UNCHANGED <<valid, data, halted, overrun>>

ReadMem(vAddr, n) ==
  LET s == BaseMem(Translation, vAddr, n)
  IN  /\ Running
      /\ ~Faults(Translation, vAddr, n) /\ ~Overruns(Translation, vAddr, n)
      /\ SetTranslation(Walk(Translation, vAddr, n))
      /\ data' = [i \in 1 .. n |-> physMem[s[i]]]
      /\ UNCHANGED <<valid, physMem, halted, overrun>>

\* AMOMem translates the address, then calls ReadMem and WriteMem; with a TLB of
\* one entry any of the three may be the one that faults.  What ApplyAMO computes
\* is left open.
AMOFaults(m, vAddr, n) ==
  LET m1 == CalcPhysAddr(m, vAddr)
  IN  \/ ~Translates(m, vAddr)
      \/ Faults(m1, vAddr, n)
      \/ ~Overruns(m1, vAddr, n) /\ Faults(Walk(m1, vAddr, n), vAddr, n)

AMOMem(vAddr, n, Data) ==
  LET m1 == CalcPhysAddr(Translation, vAddr)
      m2 == Walk(m1, vAddr, n)
      s  == BaseMem(m1, vAddr, n)
  IN  /\ Running
      /\ ~AMOFaults(Translation, vAddr, n) /\ ~Overruns(m1, vAddr, n)
      /\ SetTranslation(Walk(m2, vAddr, n))
      /\ data' = [i \in 1 .. n |-> physMem[s[i]]]
      /\ physMem' = Written(BaseMem(m2, vAddr, n), Data)
      /\ UNCHANGED <<valid, halted, overrun>>

\* The first or the second address of a load, a store or an AMO is in no segment.
SegmentationFault(vAddr, n) ==
  /\ Running
  /\ Faults(Translation, vAddr, n) \/ AMOFaults(Translation, vAddr, n)
  /\ halted' = TRUE
  /\ UNCHANGED <<valid, transVars, physMem, data, overrun>>

\* Both addresses are translated before a byte is moved.  (An AMO overruns in its
\* ReadMem, whose translation starts with a hit.)
Overrun(vAddr, n) ==
  /\ Running
  /\ ~Faults(Translation, vAddr, n) /\ Overruns(Translation, vAddr, n)
  /\ SetTranslation(Walk(Translation, vAddr, n))
  /\ overrun' = TRUE
  /\ UNCHANGED <<valid, physMem, data, halted>>

\* The segments change; the page map and the TLB do not.
AddSegment(r) ==
  /\ Running
  /\ valid' = valid \cup r
  /\ UNCHANGED <<transVars, physMem, data, halted, overrun>>

DeallocMem(r) ==
  /\ Running
  /\ valid' = valid \ r
  /\ UNCHANGED <<transVars, physMem, data, halted, overrun>>

Next ==
  \/ \E vAddr \in Addrs, n \in Lens :
       \/ \E Data \in [1 .. n -> Values] :
            WriteMem(vAddr, n, Data) \/ AMOMem(vAddr, n, Data)
       \/ ReadMem(vAddr, n)
       \/ SegmentationFault(vAddr, n)
       \/ Overrun(vAddr, n)
  \/ \E r \in Regions : AddSegment(r) \/ DeallocMem(r)

Spec == Init /\ [][Next]_vars

-----------------------------------------------------------------------------
(* Properties.                                                             *)

\* No two virtual pages share a physical one, and the pages handed out are below
\* nextPage: a first touch never aliases.  And none is wasted: although CalcPhysAddr
\* compares nextPage with nothing, an access goes behind the end of memory when the
\* program has touched more pages than memory has, and no earlier.
PagesApart ==
  /\ IsInjective(pageMap)
  /\ \A p \in DOMAIN pageMap : pageMap[p] < nextPage
  /\ overrun <=> NumPages < Cardinality(DOMAIN pageMap)

\* LRUQueue lists the entries of the TLB, each once, and at most tlbSize; and an
\* entry is what the page map says.  SearchTLB and AddToTLB keep the iterators
\* between the two, and nothing is flushed when the page map changes.
TLBExact ==
  /\ Range(LRUQueue) = DOMAIN TLB
  /\ IsInjective(LRUQueue)
  /\ Len(LRUQueue) <= tlbSize
  /\ \A a \in DOMAIN TLB :
       a[1] \in DOMAIN pageMap /\ TLB[a] = <<pageMap[a[1]], a[2]>>

-----------------------------------------------------------------------------
(* Refinement: a page that was not touched, or has no physical page, holds *)
(* zeros.                                                                  *)

Byte(vAddr) ==
  IF vAddr[1] \in DOMAIN pageMap /\ pageMap[vAddr[1]] \in PhysPages
    THEN physMem[<<pageMap[vAddr[1]], vAddr[2]>>]
    ELSE Zero

\* The addresses of the bytes of an access
Plus(vAddr, i) ==
  IF vAddr[2] + i < pageSize
    THEN <<vAddr[1], vAddr[2] + i>>
    ELSE <<vAddr[1] + 1, vAddr[2] + i - pageSize>>
Bytes(vAddr, n) == [i \in 1 .. n |-> Plus(vAddr, i - 1)]

Flat == INSTANCE FlatMem WITH
  Accesses <- {Bytes(vAddr, n) : vAddr \in Addrs, n \in Lens},
  allocated <- valid,
  bytes <- [vAddr \in Addrs |-> Byte(vAddr)],
  loaded <- data,
  faulted <- halted

\* Behind pages, TLB and page ends a program sees one flat memory: a load returns
\* what was last stored to each of its bytes, over page ends and evictions, and
\* faults only where no segment is, until memory has run out.
ImplementsFlatMem == Flat!FlatSpec

=============================================================================
