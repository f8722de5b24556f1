-------------------------- MODULE RevPagingProofs --------------------------
(***************************************************************************)
(* Proofs about RevPaging, for every size of memory, page, TLB and access: *)
(* the translation state stays sound through every access.                 *)
(***************************************************************************)
EXTENDS RevPaging, StdContainersProofs, FiniteSetTheorems

\* The provers a leaf that names none is given to, in this order.
USE SMTT(10), ZenonT(10), SMTT(60), Z3T(60)

-----------------------------------------------------------------------------
(* The invariant, as a predicate on a translation state.                   *)

Frame(m, v) == <<m.pageMap[v[1]], v[2]>>

MapOK(m) ==
  /\ m.nextPage \in Nat
  /\ m.pageMap = [p \in DOMAIN m.pageMap |-> m.pageMap[p]]
  /\ DOMAIN m.pageMap \subseteq Pages
  /\ \A p \in DOMAIN m.pageMap : m.pageMap[p] \in 0 .. m.nextPage - 1
  /\ \A p, q \in DOMAIN m.pageMap : m.pageMap[p] = m.pageMap[q] => p = q
  /\ m.nextPage = Cardinality(DOMAIN m.pageMap)

TLBOK(m) ==
  /\ m.LRUQueue \in Seq(Addrs)
  /\ IsInjective(m.LRUQueue)
  /\ Len(m.LRUQueue) <= tlbSize
  /\ m.TLB = [a \in DOMAIN m.TLB |-> m.TLB[a]]
  /\ Range(m.LRUQueue) = DOMAIN m.TLB
  /\ \A a \in DOMAIN m.TLB : a[1] \in DOMAIN m.pageMap /\ m.TLB[a] = Frame(m, a)

IsTranslation(m) ==
  m = [pageMap |-> m.pageMap, nextPage |-> m.nextPage, TLB |-> m.TLB,
       LRUQueue |-> m.LRUQueue]

Sound(m) == IsTranslation(m) /\ MapOK(m) /\ TLBOK(m)

\* t maps what m maps, and new pages to physical pages that m does not use.
Grows(m, t) ==
  /\ DOMAIN m.pageMap \subseteq DOMAIN t.pageMap
  /\ m.nextPage <= t.nextPage
  /\ \A p \in DOMAIN m.pageMap : t.pageMap[p] = m.pageMap[p]
  /\ \A p \in DOMAIN t.pageMap \ DOMAIN m.pageMap : t.pageMap[p] >= m.nextPage

\* If t hands out more pages than m, then the last one to page p.
Counted(m, t, p) == t.nextPage = m.nextPage \/ t.nextPage = t.pageMap[p] + 1

\* The physical pages handed out are there.
Fits(m) == m.nextPage <= NumPages

-----------------------------------------------------------------------------
(* Steps of CalcPhysAddr.                                                  *)

LEMMA AddrFacts ==
  ASSUME NEW a \in Addrs
  PROVE  a[1] \in Pages /\ a[2] \in Offsets /\ a = <<a[1], a[2]>>
BY DEF Addrs

\* No more physical pages are handed out than there are virtual ones.
LEMMA NextPageBound ==
  ASSUME NEW m, MapOK(m)
  PROVE  m.nextPage <= NumVPages
<1>1. NumVPages \in Nat
  BY SizeAssumption
<1>2. IsFiniteSet(Pages) /\ Cardinality(Pages) = NumVPages
  <2>1. IsFiniteSet(Pages)
        /\ Cardinality(Pages) = IF 0 > NumVPages - 1 THEN 0 ELSE NumVPages - 1 - 0 + 1
    BY <1>1, FS_Interval DEF Pages
  <2> QED
    BY <1>1, <2>1
<1> QED
  BY <1>2, FS_Subset DEF MapOK

\* A first touch maps one page more, to a physical page of its own.
LEMMA FirstTouchFacts ==
  ASSUME NEW m, Sound(m), NEW p \in Pages
  PROVE  /\ Sound(FirstTouch(m, p))
         /\ Grows(m, FirstTouch(m, p))
         /\ p \in DOMAIN FirstTouch(m, p).pageMap
         /\ Counted(m, FirstTouch(m, p), p)
         /\ FirstTouch(m, p).TLB = m.TLB
         /\ FirstTouch(m, p).LRUQueue = m.LRUQueue
<1>1. CASE p \in DOMAIN m.pageMap
  <2>1. FirstTouch(m, p) = m
    BY <1>1 DEF FirstTouch
  <2>2. Grows(m, m) /\ Counted(m, m, p)
    BY DEF Grows, Counted, Sound, MapOK
  <2> QED
    BY <1>1, <2>1, <2>2
<1>2. CASE p \notin DOMAIN m.pageMap
  <2> DEFINE t == FirstTouch(m, p)
  <2>1. /\ t.pageMap = Put(m.pageMap, p, m.nextPage) /\ t.nextPage = m.nextPage + 1
        /\ t.TLB = m.TLB /\ t.LRUQueue = m.LRUQueue
        /\ IsTranslation(t)
    <3>1. t = [m EXCEPT !.pageMap = Put(@, p, m.nextPage), !.nextPage = @ + 1]
      BY <1>2 DEF FirstTouch
    <3>2. m = [pageMap |-> m.pageMap, nextPage |-> m.nextPage, TLB |-> m.TLB,
               LRUQueue |-> m.LRUQueue]
      BY DEF Sound, IsTranslation
    <3>3. t = [pageMap |-> Put(m.pageMap, p, m.nextPage),
               nextPage |-> m.nextPage + 1, TLB |-> m.TLB, LRUQueue |-> m.LRUQueue]
      BY Zenon, <3>1, <3>2
    <3> HIDE DEF t
    <3> QED
      BY <3>3 DEF IsTranslation
  <2> HIDE DEF t
  <2>2. /\ DOMAIN t.pageMap = DOMAIN m.pageMap \cup {p}
        /\ t.pageMap[p] = m.nextPage
        /\ \A q \in DOMAIN m.pageMap : t.pageMap[q] = m.pageMap[q]
        /\ t.pageMap = [q \in DOMAIN t.pageMap |-> t.pageMap[q]]
    BY <1>2, <2>1 DEF Put
  <2>3. IsFiniteSet(DOMAIN m.pageMap)
    <3>1. IsFiniteSet(Pages)
      BY FS_Interval, SizeAssumption DEF Pages
    <3> QED
      BY <3>1, FS_Subset DEF Sound, MapOK
  <2>4. t.nextPage = Cardinality(DOMAIN t.pageMap)
    BY <1>2, <2>1, <2>2, <2>3, FS_AddElement DEF Sound, MapOK
  <2>5. MapOK(t)
    <3>1. \A q \in DOMAIN t.pageMap : t.pageMap[q] \in 0 .. t.nextPage - 1
      BY <2>1, <2>2 DEF Sound, MapOK
    <3>2. \A q, r \in DOMAIN t.pageMap : t.pageMap[q] = t.pageMap[r] => q = r
      BY <2>2 DEF Sound, MapOK
    <3> QED
      BY <2>1, <2>2, <2>4, <3>1, <3>2 DEF Sound, MapOK
  <2>6. TLBOK(t)
    <3>1. \A a \in DOMAIN t.TLB : a[1] \in DOMAIN t.pageMap /\ t.TLB[a] = Frame(t, a)
      BY <2>1, <2>2 DEF Sound, TLBOK, Frame
    <3> QED
      BY <2>1, <3>1 DEF Sound, TLBOK
  <2>7. Grows(m, t) /\ Counted(m, t, p)
    BY <2>1, <2>2 DEF Grows, Counted, Sound, MapOK
  <2> QED
    BY <2>1, <2>2, <2>5, <2>6, <2>7 DEF Sound, t
<1> QED
  BY <1>1, <1>2

\* A hit reorders the queue and nothing else.
LEMMA SearchTLBFacts ==
  ASSUME NEW m, Sound(m), NEW a \in DOMAIN m.TLB
  PROVE  /\ Sound(SearchTLB(m, a))
         /\ SearchTLB(m, a).pageMap = m.pageMap
         /\ SearchTLB(m, a).nextPage = m.nextPage
         /\ SearchTLB(m, a).TLB = m.TLB
<1> DEFINE q == m.LRUQueue
           it == CHOOSE i \in DOMAIN q : q[i] = a
           r == PushFront(Erase(q, it), a)
           t == SearchTLB(m, a)
<1>1. q \in Seq(Addrs) /\ IsInjective(q) /\ Range(q) = DOMAIN m.TLB /\ a \in Addrs
      /\ Len(q) <= tlbSize /\ Len(q) \in Nat
  <2>1. q \in Seq(Addrs) /\ Range(q) = DOMAIN m.TLB
    BY DEF Sound, TLBOK
  <2>2. \A i \in DOMAIN q : q[i] \in Addrs
    BY <2>1
  <2>3. a \in Addrs
    BY <2>1, <2>2 DEF Range
  <2> QED
    BY <2>1, <2>3 DEF Sound, TLBOK
<1>2. it \in 1 .. Len(q) /\ q[it] = a
  <2>1. \E i \in DOMAIN q : q[i] = a
    BY <1>1 DEF Range
  <2>2. it \in DOMAIN q /\ q[it] = a
    BY <2>1
  <2> QED
    BY <1>1, <2>2
<1>3. t = [pageMap |-> m.pageMap, nextPage |-> m.nextPage, TLB |-> m.TLB,
           LRUQueue |-> r]
  <2>1. t = [m EXCEPT !.LRUQueue = r]
    BY DEF SearchTLB
  <2>2. m = [pageMap |-> m.pageMap, nextPage |-> m.nextPage, TLB |-> m.TLB,
             LRUQueue |-> m.LRUQueue]
    BY DEF Sound, IsTranslation
  <2> HIDE DEF r, t
  <2> QED
    BY <2>1, <2>2
<1> HIDE DEF it
<1>4. /\ Erase(q, it) \in Seq(Addrs)
      /\ Len(Erase(q, it)) = Len(q) - 1
      /\ Range(q) = Range(Erase(q, it)) \cup {a}
      /\ IsInjective(Erase(q, it)) /\ a \notin Range(Erase(q, it))
  BY <1>1, <1>2, EraseFacts
<1>5. /\ r \in Seq(Addrs) /\ Len(r) = Len(q) /\ Range(r) = Range(q)
      /\ IsInjective(r)
  <2> DEFINE e == Erase(q, it)
  <2>1. e \in Seq(Addrs) /\ Len(e) = Len(q) - 1 /\ Range(q) = Range(e) \cup {a}
        /\ IsInjective(e) /\ a \notin Range(e)
    BY <1>4
  <2> HIDE DEF e
  <2>2. /\ PushFront(e, a) \in Seq(Addrs) /\ Len(PushFront(e, a)) = Len(e) + 1
        /\ Range(PushFront(e, a)) = Range(e) \cup {a} /\ IsInjective(PushFront(e, a))
    <3>1. a \in Addrs /\ e \in Seq(Addrs) /\ IsInjective(e) /\ a \notin Range(e)
      BY <1>1, <2>1
    <3> QED
      BY ONLY <3>1, PushFrontFacts
  <2> QED
    BY <1>1, <2>1, <2>2 DEF e
<1> HIDE DEF r, t
<1>6. /\ t.pageMap = m.pageMap /\ t.nextPage = m.nextPage /\ t.TLB = m.TLB
      /\ t.LRUQueue = r /\ IsTranslation(t)
  BY <1>3 DEF IsTranslation
<1>7. MapOK(t)
  BY <1>6 DEF Sound, MapOK
<1>8. TLBOK(t)
  BY <1>1, <1>5, <1>6 DEF Sound, TLBOK, Frame
<1> QED
  BY <1>6, <1>7, <1>8 DEF Sound, t

\* A miss enters the address; what it may push out leaves queue and map together.
LEMMA AddToTLBFacts ==
  ASSUME NEW m, Sound(m), NEW a \in Addrs, a \notin DOMAIN m.TLB,
         a[1] \in DOMAIN m.pageMap
  PROVE  LET t == AddToTLB(m, a, Frame(m, a))
         IN  /\ Sound(t)
             /\ t.pageMap = m.pageMap /\ t.nextPage = m.nextPage
             /\ a \in DOMAIN t.TLB
<1> DEFINE q == m.LRUQueue
           kept == IF Len(q) = tlbSize THEN PopBack(q) ELSE q
           r == PushFront(kept, a)
           f == Put(Restrict(m.TLB, Range(kept)), a, Frame(m, a))
           t == AddToTLB(m, a, Frame(m, a))
<1>1. /\ q \in Seq(Addrs) /\ IsInjective(q) /\ Range(q) = DOMAIN m.TLB
      /\ Len(q) <= tlbSize /\ Len(q) \in Nat /\ tlbSize \in Nat \ {0}
  BY TLBAssumption DEF Sound, TLBOK
<1>2. t = [pageMap |-> m.pageMap, nextPage |-> m.nextPage, TLB |-> f,
           LRUQueue |-> r]
  <2>1. t = [m EXCEPT !.LRUQueue = r, !.TLB = f]
    BY DEF AddToTLB
  <2>2. m = [pageMap |-> m.pageMap, nextPage |-> m.nextPage, TLB |-> m.TLB,
             LRUQueue |-> m.LRUQueue]
    BY DEF Sound, IsTranslation
  <2> HIDE DEF r, f, t
  <2> QED
    BY Zenon, <2>1, <2>2
<1>3. /\ kept \in Seq(Addrs) /\ IsInjective(kept) /\ Range(kept) \subseteq Range(q)
      /\ Len(kept) + 1 <= tlbSize /\ Len(kept) \in Nat
  <2>1. CASE Len(q) = tlbSize
    <3>1. /\ PopBack(q) \in Seq(Addrs) /\ IsInjective(PopBack(q))
          /\ Range(PopBack(q)) \subseteq Range(q) /\ Len(PopBack(q)) = Len(q) - 1
      BY <1>1, <2>1, PopBackFacts
    <3> QED
      BY <1>1, <2>1, <3>1
  <2>2. CASE Len(q) # tlbSize
    BY <1>1, <2>2
  <2> QED
    BY <2>1, <2>2
<1> HIDE DEF kept
<1>4. a \notin Range(kept)
  BY <1>1, <1>3
<1>5. /\ r \in Seq(Addrs) /\ Len(r) <= tlbSize /\ Range(r) = Range(kept) \cup {a}
      /\ IsInjective(r)
  BY <1>1, <1>3, <1>4, PushFrontFacts
<1>6. /\ DOMAIN f = Range(kept) \cup {a}
      /\ f = [b \in DOMAIN f |-> f[b]]
      /\ f[a] = Frame(m, a)
      /\ \A b \in Range(kept) : f[b] = m.TLB[b]
  BY <1>4 DEF Put, Restrict
<1> HIDE DEF r, f, t
<1>7. /\ t.pageMap = m.pageMap /\ t.nextPage = m.nextPage /\ t.TLB = f
      /\ t.LRUQueue = r /\ IsTranslation(t)
  BY <1>2 DEF IsTranslation
<1>8. MapOK(t)
  BY <1>7 DEF Sound, MapOK
<1>9. \A b \in DOMAIN f : b[1] \in DOMAIN m.pageMap /\ f[b] = Frame(m, b)
  <2>1. \A b \in Range(kept) : b[1] \in DOMAIN m.pageMap /\ m.TLB[b] = Frame(m, b)
    BY <1>1, <1>3 DEF Sound, TLBOK
  <2> QED
    BY <1>6, <2>1
<1>10. TLBOK(t)
  BY Zenon, <1>5, <1>6, <1>7, <1>9 DEF TLBOK, Frame
<1> QED
  BY <1>6, <1>7, <1>8, <1>10 DEF Sound, t

\* What every translation does: the state stays sound, nothing that was mapped
\* moves, and the address that is returned is where the page map has the page.
LEMMA CalcPhysAddrFacts ==
  ASSUME NEW m, Sound(m), NEW a \in Addrs
  PROVE  /\ Sound(CalcPhysAddr(m, a))
         /\ Grows(m, CalcPhysAddr(m, a))
         /\ Counted(m, CalcPhysAddr(m, a), a[1])
         /\ a[1] \in DOMAIN CalcPhysAddr(m, a).pageMap
         /\ PhysAddr(m, a) = Frame(CalcPhysAddr(m, a), a)
<1> DEFINE c == CalcPhysAddr(m, a)
<1>1. CASE a \in DOMAIN m.TLB
  <2>1. c = SearchTLB(m, a)
    BY <1>1 DEF CalcPhysAddr
  <2> HIDE DEF c
  <2>2. Sound(c) /\ c.pageMap = m.pageMap /\ c.nextPage = m.nextPage /\ c.TLB = m.TLB
    BY <1>1, <2>1, SearchTLBFacts
  <2>3. Grows(m, c) /\ Counted(m, c, a[1])
    BY <2>2 DEF Grows, Counted, Sound, MapOK
  <2>4. a[1] \in DOMAIN c.pageMap /\ c.TLB[a] = Frame(c, a)
    BY <1>1, <2>2 DEF Sound, TLBOK
  <2> QED
    BY <2>2, <2>3, <2>4 DEF c, PhysAddr
<1>2. CASE a \notin DOMAIN m.TLB
  <2> DEFINE t == FirstTouch(m, a[1])
  <2>1. /\ Sound(t) /\ Grows(m, t) /\ a[1] \in DOMAIN t.pageMap /\ t.TLB = m.TLB
        /\ Counted(m, t, a[1])
    BY AddrFacts, FirstTouchFacts
  <2>2. c = AddToTLB(t, a, Frame(t, a))
    BY <1>2 DEF CalcPhysAddr, Frame
  <2> HIDE DEF c, t
  <2>3. /\ Sound(c) /\ c.pageMap = t.pageMap /\ c.nextPage = t.nextPage
        /\ a \in DOMAIN c.TLB
    BY <1>2, <2>1, <2>2, AddToTLBFacts
  <2>4. Grows(m, c) /\ Counted(m, c, a[1])
    BY <2>1, <2>3 DEF Grows, Counted
  <2>5. a[1] \in DOMAIN c.pageMap /\ c.TLB[a] = Frame(c, a)
    BY <2>3 DEF Sound, TLBOK
  <2> QED
    BY <2>3, <2>4, <2>5 DEF c, PhysAddr
<1> QED
  BY <1>1, <1>2

-----------------------------------------------------------------------------
(* The bytes of an access.                                                 *)

LEMMA GrowsTransitive ==
  ASSUME NEW m, NEW t, NEW u, Sound(m), Sound(t), Sound(u), Grows(m, t), Grows(t, u)
  PROVE  Grows(m, u)
<1>1. /\ DOMAIN m.pageMap \subseteq DOMAIN u.pageMap
      /\ \A p \in DOMAIN m.pageMap : u.pageMap[p] = m.pageMap[p]
  BY DEF Grows
<1>2. m.nextPage <= u.nextPage
  BY DEF Grows, Sound, MapOK
<1>3. ASSUME NEW p \in DOMAIN u.pageMap \ DOMAIN m.pageMap
      PROVE  u.pageMap[p] >= m.nextPage
  <2>1. CASE p \in DOMAIN t.pageMap
    BY <1>3, <2>1 DEF Grows
  <2>2. CASE p \notin DOMAIN t.pageMap
    <3>1. u.pageMap[p] >= t.nextPage /\ t.nextPage >= m.nextPage
      BY <1>3, <2>2 DEF Grows, Sound, MapOK
    <3>2. u.pageMap[p] \in Int /\ t.nextPage \in Int /\ m.nextPage \in Int
      BY <1>3 DEF Sound, MapOK
    <3> QED
      BY <3>1, <3>2
  <2> QED
    BY <2>1, <2>2
<1> QED
  BY <1>1, <1>2, <1>3 DEF Grows

\* While the pages fit, a mapped address has a byte of physMem.
LEMMA FrameInMemory ==
  ASSUME NEW m, Sound(m), Fits(m), NEW v \in Addrs, v[1] \in DOMAIN m.pageMap
  PROVE  m.pageMap[v[1]] \in PhysPages /\ Frame(m, v) \in PhysAddrs
<1>1. m.pageMap[v[1]] \in 0 .. m.nextPage - 1 /\ m.nextPage \in Nat
  BY DEF Sound, MapOK
<1>2. m.nextPage <= NumPages /\ NumPages \in Nat
  BY SizeAssumption DEF Fits
<1>3. m.pageMap[v[1]] \in PhysPages
  BY <1>1, <1>2 DEF PhysPages
<1> QED
  BY <1>3, AddrFacts DEF Frame, PhysAddrs

\* An access that does not fault: every byte of it is read or written where the
\* page map has its virtual address, on both sides of a page end.
LEMMA WalkFacts ==
  ASSUME NEW m, Sound(m), valid \subseteq Addrs, NEW a \in Addrs, NEW n \in Lens,
         ~Faults(m, a, n)
  PROVE  /\ Sound(Walk(m, a, n)) /\ Grows(m, Walk(m, a, n))
         /\ DOMAIN BaseMem(m, a, n) = 1 .. n
         /\ \A i \in 1 .. n :
              /\ Plus(a, i - 1) \in Addrs
              /\ Plus(a, i - 1)[1] \in DOMAIN Walk(m, a, n).pageMap
              /\ BaseMem(m, a, n)[i] = Frame(Walk(m, a, n), Plus(a, i - 1))
<1> DEFINE c == CalcPhysAddr(m, a)
           b == adjAddr(a)
           w == Walk(m, a, n)
           s == BaseMem(m, a, n)
           first == pageSize - a[2]
<1>0. /\ a[1] \in Pages /\ a[2] \in Offsets /\ a = <<a[1], a[2]>>
      /\ n \in 1 .. pageSize /\ pageSize \in Nat
  BY AddrFacts, SizeAssumption
<1>1. Sound(c) /\ Grows(m, c) /\ a[1] \in DOMAIN c.pageMap
      /\ PhysAddr(m, a) = Frame(c, a)
  BY CalcPhysAddrFacts
<1>2. /\ DOMAIN s = 1 .. n
      /\ \A i \in 1 .. n : i <= first => s[i] = <<c.pageMap[a[1]], a[2] + i - 1>>
  BY <1>1 DEF BaseMem, Frame
<1>3. \A i \in 1 .. n : i <= first => Plus(a, i - 1) = <<a[1], a[2] + i - 1>>
                                      /\ Plus(a, i - 1) \in Addrs
  <2> SUFFICES ASSUME NEW i \in 1 .. n, i <= first
               PROVE  Plus(a, i - 1) = <<a[1], a[2] + i - 1>> /\ Plus(a, i - 1) \in Addrs
    OBVIOUS
  <2>1. a[2] + (i - 1) < pageSize /\ a[2] + (i - 1) \in Offsets
        /\ a[2] + (i - 1) = a[2] + i - 1
    BY <1>0 DEF Offsets
  <2> QED
    BY <1>0, <2>1 DEF Plus, Addrs
<1>4. CASE ~Crosses(a, n)
  <2>1. w = c
    BY <1>4 DEF Walk
  <2>2. \A i \in 1 .. n : i <= first
    BY <1>0, <1>4 DEF Crosses, Offsets
  <2> HIDE DEF w, c, s
  <2> QED
    BY <1>1, <1>2, <1>3, <2>1, <2>2 DEF Frame, w, s
<1>5. CASE Crosses(a, n)
  <2>1. Translates(m, a) /\ Translates(c, b)
    BY <1>5 DEF Faults
  <2>2. b \in Addrs /\ b = <<a[1] + 1, 0>>
    <3>1. DOMAIN c.TLB \subseteq Addrs
      <4>1. c.LRUQueue \in Seq(Addrs) /\ Range(c.LRUQueue) = DOMAIN c.TLB
        BY <1>1 DEF Sound, TLBOK
      <4>2. \A i \in DOMAIN c.LRUQueue : c.LRUQueue[i] \in Addrs
        BY <4>1
      <4> QED
        BY <4>1, <4>2 DEF Range
    <3> QED
      BY <2>1, <3>1 DEF Translates, adjAddr
  <2>3. w = CalcPhysAddr(c, b)
    BY <1>5 DEF Walk
  <2>4. Sound(w) /\ Grows(c, w) /\ b[1] \in DOMAIN w.pageMap
        /\ PhysAddr(c, b) = Frame(w, b)
    BY <1>1, <2>2, <2>3, CalcPhysAddrFacts
  <2>5. Grows(m, w)
    BY <1>1, <2>4, GrowsTransitive
  <2>6. ASSUME NEW i \in 1 .. n, i <= first
        PROVE  Plus(a, i - 1)[1] \in DOMAIN w.pageMap /\ s[i] = Frame(w, Plus(a, i - 1))
    <3>1. Plus(a, i - 1) = <<a[1], a[2] + i - 1>> /\ s[i] = <<c.pageMap[a[1]], a[2] + i - 1>>
      BY ZenonT(40), <1>2, <1>3, <2>6
    <3>2. a[1] \in DOMAIN w.pageMap /\ w.pageMap[a[1]] = c.pageMap[a[1]]
      BY <1>1, <2>4 DEF Grows
    <3> QED
      BY <3>1, <3>2 DEF Frame
  <2>7. ASSUME NEW i \in 1 .. n, ~(i <= first)
        PROVE  /\ Plus(a, i - 1) \in Addrs
               /\ Plus(a, i - 1)[1] \in DOMAIN w.pageMap
               /\ s[i] = Frame(w, Plus(a, i - 1))
    <3>1. /\ ~(a[2] + (i - 1) < pageSize)
          /\ a[2] + (i - 1) - pageSize \in Offsets
          /\ 0 + i - first - 1 = a[2] + (i - 1) - pageSize
      BY <1>0, <2>7 DEF Offsets
    <3>2. Plus(a, i - 1) = <<a[1] + 1, a[2] + (i - 1) - pageSize>>
      BY <3>1 DEF Plus
    <3>3. a[1] + 1 \in Pages
      BY <2>2 DEF Addrs
    <3>4. s[i] = <<w.pageMap[a[1] + 1], 0 + i - first - 1>>
      <4>1. s[i] = <<PhysAddr(c, b)[1], PhysAddr(c, b)[2] + i - first - 1>>
        BY <2>7 DEF BaseMem
      <4>2. PhysAddr(c, b) = <<w.pageMap[a[1] + 1], 0>>
        BY <2>2, <2>4 DEF Frame
      <4> HIDE DEF s, w, first
      <4> QED
        BY <4>1, <4>2
    <3>5. a[1] + 1 \in DOMAIN w.pageMap
      BY <2>2, <2>4
    <3> HIDE DEF s, w
    <3> QED
      BY <3>1, <3>2, <3>3, <3>4, <3>5 DEF Frame, Addrs
  <2> QED
    BY <1>2, <1>3, <2>4, <2>5, <2>6, <2>7
<1> QED
  BY <1>4, <1>5

\* The last page an access hands out is one that it reads or writes.
LEMMA WalkCounted ==
  ASSUME NEW m, Sound(m), valid \subseteq Addrs, NEW a \in Addrs, NEW n \in Lens,
         ~Faults(m, a, n)
  PROVE  \/ Walk(m, a, n).nextPage = m.nextPage
         \/ \E i \in 1 .. n : Counted(m, Walk(m, a, n), Plus(a, i - 1)[1])
<1> DEFINE c == CalcPhysAddr(m, a)
           w == Walk(m, a, n)
<1>0. /\ a = <<a[1], a[2]>> /\ a[1] \in Int /\ a[2] \in 0 .. pageSize - 1
      /\ n \in 1 .. pageSize /\ pageSize \in Nat
  BY AddrFacts, SizeAssumption DEF Pages, Offsets
<1>1. Sound(c) /\ Counted(m, c, a[1]) /\ a[1] \in DOMAIN c.pageMap
  BY CalcPhysAddrFacts
<1>2. 1 \in 1 .. n /\ Plus(a, 1 - 1)[1] = a[1]
  BY <1>0 DEF Plus
<1>3. CASE ~Crosses(a, n)
  <2>1. w = c
    BY <1>3 DEF Walk
  <2> QED
    BY <1>1, <1>2, <2>1
<1>4. CASE Crosses(a, n)
  <2> DEFINE b == adjAddr(a)
             i == pageSize - a[2] + 1
  <2>1. b \in Addrs
    <3>1. Translates(c, b)
      BY <1>4 DEF Faults
    <3>2. c.LRUQueue \in Seq(Addrs) /\ Range(c.LRUQueue) = DOMAIN c.TLB
      BY <1>1 DEF Sound, TLBOK
    <3>3. \A k \in DOMAIN c.LRUQueue : c.LRUQueue[k] \in Addrs
      BY <3>2
    <3>4. DOMAIN c.TLB \subseteq Addrs
      BY <3>2, <3>3 DEF Range
    <3> QED
      BY <3>1, <3>4 DEF Translates
  <2>2. w = CalcPhysAddr(c, b)
    BY <1>4 DEF Walk
  <2>3. Grows(c, w) /\ Counted(c, w, b[1])
    BY <1>1, <2>1, <2>2, CalcPhysAddrFacts
  <2>4. i \in 1 .. n /\ Plus(a, i - 1)[1] = b[1]
    <3>1. i \in 1 .. n /\ a[2] + (i - 1) = pageSize
      BY <1>0, <1>4 DEF Crosses
    <3> QED
      BY <1>0, <3>1 DEF Plus, adjAddr
  <2>5. w.pageMap[a[1]] = c.pageMap[a[1]]
    BY <1>1, <2>3 DEF Grows
  <2> HIDE DEF c, w, b, i
  <2>6. \/ w.nextPage = m.nextPage \/ w.nextPage = w.pageMap[a[1]] + 1
        \/ w.nextPage = w.pageMap[b[1]] + 1
    BY <1>1, <2>3, <2>5 DEF Counted
  <2> QED
    BY <1>2, <2>4, <2>6 DEF Counted, w
<1> QED
  BY <1>3, <1>4

\* So an access leaves more pages handed out than there are exactly when one of
\* its bytes is on a page that is not there.
LEMMA OverrunExact ==
  ASSUME NEW m, Sound(m), Fits(m), valid \subseteq Addrs,
         NEW a \in Addrs, NEW n \in Lens, ~Faults(m, a, n)
  PROVE  Overruns(m, a, n) <=> ~Fits(Walk(m, a, n))
<1> DEFINE s == BaseMem(m, a, n)
           w == Walk(m, a, n)
<1>1. /\ Sound(w) /\ Grows(m, w)
      /\ \A i \in 1 .. n : Plus(a, i - 1) \in Addrs /\ Plus(a, i - 1)[1] \in DOMAIN w.pageMap
                           /\ s[i] = Frame(w, Plus(a, i - 1))
  BY WalkFacts
<1>2. w.nextPage = m.nextPage \/ \E i \in 1 .. n : Counted(m, w, Plus(a, i - 1)[1])
  BY WalkCounted
<1>3. /\ NumPages \in Nat /\ w.nextPage \in Nat /\ m.nextPage \in Nat
      /\ m.nextPage <= NumPages
  BY <1>1, SizeAssumption DEF Sound, MapOK, Fits
<1>4. Overruns(m, a, n) <=> \E i \in 1 .. n : s[i] \notin PhysAddrs
  BY DEF Overruns
<1> HIDE DEF s, w
<1>5. ASSUME Fits(w) PROVE \A i \in 1 .. n : s[i] \in PhysAddrs
  BY <1>1, <1>5, FrameInMemory
<1>6. ASSUME ~Fits(w) PROVE \E i \in 1 .. n : s[i] \notin PhysAddrs
  <2>1. w.nextPage # m.nextPage /\ w.nextPage > NumPages
    BY <1>3, <1>6 DEF Fits
  <2>2. PICK i \in 1 .. n : w.nextPage = w.pageMap[Plus(a, i - 1)[1]] + 1
    BY <1>2, <2>1 DEF Counted
  <2>3. s[i][1] = w.pageMap[Plus(a, i - 1)[1]] /\ s[i][1] \in Int
    BY <1>1 DEF Frame, Sound, MapOK
  <2>4. s[i][1] \notin PhysPages
    BY <1>3, <2>1, <2>2, <2>3 DEF PhysPages
  <2> QED
    BY <2>4 DEF PhysAddrs
<1> QED
  BY <1>4, <1>5, <1>6 DEF w

\* The same for the two halves of an AMO.
LEMMA AMOFacts ==
  ASSUME NEW m, Sound(m), Fits(m), valid \subseteq Addrs, NEW a \in Addrs, NEW n \in Lens,
         NEW m1, m1 = CalcPhysAddr(m, a), NEW m2, m2 = Walk(m1, a, n),
         ~AMOFaults(m, a, n), ~Overruns(m1, a, n)
  PROVE  /\ Sound(m1) /\ Grows(m, m1) /\ ~Faults(m1, a, n)
         /\ Sound(m2) /\ Grows(m, m2) /\ ~Faults(m2, a, n)
         /\ Fits(m2) /\ Fits(Walk(m2, a, n))
<1>1. Sound(m1) /\ Grows(m, m1) /\ Counted(m, m1, a[1]) /\ a[1] \in DOMAIN m1.pageMap
  BY CalcPhysAddrFacts
<1>2. ~Faults(m1, a, n) /\ ~Faults(m2, a, n)
  BY DEF AMOFaults
<1>3. /\ Sound(m2) /\ Grows(m1, m2)
      /\ \A i \in 1 .. n :
           /\ Plus(a, i - 1)[1] \in DOMAIN m2.pageMap
           /\ BaseMem(m1, a, n)[i] = Frame(m2, Plus(a, i - 1))
  BY <1>1, <1>2, WalkFacts
<1>4. Grows(m, m2)
  BY <1>1, <1>3, GrowsTransitive
<1>5. NumPages \in Nat /\ \A i \in 1 .. n : BaseMem(m1, a, n)[i] \in PhysAddrs
  BY SizeAssumption DEF Overruns
<1>6. Fits(m1)
  <2>1. 1 \in 1 .. n /\ Plus(a, 1 - 1)[1] = a[1]
    BY AddrFacts, SizeAssumption DEF Plus, Offsets
  <2>2. BaseMem(m1, a, n)[1] = Frame(m2, Plus(a, 1 - 1))
    BY Zenon, <1>3, <2>1
  <2>3. BaseMem(m1, a, n)[1][1] = m2.pageMap[a[1]]
    BY <2>1, <2>2 DEF Frame
  <2>4. BaseMem(m1, a, n)[1] \in PhysAddrs
    BY <1>5, <2>1
  <2>5. m2.pageMap[a[1]] \in PhysPages
    BY <2>3, <2>4 DEF PhysAddrs
  <2>6. m1.pageMap[a[1]] = m2.pageMap[a[1]]
    BY <1>1, <1>3 DEF Grows
  <2> QED
    BY <1>1, <1>5, <2>5, <2>6 DEF Counted, Fits, PhysPages
<1>7. Fits(m2)
  BY <1>1, <1>2, <1>6, OverrunExact
<1>8. Fits(Walk(m2, a, n))
  <2> DEFINE w == Walk(m2, a, n)
  <2> SUFFICES Fits(w)
    OBVIOUS
  <2>1. Grows(m2, w)
    BY <1>2, <1>3, WalkFacts
  <2>2. w.nextPage = m2.nextPage \/ \E i \in 1 .. n : Counted(m2, w, Plus(a, i - 1)[1])
    BY <1>2, <1>3, WalkCounted
  <2> HIDE DEF w
  <2>3. CASE w.nextPage = m2.nextPage
    BY <1>7, <2>3 DEF Fits
  <2>4. CASE \E i \in 1 .. n : w.nextPage = w.pageMap[Plus(a, i - 1)[1]] + 1
    <3>1. PICK i \in 1 .. n : w.nextPage = w.pageMap[Plus(a, i - 1)[1]] + 1
      BY <2>4
    <3>2. PICK p : p = Plus(a, i - 1)[1]
      BY Zenon
    <3>3. p \in DOMAIN m2.pageMap
      BY Zenon, <1>3, <3>2
    <3>4. w.pageMap[p] = m2.pageMap[p] /\ m2.pageMap[p] \in 0 .. m2.nextPage - 1
          /\ m2.nextPage \in Nat
      BY <1>3, <2>1, <3>3 DEF Grows, Sound, MapOK
    <3> QED
      BY <1>5, <1>7, <3>1, <3>2, <3>4 DEF Fits
  <2> QED
    BY <2>2, <2>3, <2>4 DEF Counted
<1> QED
  BY <1>1, <1>2, <1>3, <1>4, <1>7, <1>8

-----------------------------------------------------------------------------
(* The invariant.                                                          *)

\* The physical pages that were not handed out are as the constructor left them,
\* and memory is overrun when more were handed out than there are.
Inv ==
  /\ valid \subseteq Addrs
  /\ Sound(Translation)
  /\ physMem \in [PhysAddrs -> Values]
  /\ \A p \in PhysAddrs : p[1] >= nextPage => physMem[p] = Zero
  /\ data \in Seq(Values)
  /\ halted \in BOOLEAN /\ overrun \in BOOLEAN
  /\ overrun <=> NumPages < nextPage

\* A store changes the bytes of its access, none of them on an unused page.
LEMMA WrittenFacts ==
  ASSUME Inv, NEW m, Sound(m), Grows(Translation, m),
         NEW a \in Addrs, NEW n \in Lens, ~Faults(m, a, n), NEW Data \in [1 .. n -> Values]
  PROVE  /\ Written(BaseMem(m, a, n), Data) \in [PhysAddrs -> Values]
         /\ \A p \in PhysAddrs : p[1] >= Walk(m, a, n).nextPage
                               => Written(BaseMem(m, a, n), Data)[p] = Zero
<1> DEFINE s == BaseMem(m, a, n)
           w == Walk(m, a, n)
<1>1. /\ Sound(w) /\ Grows(m, w) /\ DOMAIN s = 1 .. n
      /\ \A i \in 1 .. n : Plus(a, i - 1) \in Addrs /\ Plus(a, i - 1)[1] \in DOMAIN w.pageMap
                           /\ s[i] = Frame(w, Plus(a, i - 1))
  BY WalkFacts DEF Inv
<1> HIDE DEF s, w
<1>2. Written(s, Data) \in [PhysAddrs -> Values]
  <2>1. ASSUME NEW p \in PhysAddrs, \E i \in DOMAIN s : s[i] = p
        PROVE  (CHOOSE i \in DOMAIN s : s[i] = p) \in 1 .. n
    BY <1>1, <2>1
  <2> QED
    BY <2>1 DEF Written, Inv
<1>3. ASSUME NEW p \in PhysAddrs, p[1] >= w.nextPage
      PROVE  Written(s, Data)[p] = Zero
  <2>1. p[1] \in Int
    BY DEF PhysAddrs, PhysPages
  <2>2. \A i \in DOMAIN s : s[i] # p
    <3> SUFFICES ASSUME NEW i \in DOMAIN s PROVE s[i][1] < w.nextPage /\ s[i][1] \in Int
                                                 /\ w.nextPage \in Int
      BY <1>3, <2>1
    <3>1. s[i][1] = w.pageMap[Plus(a, i - 1)[1]]
      BY <1>1 DEF Frame
    <3> QED
      BY <1>1, <3>1 DEF Sound, MapOK
  <2>3. nextPage <= w.nextPage /\ nextPage \in Int /\ w.nextPage \in Int
    <3>1. Translation.nextPage = nextPage /\ Translation.nextPage <= m.nextPage
          /\ m.nextPage <= w.nextPage
      BY ZenonT(40), <1>1 DEF Grows, Translation
    <3>2. nextPage \in Int /\ m.nextPage \in Int /\ w.nextPage \in Int
      BY <1>1, <3>1 DEF Inv, Sound, MapOK
    <3> QED
      BY <3>1, <3>2
  <2>4. p[1] >= nextPage
    BY <1>3, <2>1, <2>3
  <2> QED
    BY <2>2, <2>4 DEF Written, Inv
<1> QED
  BY <1>2, <1>3 DEF s, w

\* What a load returns
LEMMA ReadFacts ==
  ASSUME Inv, NEW m, Sound(m), NEW a \in Addrs, NEW n \in Lens, ~Faults(m, a, n),
         Fits(Walk(m, a, n))
  PROVE  [i \in 1 .. n |-> physMem[BaseMem(m, a, n)[i]]] \in Seq(Values)
<1>1. n \in Nat
  BY SizeAssumption
<1>2. \A i \in 1 .. n : BaseMem(m, a, n)[i] \in PhysAddrs
  BY WalkFacts, FrameInMemory DEF Inv
<1>3. [i \in 1 .. n |-> physMem[BaseMem(m, a, n)[i]]] \in [1 .. n -> Values]
  BY <1>2 DEF Inv
<1> QED
  BY <1>1, <1>3

\* Pages that stay unused stay zero when only the translation changes.
LEMMA SetTranslationFacts ==
  ASSUME NEW w, Sound(w), SetTranslation(w)
  PROVE  Translation' = w /\ nextPage' = w.nextPage
BY DEF Sound, IsTranslation, SetTranslation, Translation

\* A page that is unused after the access was unused before.
LEMMA UnusedPages ==
  ASSUME Sound(Translation), NEW w, Sound(w), Grows(Translation, w), nextPage' = w.nextPage
  PROVE  \A p \in PhysAddrs : p[1] >= nextPage' => p[1] >= nextPage
<1>1. nextPage <= nextPage' /\ nextPage \in Int /\ nextPage' \in Int
  BY DEF Grows, Translation, Sound, MapOK
<1>2. \A p \in PhysAddrs : p[1] \in Int
  BY DEF PhysAddrs, PhysPages
<1> QED
  BY <1>1, <1>2

\* OverrunExact for a step from a state that fits
LEMMA OverrunFits ==
  ASSUME Sound(Translation), Fits(Translation), valid \subseteq Addrs,
         NEW a \in Addrs, NEW n \in Lens, ~Faults(Translation, a, n),
         nextPage' = Walk(Translation, a, n).nextPage
  PROVE  Overruns(Translation, a, n) <=> NumPages < nextPage'
<1> DEFINE w == Walk(Translation, a, n)
<1>1. Sound(w)
  BY WalkFacts
<1>2. w.nextPage \in Nat /\ NumPages \in Nat
  BY <1>1, SizeAssumption DEF Sound, MapOK
<1>3. Overruns(Translation, a, n) <=> ~Fits(w)
  BY OverrunExact
<1> HIDE DEF w
<1> QED
  BY <1>2, <1>3 DEF Fits, w

LEMMA InitInv ==
  ASSUME Init PROVE Inv
<1>1. valid \subseteq Addrs
  BY RegionAssumption DEF Init
<1>2. Sound(Translation)
  <2>1. DOMAIN EmptyMap = {} /\ EmptyMap = [x \in {} |-> EmptyMap[x]]
    BY DEF EmptyMap
  <2>2. MapOK(Translation)
    BY <2>1, FS_EmptySet DEF MapOK, Translation, Init
  <2>3. TLBOK(Translation)
    <3>1. <<>> \in Seq(Addrs) /\ Len(<<>>) = 0 /\ DOMAIN <<>> = {}
      OBVIOUS
    <3>2. IsInjective(<<>>) /\ Range(<<>>) = {} /\ 0 <= tlbSize
      BY <3>1, TLBAssumption DEF IsInjective, Range
    <3> QED
      BY <2>1, <3>1, <3>2 DEF TLBOK, Translation, Init
  <2> QED
    BY <2>2, <2>3 DEF Sound, IsTranslation, Translation
<1>3. physMem \in [PhysAddrs -> Values] /\ \A p \in PhysAddrs : physMem[p] = Zero
  BY ValueAssumption DEF Init
<1>4. data \in Seq(Values)
  BY DEF Init
<1>5. halted \in BOOLEAN /\ overrun \in BOOLEAN
  BY Zenon DEF Init
<1>6. overrun <=> NumPages < nextPage
  <2>1. ~overrun /\ nextPage = 0
    BY Zenon DEF Init
  <2> QED
    BY <2>1, SizeAssumption
<1> QED
  BY <1>1, <1>2, <1>3, <1>4, <1>5, <1>6 DEF Inv

LEMMA NextInv ==
  ASSUME Inv, [Next]_vars PROVE Inv'
<1>0. ASSUME Running
      PROVE  Fits(Translation) /\ Sound(Translation) /\ NumPages \in Nat /\ ~overrun
  <2>1. nextPage \in Nat /\ NumPages \in Nat
    BY SizeAssumption DEF Inv, Sound, MapOK, Translation
  <2> QED
    BY <1>0, <2>1 DEF Running, Inv, Fits, Translation
<1>1. ASSUME NEW a \in Addrs, NEW n \in Lens, NEW Data \in [1 .. n -> Values],
             WriteMem(a, n, Data)
      PROVE  Inv'
  <2> DEFINE w == Walk(Translation, a, n)
  <2>1. Sound(w)
    BY <1>1, WalkFacts DEF WriteMem, Inv
  <2>2. Translation' = w /\ nextPage' = w.nextPage
    BY <1>1, <2>1, SetTranslationFacts DEF WriteMem
  <2>3. Grows(Translation, Translation)
    BY DEF Grows, Inv, Sound, MapOK
  <2>4. /\ physMem' \in [PhysAddrs -> Values]
        /\ \A p \in PhysAddrs : p[1] >= w.nextPage => physMem'[p] = Zero
    BY Zenon, <1>1, <2>3, WrittenFacts DEF WriteMem, Inv
  <2>5. overrun' <=> NumPages < nextPage'
    BY <1>0, <1>1, <2>1, <2>2, OverrunFits DEF WriteMem, Inv
  <2> HIDE DEF w
  <2> QED
    BY ZenonT(40), <1>1, <2>1, <2>2, <2>4, <2>5 DEF WriteMem, Inv
<1>2. ASSUME NEW a \in Addrs, NEW n \in Lens, ReadMem(a, n)
      PROVE  Inv'
  <2> DEFINE w == Walk(Translation, a, n)
  <2>1. Sound(w) /\ Grows(Translation, w)
    BY <1>2, WalkFacts DEF ReadMem, Inv
  <2>2. Translation' = w /\ nextPage' = w.nextPage
    BY Zenon, <1>2, <2>1, SetTranslationFacts DEF ReadMem
  <2>3. data' \in Seq(Values)
    BY <1>0, <1>2, OverrunExact, ReadFacts DEF ReadMem, Inv
  <2>4. \A p \in PhysAddrs : p[1] >= nextPage' => p[1] >= nextPage
    BY <2>1, <2>2, UnusedPages DEF Inv
  <2>5. overrun' <=> NumPages < nextPage'
    BY <1>0, <1>2, <2>1, <2>2, OverrunFits DEF ReadMem, Inv
  <2> HIDE DEF w
  <2> QED
    BY ZenonT(40), <1>2, <2>1, <2>2, <2>3, <2>4, <2>5 DEF ReadMem, Inv
<1>3. ASSUME NEW a \in Addrs, NEW n \in Lens, NEW Data \in [1 .. n -> Values],
             AMOMem(a, n, Data)
      PROVE  Inv'
  <2> DEFINE m1 == CalcPhysAddr(Translation, a)
             m2 == Walk(m1, a, n)
             w  == Walk(m2, a, n)
  <2>1. /\ Sound(m1) /\ ~Faults(m1, a, n)
        /\ Sound(m2) /\ Grows(Translation, m2) /\ ~Faults(m2, a, n)
        /\ Fits(m2) /\ Fits(w)
    BY Zenon, <1>0, <1>3, AMOFacts DEF AMOMem, Inv
  <2>2. /\ SetTranslation(w) /\ physMem' = Written(BaseMem(m2, a, n), Data)
        /\ data' = [i \in 1 .. n |-> physMem[BaseMem(m1, a, n)[i]]]
        /\ UNCHANGED <<valid, halted, overrun>> /\ ~overrun
    BY ZenonT(40), <1>3 DEF AMOMem, Running
  <2> HIDE DEF m1, m2
  <2>3. Sound(w)
    BY <2>1, WalkFacts DEF Inv
  <2>4. Translation' = w /\ nextPage' = w.nextPage
    BY Zenon, <2>2, <2>3, SetTranslationFacts
  <2>5. data' \in Seq(Values)
    BY ZenonT(40), <2>1, <2>2, ReadFacts DEF m2
  <2>6. /\ physMem' \in [PhysAddrs -> Values]
        /\ \A p \in PhysAddrs : p[1] >= w.nextPage => physMem'[p] = Zero
    BY <2>1, <2>2, WrittenFacts
  <2> HIDE DEF w
  <2>7. overrun' <=> NumPages < nextPage'
    <3>1. w.nextPage <= NumPages /\ w.nextPage \in Nat /\ NumPages \in Nat
      BY <2>1, <2>3, SizeAssumption DEF Fits, Sound, MapOK
    <3> QED
      BY <2>2, <2>4, <3>1
  <2> QED
    BY Zenon, <2>2, <2>3, <2>4, <2>5, <2>6, <2>7 DEF Inv
<1>4. ASSUME UNCHANGED <<transVars, physMem, data, overrun>>, valid' \subseteq Addrs,
             halted' \in BOOLEAN
      PROVE  Inv'
  <2>1. Translation' = Translation /\ nextPage' = nextPage
    BY <1>4 DEF transVars, Translation
  <2> QED
    BY <1>4, <2>1 DEF Inv
<1>5. ASSUME NEW a \in Addrs, NEW n \in Lens, SegmentationFault(a, n)
      PROVE  Inv'
  BY <1>4, <1>5 DEF SegmentationFault, Inv
<1>6. ASSUME NEW a \in Addrs, NEW n \in Lens, Overrun(a, n)
      PROVE  Inv'
  <2> DEFINE w == Walk(Translation, a, n)
  <2>1. Sound(w) /\ Grows(Translation, w)
    BY <1>6, WalkFacts DEF Overrun, Inv
  <2>2. Translation' = w /\ nextPage' = w.nextPage
    BY Zenon, <1>6, <2>1, SetTranslationFacts DEF Overrun
  <2>3. \A p \in PhysAddrs : p[1] >= nextPage' => p[1] >= nextPage
    BY <2>1, <2>2, UnusedPages DEF Inv
  <2>4. overrun' /\ NumPages < nextPage'
    <3>1. Overruns(Translation, a, n) /\ overrun' = TRUE
      BY <1>6 DEF Overrun
    <3> QED
      BY <1>0, <1>6, <2>1, <2>2, <3>1, OverrunFits DEF Overrun, Inv
  <2> HIDE DEF w
  <2> QED
    BY ZenonT(40), <1>6, <2>1, <2>2, <2>3, <2>4 DEF Overrun, Inv
<1>7. ASSUME NEW r \in Regions, AddSegment(r) \/ DeallocMem(r)
      PROVE  Inv'
  BY <1>4, <1>7, RegionAssumption DEF AddSegment, DeallocMem, Inv
<1>8. CASE UNCHANGED vars
  BY <1>4, <1>8 DEF vars, Inv
<1> QED
  BY Zenon, <1>1, <1>2, <1>3, <1>5, <1>6, <1>7, <1>8 DEF Next

LEMMA AlwaysInv == Spec => []Inv
<1>1. Init => Inv
  BY InitInv
<1>2. Inv /\ [Next]_vars => Inv'
  BY NextInv
<1> QED
  BY <1>1, <1>2, PTL DEF Spec

-----------------------------------------------------------------------------
(* Theorems.                                                               *)

\* Every variable has its type.
THEOREM TypeCorrect == Spec => []TypeOK
<1>1. Inv => TypeOK
  <2> SUFFICES ASSUME Inv PROVE TypeOK
    OBVIOUS
  <2>0. /\ Translation.pageMap = pageMap /\ Translation.nextPage = nextPage
        /\ Translation.TLB = TLB /\ Translation.LRUQueue = LRUQueue
    BY DEF Translation
  <2>1. MapOK(Translation) /\ TLBOK(Translation)
    BY DEF Inv, Sound
  <2>2. nextPage \in Nat
    BY <2>0, <2>1 DEF MapOK
  <2>3. pageMap \in PartialFunctions(Pages, Nat)
    <3>1. \A p \in DOMAIN pageMap : pageMap[p] \in Nat
      BY <2>0, <2>1, <2>2 DEF MapOK
    <3>2. pageMap \in [DOMAIN pageMap -> Nat] /\ DOMAIN pageMap \in SUBSET Pages
      BY <2>0, <2>1, <3>1 DEF MapOK
    <3> QED
      BY <3>1, <3>2 DEF PartialFunctions
  <2>4. LRUQueue \in Seq(Addrs)
    BY <2>0, <2>1 DEF TLBOK
  <2>5. TLB \in PartialFunctions(Addrs, Nat \X Offsets)
    <3>1. DOMAIN TLB \in SUBSET Addrs
      <4>1. \A i \in DOMAIN LRUQueue : LRUQueue[i] \in Addrs
        BY <2>4
      <4> QED
        BY <2>0, <2>1, <4>1 DEF TLBOK, Range
    <3>2. \A a \in DOMAIN TLB : TLB[a] \in Nat \X Offsets
      <4> SUFFICES ASSUME NEW a \in DOMAIN TLB PROVE TLB[a] \in Nat \X Offsets
        OBVIOUS
      <4>1. a[1] \in DOMAIN pageMap /\ TLB[a] = <<pageMap[a[1]], a[2]>>
        BY <2>0, <2>1 DEF TLBOK, Frame
      <4>2. pageMap[a[1]] \in Nat /\ a[2] \in Offsets
        BY <2>0, <2>1, <3>1, <4>1, AddrFacts DEF MapOK
      <4> QED
        BY <4>1, <4>2
    <3>3. TLB \in [DOMAIN TLB -> Nat \X Offsets]
      BY <2>0, <2>1, <3>2 DEF TLBOK
    <3> QED
      BY <3>1, <3>3 DEF PartialFunctions
  <2> QED
    BY <2>2, <2>3, <2>4, <2>5 DEF TypeOK, Inv
<1> QED
  BY <1>1, AlwaysInv, PTL

\* No two virtual pages ever share a physical page, however many pages, first
\* touches and accesses over a page end there are; and CalcPhysAddr, which does not
\* test nextPage, hands out a page that is not there exactly when the program has
\* touched more pages than memory has.
THEOREM PagesNeverAlias == Spec => []PagesApart
<1>1. Inv => PagesApart
  BY DEF Inv, Sound, MapOK, Translation, PagesApart, IsInjective
<1> QED
  BY <1>1, AlwaysInv, PTL

\* If the addresses a program may use lie on no more pages than memory has, then
\* no access is to a physical page that is not there, although CalcPhysAddr tests
\* nothing.
THEOREM MemorySuffices ==
  ASSUME NumVPages <= NumPages
  PROVE  Spec => []~overrun
<1>1. Inv => ~overrun
  <2> SUFFICES ASSUME Inv PROVE ~(NumPages < nextPage)
    BY DEF Inv
  <2>1. MapOK(Translation) /\ Translation.nextPage = nextPage
    BY DEF Inv, Sound, Translation
  <2>2. nextPage <= NumVPages /\ nextPage \in Nat
    BY <2>1, NextPageBound DEF MapOK
  <2> QED
    BY <2>2, SizeAssumption
<1> QED
  BY <1>1, AlwaysInv, PTL

\* The TLB and its LRU queue agree with each other and with the page map after
\* any sequence of hits, misses and evictions, for a TLB of any size.
THEOREM TLBCorrect == Spec => []TLBExact
<1>1. Inv => TLBExact
  BY DEF Inv, Sound, TLBOK, Frame, Translation, TLBExact
<1> QED
  BY <1>1, AlwaysInv, PTL

-----------------------------------------------------------------------------
(* RevPaging implements FlatMem, for every size of memory, page, TLB and   *)
(* access: the bytes a program loads and stores are those of one flat      *)
(* array.                                                                  *)

\* The byte at virtual address v, for translation state m and memory mem
ByteOf(m, mem, v) ==
  IF v[1] \in DOMAIN m.pageMap /\ m.pageMap[v[1]] \in PhysPages
    THEN mem[Frame(m, v)] ELSE Zero

LEMMA ByteNow ==
  ASSUME NEW v PROVE Byte(v) = ByteOf(Translation, physMem, v)
BY DEF Byte, ByteOf, Translation, Frame

\* A page that is touched for the first time holds what it held before: zeros,
\* also when there is no physical page for it.
LEMMA ByteStable ==
  ASSUME Inv, NEW w, Sound(w), Grows(Translation, w), NEW v \in Addrs
  PROVE  ByteOf(w, physMem, v) = Byte(v)
<1>0. Translation.pageMap = pageMap /\ Translation.nextPage = nextPage
  BY DEF Translation
<1>1. CASE v[1] \in DOMAIN pageMap
  BY <1>0, <1>1 DEF Grows, ByteOf, Byte, Frame
<1>2. CASE v[1] \notin DOMAIN pageMap /\ v[1] \in DOMAIN w.pageMap
  <2>1. CASE w.pageMap[v[1]] \in PhysPages
    <3>1. Frame(w, v) \in PhysAddrs
      BY <2>1, AddrFacts DEF Frame, PhysAddrs
    <3>2. Frame(w, v)[1] >= nextPage
      BY <1>0, <1>2 DEF Grows, Frame
    <3> QED
      BY <1>2, <2>1, <3>1, <3>2 DEF Inv, ByteOf, Byte
  <2>2. CASE w.pageMap[v[1]] \notin PhysPages
    BY <1>2, <2>2 DEF ByteOf, Byte
  <2> QED
    BY <2>1, <2>2
<1>3. CASE v[1] \notin DOMAIN w.pageMap
  BY <1>0, <1>3 DEF Grows, ByteOf, Byte
<1> QED
  BY <1>1, <1>2, <1>3

\* A load returns the bytes of its access.
LEMMA LoadedBytes ==
  ASSUME Inv, NEW m, Sound(m), Grows(Translation, m),
         NEW a \in Addrs, NEW n \in Lens, ~Faults(m, a, n), Fits(Walk(m, a, n))
  PROVE  [i \in 1 .. n |-> physMem[BaseMem(m, a, n)[i]]]
           = [i \in 1 .. n |-> Byte(Plus(a, i - 1))]
<1> SUFFICES ASSUME NEW i \in 1 .. n
             PROVE  physMem[BaseMem(m, a, n)[i]] = Byte(Plus(a, i - 1))
  OBVIOUS
<1> DEFINE w == Walk(m, a, n)
           v == Plus(a, i - 1)
<1>1. /\ Sound(w) /\ Grows(m, w) /\ v \in Addrs /\ v[1] \in DOMAIN w.pageMap
      /\ BaseMem(m, a, n)[i] = Frame(w, v) /\ Fits(w)
  BY WalkFacts DEF Inv
<1> HIDE DEF w, v
<1>2. Grows(Translation, w)
  BY <1>1, GrowsTransitive DEF Inv
<1>3. ByteOf(w, physMem, v) = Byte(v)
  BY <1>1, <1>2, ByteStable
<1>4. w.pageMap[v[1]] \in PhysPages
  BY <1>1, FrameInMemory
<1> QED
  BY <1>1, <1>3, <1>4 DEF ByteOf, v

\* The bytes of an access are different ones.
LEMMA PlusInjective ==
  ASSUME NEW a \in Addrs, NEW n \in Lens, NEW i \in 1 .. n, NEW j \in 1 .. n,
         Plus(a, i - 1) = Plus(a, j - 1)
  PROVE  i = j
<1>1. /\ a[1] \in Int /\ a[2] \in Int /\ pageSize \in Int
      /\ i \in Int /\ j \in Int
  BY AddrFacts, SizeAssumption DEF Pages, Offsets
<1> QED
  BY <1>1 DEF Plus

\* Two virtual addresses have the same place in memory only if they are the same.
LEMMA FrameInjective ==
  ASSUME NEW m, Sound(m), NEW u \in Addrs, NEW v \in Addrs,
         u[1] \in DOMAIN m.pageMap, v[1] \in DOMAIN m.pageMap, Frame(m, u) = Frame(m, v)
  PROVE  u = v
<1>1. m.pageMap[u[1]] = m.pageMap[v[1]] /\ u[2] = v[2]
  BY DEF Frame
<1>2. u[1] = v[1]
  BY <1>1 DEF Sound, MapOK
<1> QED
  BY <1>1, <1>2, AddrFacts

\* A store changes the bytes of its access to Data.
LEMMA StoredByte ==
  ASSUME Inv, NEW m, Sound(m), Grows(Translation, m),
         NEW a \in Addrs, NEW n \in Lens, ~Faults(m, a, n), Fits(Walk(m, a, n)),
         NEW Data \in [1 .. n -> Values], NEW i \in 1 .. n
  PROVE  ByteOf(Walk(m, a, n), Written(BaseMem(m, a, n), Data), Plus(a, i - 1)) = Data[i]
<1> DEFINE w == Walk(m, a, n)
           s == BaseMem(m, a, n)
           v == Plus(a, i - 1)
<1>1. /\ Sound(w) /\ Fits(w) /\ DOMAIN s = 1 .. n
      /\ \A j \in 1 .. n : Plus(a, j - 1) \in Addrs /\ Plus(a, j - 1)[1] \in DOMAIN w.pageMap
                           /\ s[j] = Frame(w, Plus(a, j - 1))
  BY WalkFacts DEF Inv
<1> HIDE DEF w, s
<1>2. (CHOOSE j \in DOMAIN s : s[j] = Frame(w, v)) = i
  <2>1. ASSUME NEW j \in 1 .. n, Frame(w, Plus(a, j - 1)) = Frame(w, Plus(a, i - 1))
        PROVE  j = i
    <3>1. Plus(a, j - 1) = Plus(a, i - 1)
      BY <1>1, <2>1, FrameInjective
    <3> QED
      BY <3>1, PlusInjective
  <2>2. i \in DOMAIN s /\ s[i] = Frame(w, v)
        /\ \A j \in DOMAIN s : s[j] = Frame(w, v) => j = i
    BY <1>1, <2>1
  <2> QED
    BY <2>2
<1>3. /\ Frame(w, v) \in PhysAddrs /\ v[1] \in DOMAIN w.pageMap
      /\ w.pageMap[v[1]] \in PhysPages
      /\ \E j \in DOMAIN s : s[j] = Frame(w, v)
  BY <1>1, FrameInMemory
<1>4. Written(s, Data)[Frame(w, v)] = Data[i]
  BY ZenonT(40), <1>2, <1>3 DEF Written
<1> QED
  BY <1>3, <1>4 DEF ByteOf, w, s

\* It changes no other byte.
LEMMA OtherBytes ==
  ASSUME Inv, NEW m, Sound(m), Grows(Translation, m),
         NEW a \in Addrs, NEW n \in Lens, ~Faults(m, a, n),
         NEW Data \in [1 .. n -> Values],
         NEW v \in Addrs, ~\E i \in 1 .. n : Plus(a, i - 1) = v
  PROVE  ByteOf(Walk(m, a, n), Written(BaseMem(m, a, n), Data), v) = Byte(v)
<1> DEFINE w == Walk(m, a, n)
           s == BaseMem(m, a, n)
<1>1. /\ Sound(w) /\ Grows(m, w) /\ DOMAIN s = 1 .. n
      /\ \A j \in 1 .. n : Plus(a, j - 1) \in Addrs /\ Plus(a, j - 1)[1] \in DOMAIN w.pageMap
                           /\ s[j] = Frame(w, Plus(a, j - 1))
  BY WalkFacts DEF Inv
<1>2. Grows(Translation, w)
  BY <1>1, GrowsTransitive DEF Inv
<1> HIDE DEF w, s
<1>3. ByteOf(w, physMem, v) = Byte(v)
  BY <1>1, <1>2, ByteStable
<1>4. CASE v[1] \in DOMAIN w.pageMap /\ w.pageMap[v[1]] \in PhysPages
  <2>1. Frame(w, v) \in PhysAddrs
    BY <1>4, AddrFacts DEF Frame, PhysAddrs
  <2>2. ~\E j \in DOMAIN s : s[j] = Frame(w, v)
    <3> SUFFICES ASSUME NEW j \in 1 .. n, Frame(w, Plus(a, j - 1)) = Frame(w, v)
                 PROVE  FALSE
      BY <1>1
    <3> QED
      BY <1>1, <1>4, FrameInjective
  <2>3. Written(s, Data)[Frame(w, v)] = physMem[Frame(w, v)]
    BY <2>1, <2>2 DEF Written
  <2> QED
    BY <1>3, <1>4, <2>3 DEF ByteOf, w, s
<1>5. CASE ~(v[1] \in DOMAIN w.pageMap /\ w.pageMap[v[1]] \in PhysPages)
  BY <1>3, <1>5 DEF ByteOf, w, s
<1> QED
  BY <1>4, <1>5

-----------------------------------------------------------------------------
(* The steps of FlatMem.                                                   *)

FlatBytes == [v \in Addrs |-> Byte(v)]

LEMMA BytesNext ==
  ASSUME NEW w, SetTranslation(w), NEW mem, physMem' = mem
  PROVE  FlatBytes' = [v \in Addrs |-> ByteOf(w, mem, v)]
BY DEF FlatBytes, Byte, ByteOf, Frame, SetTranslation

\* The access as FlatMem sees it
LEMMA AccessFacts ==
  ASSUME Inv, NEW m, Sound(m), NEW a \in Addrs, NEW n \in Lens, ~Faults(m, a, n)
  PROVE  /\ Bytes(a, n) \in {Bytes(v, k) : v \in Addrs, k \in Lens}
         /\ DOMAIN Bytes(a, n) = 1 .. n
         /\ \A i \in 1 .. n : Bytes(a, n)[i] = Plus(a, i - 1)
         /\ Flat!InMemory(Bytes(a, n))
<1>1. /\ DOMAIN Bytes(a, n) = 1 .. n
      /\ \A i \in 1 .. n : Bytes(a, n)[i] = Plus(a, i - 1)
  BY DEF Bytes
<1>2. \A i \in 1 .. n : Plus(a, i - 1) \in Addrs
  BY WalkFacts DEF Inv
<1> QED
  BY <1>1, <1>2 DEF Flat!InMemory

LEMMA FlatLoad ==
  ASSUME Inv, NEW m, Sound(m), Grows(Translation, m),
         NEW a \in Addrs, NEW n \in Lens, ~Faults(m, a, n), Fits(Walk(m, a, n))
  PROVE  [i \in 1 .. n |-> physMem[BaseMem(m, a, n)[i]]] = Flat!Contents(Bytes(a, n))
<1>1. /\ DOMAIN Bytes(a, n) = 1 .. n
      /\ \A i \in 1 .. n : Bytes(a, n)[i] = Plus(a, i - 1) /\ Plus(a, i - 1) \in Addrs
  BY AccessFacts, WalkFacts DEF Inv
<1>2. Flat!Contents(Bytes(a, n)) = [i \in 1 .. n |-> Byte(Plus(a, i - 1))]
  BY <1>1 DEF Flat!Contents
<1> QED
  BY <1>2, LoadedBytes

LEMMA FlatStore ==
  ASSUME Inv, NEW m, Sound(m), Grows(Translation, m),
         NEW a \in Addrs, NEW n \in Lens, ~Faults(m, a, n), Fits(Walk(m, a, n)),
         NEW Data \in [1 .. n -> Values]
  PROVE  [v \in Addrs |-> ByteOf(Walk(m, a, n), Written(BaseMem(m, a, n), Data), v)]
           = Flat!Update(Bytes(a, n), Data)
<1> SUFFICES ASSUME NEW v \in Addrs
             PROVE  ByteOf(Walk(m, a, n), Written(BaseMem(m, a, n), Data), v)
                      = Flat!Update(Bytes(a, n), Data)[v]
  BY Zenon DEF Flat!Update
<1> DEFINE s == Bytes(a, n)
           b == ByteOf(Walk(m, a, n), Written(BaseMem(m, a, n), Data), v)
<1>1. DOMAIN s = 1 .. n /\ \A i \in 1 .. n : s[i] = Plus(a, i - 1)
  BY AccessFacts
<1>2. Flat!Update(s, Data)[v] = IF \E i \in DOMAIN s : s[i] = v
                                  THEN Data[CHOOSE i \in DOMAIN s : s[i] = v]
                                  ELSE Byte(v)
  BY DEF Flat!Update
<1> HIDE DEF s, b
<1>3. CASE \E i \in 1 .. n : Plus(a, i - 1) = v
  <2>1. PICK i \in 1 .. n : Plus(a, i - 1) = v
    BY <1>3
  <2>2. \A j \in 1 .. n : Plus(a, j - 1) = v => j = i
    BY <2>1, PlusInjective
  <2>4. (CHOOSE j \in DOMAIN s : s[j] = v) = i
    <3>1. i \in DOMAIN s /\ s[i] = v /\ \A j \in DOMAIN s : s[j] = v => j = i
      BY <1>1, <2>1, <2>2
    <3> QED
      BY <3>1
  <2>5. \E j \in DOMAIN s : s[j] = v
    BY <1>1, <2>1
  <2>6. b = Data[i]
    BY ZenonT(40), <2>1, StoredByte DEF b
  <2> QED
    BY Zenon, <1>2, <2>4, <2>5, <2>6 DEF s, b
<1>4. CASE ~\E i \in 1 .. n : Plus(a, i - 1) = v
  <2>1. ~\E j \in DOMAIN s : s[j] = v
    BY <1>1, <1>4
  <2>2. b = Byte(v)
    BY <1>4, OtherBytes DEF b
  <2> QED
    BY <1>2, <2>1, <2>2 DEF s, b
<1> QED
  BY <1>3, <1>4

\* What faults touches a byte of no segment.
LEMMA FlatFault ==
  ASSUME NEW m, NEW a \in Addrs, NEW n \in Lens, Faults(m, a, n)
  PROVE  \E i \in DOMAIN Bytes(a, n) : Bytes(a, n)[i] \notin valid
<1>0. /\ DOMAIN Bytes(a, n) = 1 .. n /\ \A i \in 1 .. n : Bytes(a, n)[i] = Plus(a, i - 1)
      /\ n \in 1 .. pageSize /\ pageSize \in Nat
      /\ a = <<a[1], a[2]>> /\ a[1] \in Int /\ a[2] \in 0 .. pageSize - 1
  BY AddrFacts, SizeAssumption DEF Bytes, Pages, Offsets
<1>1. CASE ~Translates(m, a)
  <2>1. Plus(a, 1 - 1) = a /\ 1 \in 1 .. n
    BY <1>0 DEF Plus
  <2> QED
    BY <1>0, <1>1, <2>1 DEF Translates
<1>2. CASE Crosses(a, n) /\ ~Translates(CalcPhysAddr(m, a), adjAddr(a))
  <2> DEFINE i == pageSize - a[2] + 1
  <2>1. i \in 1 .. n /\ a[2] + (i - 1) = pageSize
    BY <1>0, <1>2 DEF Crosses
  <2> HIDE DEF i
  <2>2. Plus(a, i - 1) = adjAddr(a)
    BY <1>0, <2>1 DEF Plus, adjAddr
  <2> QED
    BY <1>0, <1>2, <2>1, <2>2 DEF Translates
<1> QED
  BY <1>1, <1>2 DEF Faults

LEMMA FlatInitial ==
  ASSUME Init PROVE Flat!FlatInit
<1>1. valid \subseteq Addrs
  BY InitInv DEF Inv
<1>2. FlatBytes = [v \in Addrs |-> Zero]
  <2>1. DOMAIN pageMap = {}
    BY DEF Init, EmptyMap
  <2> QED
    BY <2>1 DEF FlatBytes, Byte
<1> QED
  BY <1>1, <1>2 DEF Init, Flat!FlatInit, FlatBytes

LEMMA FlatStep ==
  ASSUME Inv, [Next]_vars
  PROVE  [~halted /\ Flat!FlatNext]_(Flat!flatVars)
<1> DEFINE Accesses == {Bytes(v, k) : v \in Addrs, k \in Lens}
<1>0. Sound(Translation) /\ Grows(Translation, Translation)
  BY DEF Inv, Grows, Sound, MapOK
<1>9. ASSUME Running PROVE Fits(Translation)
  <2>1. nextPage \in Nat /\ NumPages \in Nat
    BY SizeAssumption DEF Inv, Sound, MapOK, Translation
  <2> QED
    BY <1>9, <2>1 DEF Running, Inv, Fits, Translation
<1>1. ASSUME NEW a \in Addrs, NEW n \in Lens, NEW Data \in [1 .. n -> Values],
             WriteMem(a, n, Data)
      PROVE  ~halted /\ Flat!FlatNext
  <2>1. /\ ~halted /\ ~Faults(Translation, a, n)
        /\ SetTranslation(Walk(Translation, a, n))
        /\ physMem' = Written(BaseMem(Translation, a, n), Data)
        /\ valid' = valid /\ data' = data /\ halted' = halted
        /\ Fits(Walk(Translation, a, n))
    BY <1>0, <1>9, <1>1, OverrunExact DEF WriteMem, Running, Inv
  <2>2. /\ Bytes(a, n) \in Accesses /\ Flat!InMemory(Bytes(a, n))
        /\ Data \in [DOMAIN Bytes(a, n) -> Values]
    <3>1. DOMAIN Bytes(a, n) = 1 .. n
      BY DEF Bytes
    <3> QED
      BY <1>0, <2>1, <3>1, AccessFacts
  <2>3. FlatBytes' = Flat!Update(Bytes(a, n), Data)
    <3>1. PICK w : w = Walk(Translation, a, n)
      BY Zenon
    <3>2. PICK mem : mem = Written(BaseMem(Translation, a, n), Data)
      BY Zenon
    <3>3. SetTranslation(w) /\ physMem' = mem
      BY Zenon, <2>1, <3>1, <3>2
    <3>4. FlatBytes' = [v \in Addrs |-> ByteOf(w, mem, v)]
      BY Zenon, <3>3, BytesNext
    <3>5. [v \in Addrs |-> ByteOf(Walk(Translation, a, n),
                                  Written(BaseMem(Translation, a, n), Data), v)]
            = Flat!Update(Bytes(a, n), Data)
      BY Zenon, <1>0, <2>1, FlatStore
    <3> QED
      BY Zenon, <3>1, <3>2, <3>4, <3>5
  <2>4. Flat!Store(Bytes(a, n), Data)
    BY <2>1, <2>2, <2>3 DEF Flat!Store, FlatBytes
  <2> QED
    BY <2>1, <2>2, <2>4 DEF Flat!FlatNext
<1>2. ASSUME NEW a \in Addrs, NEW n \in Lens, ReadMem(a, n)
      PROVE  ~halted /\ Flat!FlatNext
  <2> DEFINE w == Walk(Translation, a, n)
  <2>1. /\ ~halted /\ ~Faults(Translation, a, n) /\ SetTranslation(w)
        /\ data' = [i \in 1 .. n |-> physMem[BaseMem(Translation, a, n)[i]]]
        /\ valid' = valid /\ physMem' = physMem /\ halted' = halted /\ Fits(w)
    BY <1>0, <1>9, <1>2, OverrunExact DEF ReadMem, Running, Inv
  <2>2. Bytes(a, n) \in Accesses /\ Flat!InMemory(Bytes(a, n))
    BY <1>0, <2>1, AccessFacts
  <2>3. data' = Flat!Contents(Bytes(a, n))
    BY <1>0, <2>1, FlatLoad
  <2>4. Sound(w) /\ Grows(Translation, w)
    BY <1>0, <2>1, WalkFacts DEF Inv
  <2> HIDE DEF w
  <2>5. FlatBytes' = FlatBytes
    <3>1. FlatBytes' = [v \in Addrs |-> ByteOf(w, physMem, v)]
      BY <2>1, BytesNext
    <3>2. \A v \in Addrs : ByteOf(w, physMem, v) = Byte(v)
      BY <2>4, ByteStable
    <3> QED
      BY <3>1, <3>2 DEF FlatBytes
  <2>6. Flat!Load(Bytes(a, n))
    BY <2>1, <2>2, <2>3, <2>5 DEF Flat!Load, FlatBytes
  <2> QED
    BY <2>1, <2>2, <2>6 DEF Flat!FlatNext
<1>3. ASSUME NEW a \in Addrs, NEW n \in Lens, NEW Data \in [1 .. n -> Values],
             AMOMem(a, n, Data)
      PROVE  ~halted /\ Flat!FlatNext
  <2> DEFINE m1 == CalcPhysAddr(Translation, a)
             m2 == Walk(m1, a, n)
  <2>1. /\ ~halted /\ SetTranslation(Walk(m2, a, n))
        /\ data' = [i \in 1 .. n |-> physMem[BaseMem(m1, a, n)[i]]]
        /\ physMem' = Written(BaseMem(m2, a, n), Data)
        /\ valid' = valid /\ halted' = halted
    BY ZenonT(40), <1>3 DEF AMOMem, Running
  <2>2. /\ Sound(m1) /\ Grows(Translation, m1) /\ ~Faults(m1, a, n)
        /\ Sound(m2) /\ Grows(Translation, m2) /\ ~Faults(m2, a, n)
        /\ Fits(Walk(m1, a, n)) /\ Fits(Walk(m2, a, n))
    BY <1>0, <1>9, <1>3, AMOFacts DEF AMOMem, Inv
  <2> HIDE DEF m1, m2
  <2>3. /\ Bytes(a, n) \in Accesses /\ Flat!InMemory(Bytes(a, n))
        /\ Data \in [DOMAIN Bytes(a, n) -> Values]
    <3>1. DOMAIN Bytes(a, n) = 1 .. n
      BY DEF Bytes
    <3> QED
      BY <2>2, <3>1, AccessFacts
  <2>4. data' = Flat!Contents(Bytes(a, n))
    BY ZenonT(40), <2>1, <2>2, FlatLoad
  <2>5. FlatBytes' = Flat!Update(Bytes(a, n), Data)
    <3>1. PICK w : w = Walk(m2, a, n)
      BY Zenon
    <3>2. PICK mem : mem = Written(BaseMem(m2, a, n), Data)
      BY Zenon
    <3>3. SetTranslation(w) /\ physMem' = mem
      BY Zenon, <2>1, <3>1, <3>2
    <3>4. FlatBytes' = [v \in Addrs |-> ByteOf(w, mem, v)]
      BY Zenon, <3>3, BytesNext
    <3>5. [v \in Addrs |-> ByteOf(Walk(m2, a, n), Written(BaseMem(m2, a, n), Data), v)]
            = Flat!Update(Bytes(a, n), Data)
      BY Zenon, <2>2, FlatStore
    <3> QED
      BY Zenon, <3>1, <3>2, <3>4, <3>5
  <2>6. Flat!Exchange(Bytes(a, n), Data)
    BY <2>1, <2>3, <2>4, <2>5 DEF Flat!Exchange, FlatBytes
  <2> QED
    BY <2>1, <2>3, <2>6 DEF Flat!FlatNext
<1>4. ASSUME UNCHANGED <<transVars, physMem>> PROVE FlatBytes' = FlatBytes
  BY <1>4 DEF transVars, FlatBytes, Byte
<1>5. ASSUME NEW a \in Addrs, NEW n \in Lens, SegmentationFault(a, n)
      PROVE  ~halted /\ Flat!FlatNext
  <2>1. /\ ~halted /\ halted' = TRUE /\ valid' = valid /\ data' = data
        /\ FlatBytes' = FlatBytes
    BY <1>4, <1>5 DEF SegmentationFault, Running
  <2>2. Bytes(a, n) \in Accesses
    OBVIOUS
  <2>3. \E i \in DOMAIN Bytes(a, n) : Bytes(a, n)[i] \notin valid
    <3>1. ASSUME ~Translates(Translation, a) PROVE Faults(Translation, a, n)
      BY <3>1 DEF Faults
    <3> QED
      BY <1>5, <3>1, FlatFault DEF SegmentationFault, AMOFaults
  <2>4. Flat!Fault(Bytes(a, n))
    BY <2>1, <2>3 DEF Flat!Fault, FlatBytes
  <2> QED
    BY <2>1, <2>2, <2>4 DEF Flat!FlatNext
<1>6. ASSUME NEW r \in Regions, AddSegment(r) \/ DeallocMem(r)
      PROVE  ~halted /\ Flat!FlatNext
  <2>1. /\ ~halted /\ halted' = halted /\ data' = data
        /\ FlatBytes' = FlatBytes
    BY <1>4, <1>6 DEF AddSegment, DeallocMem, Running
  <2>2. valid' \subseteq Addrs
    BY <1>6, RegionAssumption DEF AddSegment, DeallocMem, Inv
  <2> QED
    BY <2>1, <2>2 DEF Flat!FlatNext, Flat!Resize, FlatBytes
<1>7. ASSUME NEW a \in Addrs, NEW n \in Lens, Overrun(a, n)
      PROVE  UNCHANGED Flat!flatVars
  <2> DEFINE w == Walk(Translation, a, n)
  <2>1. /\ ~Faults(Translation, a, n) /\ SetTranslation(w)
        /\ valid' = valid /\ physMem' = physMem /\ data' = data /\ halted' = halted
    BY <1>7 DEF Overrun
  <2>2. Sound(w) /\ Grows(Translation, w)
    BY <1>0, <2>1, WalkFacts DEF Inv
  <2> HIDE DEF w
  <2>3. FlatBytes' = [v \in Addrs |-> ByteOf(w, physMem, v)]
    BY <2>1, BytesNext
  <2>4. \A v \in Addrs : ByteOf(w, physMem, v) = Byte(v)
    BY <2>2, ByteStable
  <2>5. FlatBytes' = FlatBytes
    BY <2>3, <2>4 DEF FlatBytes
  <2> QED
    BY <2>1, <2>5 DEF Flat!flatVars, FlatBytes
<1>8. ASSUME UNCHANGED vars PROVE UNCHANGED Flat!flatVars
  <2>1. /\ valid' = valid /\ data' = data /\ halted' = halted
        /\ FlatBytes' = FlatBytes
    BY <1>4, <1>8 DEF vars
  <2> QED
    BY <2>1 DEF Flat!flatVars, FlatBytes
<1> QED
  BY ZenonT(40), <1>1, <1>2, <1>3, <1>5, <1>6, <1>7, <1>8 DEF Next

\* The page map, the TLB and the handling of page ends together implement one
\* flat memory: CalcPhysAddr, ReadMem, WriteMem and AMOMem lose no store, mix up
\* no two bytes, and fault only on a byte of no segment.
THEOREM Implements == Spec => ImplementsFlatMem
<1>1. Init => Flat!FlatInit
  BY FlatInitial
<1>2. Inv /\ [Next]_vars => [~halted /\ Flat!FlatNext]_(Flat!flatVars)
  BY FlatStep
<1>3. Inv /\ [Next]_vars => Inv'
  BY NextInv
<1>4. Init => Inv
  BY InitInv
<1> QED
  BY <1>1, <1>2, <1>3, <1>4, PTL DEF Spec, ImplementsFlatMem, Flat!FlatSpec

=============================================================================
