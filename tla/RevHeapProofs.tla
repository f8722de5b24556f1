--------------------------- MODULE RevHeapProofs ---------------------------
(***************************************************************************)
(* mmap and munmap keep MemSegs and FreeMemSegs a partition of the heap,   *)
(* and the stacks stay apart, for a heap of any size and any requests.     *)
(* Partition counts the segments that hold an address; the inductive       *)
(* invariant says the same of whole segments: no two of them overlap, and  *)
(* together they cover the heap.                                           *)
(***************************************************************************)
EXTENDS RevHeap, StdContainersProofs, FiniteSetTheorems

\* The provers a leaf that names none is given to, in this order.
USE SMTT(10), ZenonT(10), SMTT(60), Z3T(60)

\* A loop that stops at the first hit finds the least index with one.
LEMMA LeastElement ==
  ASSUME NEW T, T \subseteq Nat, T # {}
  PROVE  \E m \in T : \A n \in T : m <= n
<1>1. \E m \in T : \A n \in T : ~(<<n, m>> \in OpToRel(<, Nat))
  BY Zenon, NatLessThanWellFounded, WFMin
<1>2. \A m, n \in Nat : <<n, m>> \notin OpToRel(<, Nat) => m <= n
  BY DEF OpToRel
<1> QED
  BY Zenon, <1>1, <1>2

(* Lists of segments that do not overlap.                                  *)

Apart(s, t) == TopAddr(s) <= t.BaseAddr \/ TopAddr(t) <= s.BaseAddr

\* The segments that count; the program's own segment, below the heap, does not
Owned(seg) == seg.BaseAddr >= heapstart

Separate(s) ==
  /\ s \in Seq(Segments)
  /\ \A i \in DOMAIN s : s[i].Size > 0
  /\ \A i, j \in DOMAIN s : i # j /\ Owned(s[i]) /\ Owned(s[j]) => Apart(s[i], s[j])

\* A segment of s holds the address.
Covered(s, a) == \E i \in DOMAIN s : Owned(s[i]) /\ contains(s[i], a)

\* x overlaps no segment of s but the i-th.
ClearBut(s, i, x) == \A j \in DOMAIN s : j # i /\ Owned(s[j]) => Apart(s[j], x)

LEMMA SegFacts ==
  ASSUME NEW base \in Nat, NEW size \in Nat
  PROVE  /\ Seg(base, size) \in Segments
         /\ Seg(base, size).BaseAddr = base /\ Seg(base, size).Size = size
         /\ TopAddr(Seg(base, size)) = base + size
BY DEF Seg, Segments, TopAddr

\* emplace_back of a segment that overlaps no other
LEMMA AddSegment ==
  ASSUME NEW s, Separate(s), NEW x \in Segments, x.Size > 0, ClearBut(s, 0, x),
         NEW t, t = Append(s, x)
  PROVE  /\ Separate(t)
         /\ \A k \in DOMAIN t : t[k] = x \/ \E j \in DOMAIN s : t[k] = s[j]
         /\ \A a \in Int : Covered(s, a) => Covered(t, a)
         /\ \A a \in Int : Owned(x) /\ contains(x, a) => Covered(t, a)
<1>1. /\ s \in Seq(Segments) /\ t \in Seq(Segments) /\ Len(s) \in Nat
      /\ DOMAIN s = 1 .. Len(s) /\ DOMAIN t = 1 .. Len(s) + 1
      /\ \A j \in DOMAIN s : t[j] = s[j]
      /\ t[Len(s) + 1] = x
  BY DEF Separate
<1>2. \A k \in DOMAIN t : k \in DOMAIN s \/ k = Len(s) + 1
  BY <1>1
<1>3. \A i \in DOMAIN t : t[i].Size > 0
  BY <1>1, <1>2 DEF Separate
<1>4. ASSUME NEW i \in DOMAIN t, NEW j \in DOMAIN t, i # j, Owned(t[i]), Owned(t[j])
      PROVE  Apart(t[i], t[j])
  <2>1. \A k \in DOMAIN s : k # 0
    BY <1>1
  <2>2. CASE i \in DOMAIN s /\ j \in DOMAIN s
    BY <1>1, <1>4, <2>2 DEF Separate
  <2>3. CASE i \in DOMAIN s /\ j = Len(s) + 1
    BY <1>1, <1>4, <2>1, <2>3 DEF ClearBut
  <2>4. CASE j \in DOMAIN s /\ i = Len(s) + 1
    BY <1>1, <1>4, <2>1, <2>4 DEF ClearBut, Apart
  <2> QED
    BY <1>2, <1>4, <2>2, <2>3, <2>4
<1>5. Separate(t)
  BY <1>1, <1>3, <1>4 DEF Separate
<1>6. \A k \in DOMAIN t : t[k] = x \/ \E j \in DOMAIN s : t[k] = s[j]
  BY <1>1, <1>2
<1>7. \A a \in Int : Covered(s, a) => Covered(t, a)
  <2>1. DOMAIN s \subseteq DOMAIN t
    BY <1>1
  <2> QED
    BY <1>1, <2>1, Zenon DEF Covered
<1>8. \A a \in Int : Owned(x) /\ contains(x, a) => Covered(t, a)
  <2>1. Len(s) + 1 \in DOMAIN t
    BY <1>1
  <2> QED
    BY <1>1, <2>1, Zenon DEF Covered
<1> QED
  BY <1>5, <1>6, <1>7, <1>8

\* A segment is replaced by one that overlaps none of the others.
LEMMA ReplaceSegment ==
  ASSUME NEW s, Separate(s), NEW i \in DOMAIN s, NEW x \in Segments, x.Size > 0,
         ClearBut(s, i, x), NEW t, t = [s EXCEPT ![i] = x]
  PROVE  /\ Separate(t)
         /\ \A k \in DOMAIN t : t[k] = x \/ \E j \in DOMAIN s \ {i} : t[k] = s[j]
         /\ \A a \in Int : Covered(s, a) => Covered(t, a) \/ contains(s[i], a)
         /\ \A a \in Int : Owned(x) /\ contains(x, a) => Covered(t, a)
<1>1. /\ s \in Seq(Segments) /\ t \in Seq(Segments)
      /\ DOMAIN t = DOMAIN s /\ t[i] = x
      /\ \A j \in DOMAIN s : j # i => t[j] = s[j]
  BY DEF Separate
<1>2. \A j \in DOMAIN t : t[j].Size > 0
  BY <1>1 DEF Separate
<1>3. ASSUME NEW j \in DOMAIN t, NEW k \in DOMAIN t, j # k, Owned(t[j]), Owned(t[k])
      PROVE  Apart(t[j], t[k])
  <2>1. CASE j # i /\ k # i
    BY <1>1, <1>3, <2>1 DEF Separate
  <2>2. CASE j # i /\ k = i
    BY <1>1, <1>3, <2>2 DEF ClearBut
  <2>3. CASE j = i
    BY <1>1, <1>3, <2>3 DEF ClearBut, Apart
  <2> QED
    BY <2>1, <2>2, <2>3
<1>4. Separate(t)
  BY <1>1, <1>2, <1>3 DEF Separate
<1>5. \A k \in DOMAIN t : t[k] = x \/ \E j \in DOMAIN s \ {i} : t[k] = s[j]
  BY <1>1, Zenon
<1>6. \A a \in Int : Covered(s, a) => Covered(t, a) \/ contains(s[i], a)
  BY <1>1, Zenon DEF Covered
<1>7. \A a \in Int : Owned(x) /\ contains(x, a) => Covered(t, a)
  BY <1>1, Zenon DEF Covered
<1> QED
  BY Zenon, <1>4, <1>5, <1>6, <1>7

\* erase of a segment
LEMMA EraseSegment ==
  ASSUME NEW s, Separate(s), NEW i \in DOMAIN s, NEW t, t = Erase(s, i)
  PROVE  /\ Separate(t)
         /\ \A k \in DOMAIN t : \E j \in DOMAIN s \ {i} : t[k] = s[j]
         /\ \A a \in Int : Covered(s, a) => Covered(t, a) \/ contains(s[i], a)
<1> DEFINE old(k) == IF k < i THEN k ELSE k + 1
           new(j) == IF j < i THEN j ELSE j - 1
<1>1. /\ s \in Seq(Segments) /\ Len(s) \in Nat /\ DOMAIN s = 1 .. Len(s)
      /\ i \in 1 .. Len(s)
  BY DEF Separate
<1>2. /\ t \in Seq(Segments) /\ DOMAIN t = 1 .. Len(s) - 1
      /\ \A k \in 1 .. i - 1 : t[k] = s[k]
      /\ \A k \in i .. Len(s) - 1 : t[k] = s[k + 1]
  BY Zenon, <1>1, EraseElements
<1>3. \A k \in DOMAIN t : old(k) \in DOMAIN s \ {i} /\ t[k] = s[old(k)]
  BY <1>1, <1>2
<1>4. ASSUME NEW j \in DOMAIN s \ {i} PROVE new(j) \in DOMAIN t /\ t[new(j)] = s[j]
  <2>1. CASE j < i
    BY <1>1, <1>2, <2>1
  <2>2. CASE j > i
    <3>1. j - 1 \in i .. Len(s) - 1 /\ (j - 1) + 1 = j
      BY <1>1, <2>2
    <3> QED
      BY <1>1, <1>2, <2>2, <3>1
  <2> QED
    BY <1>1, <2>1, <2>2
<1>5. \A j, k \in DOMAIN t : j # k => old(j) # old(k)
  BY <1>1, <1>2
<1> HIDE DEF old, new
<1>6. Separate(t)
  BY <1>2, <1>3, <1>5 DEF Separate
<1>7. \A k \in DOMAIN t : \E j \in DOMAIN s \ {i} : t[k] = s[j]
  BY <1>3, Zenon
<1>8. \A a \in Int : Covered(s, a) => Covered(t, a) \/ contains(s[i], a)
  <2>1. ASSUME NEW a, NEW j \in DOMAIN s, Owned(s[j]), contains(s[j], a), j # i
        PROVE  Covered(t, a)
    BY <1>4, <2>1, Zenon DEF Covered
  <2> QED
    BY <2>1, Zenon DEF Covered
<1> QED
  BY <1>6, <1>7, <1>8

-----------------------------------------------------------------------------
(* mmap and munmap move bytes between the two lists.                       *)

Within(x, y) == y.BaseAddr <= x.BaseAddr /\ TopAddr(x) <= TopAddr(y)
InHeap(x) == heapstart <= x.BaseAddr /\ TopAddr(x) <= heapstart + maxHeapSize

\* The allocated segments M and the free segments F tile the heap.
Tiles(M, F) ==
  /\ Separate(M) /\ Separate(F)
  /\ \A k \in DOMAIN F : InHeap(F[k])
  /\ \A j \in DOMAIN M : M[j].BaseAddr \in Heap => InHeap(M[j])
  /\ \A j \in DOMAIN M, k \in DOMAIN F : Owned(M[j]) => Apart(M[j], F[k])
  /\ \A a \in Heap : Covered(M, a) \/ Covered(F, a)

LEMMA ApartWithin ==
  ASSUME NEW x \in Segments, NEW y \in Segments, NEW z \in Segments,
         Apart(x, y), Within(z, y)
  PROVE  Apart(x, z) /\ Apart(z, x)
BY DEF Apart, Within, Segments, TopAddr

\* The part x of a free segment is allocated.
LEMMA Allocated ==
  ASSUME NEW M, NEW F, Tiles(M, F), NEW i \in DOMAIN F,
         NEW x \in Segments, x.Size > 0, Within(x, F[i]),
         NEW G, Separate(G),
         \A k \in DOMAIN G : Apart(G[k], x) /\ \E j \in DOMAIN F : Within(G[k], F[j]),
         \A a \in Int : Covered(F, a) => Covered(G, a) \/ contains(x, a)
  PROVE  Tiles(Append(M, x), G)
<1> DEFINE N == Append(M, x)
<1>0. /\ Separate(M) /\ Separate(F) /\ heapstart \in Nat /\ maxHeapSize \in Nat
      /\ \A j \in DOMAIN M : M[j] \in Segments
      /\ \A j \in DOMAIN F : F[j] \in Segments
      /\ \A j \in DOMAIN G : G[j] \in Segments
  BY HeapAssumption DEF Tiles, Separate
<1>1. InHeap(x) /\ Owned(x)
  BY <1>0 DEF Tiles, InHeap, Within, Owned, Segments, TopAddr
<1>2. ClearBut(M, 0, x)
  BY <1>0 DEF ClearBut, Tiles, Apart, Within, TopAddr, Segments
<1>3. /\ Separate(N)
      /\ \A k \in DOMAIN N : N[k] = x \/ \E j \in DOMAIN M : N[k] = M[j]
      /\ \A a \in Int : Covered(M, a) => Covered(N, a)
      /\ \A a \in Int : Owned(x) /\ contains(x, a) => Covered(N, a)
  BY Zenon, <1>0, <1>2, AddSegment
<1> HIDE DEF N
<1>4. ASSUME NEW k \in DOMAIN G PROVE InHeap(G[k])
  <2>1. PICK j \in DOMAIN F : Within(G[k], F[j])
    OBVIOUS
  <2> QED
    BY <1>0, <2>1 DEF Tiles, InHeap, Within, Segments, TopAddr
<1>5. \A j \in DOMAIN N : N[j].BaseAddr \in Heap => InHeap(N[j])
  BY <1>1, <1>3, Zenon DEF Tiles
<1>6. ASSUME NEW j \in DOMAIN N, NEW k \in DOMAIN G, Owned(N[j])
      PROVE  Apart(N[j], G[k])
  <2>1. PICK f \in DOMAIN F : Within(G[k], F[f])
    OBVIOUS
  <2>2. CASE N[j] = x
    BY <2>2 DEF Apart
  <2>3. ASSUME NEW m \in DOMAIN M, N[j] = M[m] PROVE Apart(N[j], G[k])
    <3>1. Apart(M[m], F[f])
      BY <1>6, <2>3 DEF Tiles
    <3> QED
      BY <1>0, <2>1, <2>3, <3>1 DEF Apart, Within, Segments, TopAddr
  <2> QED
    BY <1>3, <2>2, <2>3
<1>7. \A a \in Heap : a \in Int /\ (Covered(N, a) \/ Covered(G, a))
  <2>1. \A a \in Heap : a \in Int
    BY <1>0 DEF Heap
  <2> QED
    BY <1>1, <1>3, <2>1, Zenon DEF Tiles
<1> QED
  BY <1>3, <1>4, <1>5, <1>6, <1>7 DEF Tiles, N

\* The part x of an allocated segment is freed.
LEMMA Freed ==
  ASSUME NEW M, NEW F, Tiles(M, F), NEW x \in Segments,
         NEW N, Separate(N),
         \A k \in DOMAIN N : Owned(N[k]) =>
           /\ Apart(N[k], x)
           /\ \E j \in DOMAIN M : Owned(M[j]) /\ Within(N[k], M[j])
                               /\ (N[k].BaseAddr \in Heap => M[j].BaseAddr \in Heap),
         \A a \in Int : Covered(M, a) => Covered(N, a) \/ contains(x, a),
         NEW G, Separate(G),
         \A k \in DOMAIN G :
           /\ InHeap(G[k])
           /\ \A y \in Segments : y.Size > 0 /\
                Apart(y, x) /\ (\A j \in DOMAIN F : Apart(y, F[j])) => Apart(y, G[k]),
         \A a \in Int : Covered(F, a) \/ contains(x, a) => Covered(G, a)
  PROVE  Tiles(N, G)
<1>0. /\ \A j \in DOMAIN M : M[j] \in Segments
      /\ \A j \in DOMAIN F : F[j] \in Segments
      /\ \A j \in DOMAIN N : N[j] \in Segments
      /\ \A j \in DOMAIN G : G[j] \in Segments
      /\ heapstart \in Nat /\ maxHeapSize \in Nat
  BY HeapAssumption DEF Tiles, Separate
<1>1. ASSUME NEW k \in DOMAIN N, N[k].BaseAddr \in Heap PROVE InHeap(N[k])
  <2>1. Owned(N[k])
    BY <1>0, <1>1 DEF Owned, Heap, Segments
  <2>2. PICK j \in DOMAIN M : Within(N[k], M[j]) /\ M[j].BaseAddr \in Heap
    BY <1>1, <2>1
  <2>3. InHeap(M[j])
    BY <2>2 DEF Tiles
  <2> QED
    BY <1>0, <2>2, <2>3 DEF InHeap, Within, Segments, TopAddr
<1>2. ASSUME NEW j \in DOMAIN N, NEW k \in DOMAIN G, Owned(N[j])
      PROVE  Apart(N[j], G[k])
  <2>1. PICK m \in DOMAIN M : Owned(M[m]) /\ Within(N[j], M[m])
    BY <1>2
  <2>2. \A f \in DOMAIN F : Apart(M[m], F[f])
    BY <2>1 DEF Tiles
  <2>3. \A f \in DOMAIN F : Apart(N[j], F[f])
    BY <1>0, <2>1, <2>2 DEF Apart, Within, Segments, TopAddr
  <2>4. N[j].Size > 0
    BY DEF Separate
  <2> QED
    BY <1>0, <1>2, <2>3, <2>4
<1>3. \A a \in Heap : a \in Int /\ (Covered(N, a) \/ Covered(G, a))
  <2>1. \A a \in Heap : a \in Int
    BY <1>0 DEF Heap
  <2> QED
    BY <2>1, Zenon DEF Tiles
<1> QED
  BY <1>1, <1>2, <1>3 DEF Tiles

\* AllocMem takes, and DeallocMem frees, the first bytes x of a segment.
LEMMA LosesFront ==
  ASSUME NEW s, Separate(s), NEW i \in DOMAIN s, Owned(s[i]),
         NEW size \in Nat \ {0}, size <= s[i].Size,
         NEW x, x = Seg(s[i].BaseAddr, size),
         NEW t, t = IF s[i].Size > size
                      THEN [s EXCEPT ![i] = Seg(s[i].BaseAddr + size, s[i].Size - size)]
                      ELSE Erase(s, i)
  PROVE  /\ x \in Segments /\ x.Size > 0 /\ Within(x, s[i])
         /\ Separate(t)
         /\ \A k \in DOMAIN t : Owned(t[k]) => Apart(t[k], x)
         /\ \A k \in DOMAIN t : \E j \in DOMAIN s :
              Within(t[k], s[j]) /\ (Owned(t[k]) => Owned(s[j]))
                /\ (t[k] = s[j] \/ j = i)
         /\ \A a \in Int : Covered(s, a) => Covered(t, a) \/ contains(x, a)
<1>0. /\ s[i] \in Segments /\ heapstart \in Nat
      /\ \A j \in DOMAIN s : s[j] \in Segments
      /\ s[i].BaseAddr \in Nat /\ s[i].Size \in Nat
  <2>1. \A j \in DOMAIN s : s[j] \in Segments
    BY DEF Separate
  <2> QED
    BY <2>1, HeapAssumption DEF Segments
<1>1. /\ x \in Segments /\ x.BaseAddr = s[i].BaseAddr /\ x.Size = size
      /\ TopAddr(x) = s[i].BaseAddr + size
      /\ TopAddr(s[i]) = s[i].BaseAddr + s[i].Size
  BY <1>0, SegFacts DEF TopAddr
<1>2. Within(x, s[i])
  BY <1>0, <1>1 DEF Within
<1>3. \A j \in DOMAIN s : j # i /\ Owned(s[j]) => Apart(s[j], s[i])
  BY DEF Separate
<1>4. \A j \in DOMAIN s : j # i /\ Owned(s[j]) => Apart(s[j], x)
  BY <1>0, <1>1, <1>3 DEF Apart, TopAddr, Segments
<1>5. CASE s[i].Size > size
  <2> DEFINE y == Seg(s[i].BaseAddr + size, s[i].Size - size)
  <2>1. /\ y \in Segments /\ y.BaseAddr = s[i].BaseAddr + size
        /\ y.Size = s[i].Size - size /\ TopAddr(y) = TopAddr(s[i])
    BY <1>0, <1>1, <1>5, SegFacts
  <2>2. t = [s EXCEPT ![i] = y]
    BY <1>5
  <2> HIDE DEF y
  <2>3. y.Size > 0 /\ Within(y, s[i]) /\ Apart(y, x) /\ Owned(y)
    BY <1>0, <1>1, <1>5, <2>1 DEF Within, Apart, Owned
  <2>4. ClearBut(s, i, y)
    BY <1>0, <1>1, <1>3, <2>1 DEF ClearBut, Apart, TopAddr, Segments
  <2>5. /\ Separate(t)
        /\ \A k \in DOMAIN t : t[k] = y \/ \E j \in DOMAIN s \ {i} : t[k] = s[j]
        /\ \A a \in Int : Covered(s, a) => Covered(t, a) \/ contains(s[i], a)
        /\ \A a \in Int : Owned(y) /\ contains(y, a) => Covered(t, a)
    BY Zenon, <2>1, <2>2, <2>3, <2>4, ReplaceSegment
  <2>6. \A k \in DOMAIN t : Owned(t[k]) => Apart(t[k], x)
    BY <1>4, <2>3, <2>5
  <2>7. \A j \in DOMAIN s : Within(s[j], s[j])
    BY <1>0 DEF Within, TopAddr, Segments
  <2>8. \A k \in DOMAIN t : \E j \in DOMAIN s :
          Within(t[k], s[j]) /\ (Owned(t[k]) => Owned(s[j])) /\ (t[k] = s[j] \/ j = i)
    BY <2>3, <2>5, <2>7
  <2>9. \A a \in Int : contains(s[i], a) => contains(x, a) \/ contains(y, a)
    BY <1>0, <1>1, <2>1 DEF contains
  <2>10. \A a \in Int : Covered(s, a) => Covered(t, a) \/ contains(x, a)
    BY <2>3, <2>5, <2>9, Zenon
  <2>11. x.Size > 0
    BY <1>1
  <2> QED
    BY <1>1, <1>2, <2>5, <2>6, <2>8, <2>10, <2>11, Zenon
<1>6. CASE ~(s[i].Size > size)
  <2>1. t = Erase(s, i) /\ size = s[i].Size
    BY <1>0, <1>6
  <2>2. /\ Separate(t)
        /\ \A k \in DOMAIN t : \E j \in DOMAIN s \ {i} : t[k] = s[j]
        /\ \A a \in Int : Covered(s, a) => Covered(t, a) \/ contains(s[i], a)
    BY <2>1, EraseSegment
  <2>3. \A k \in DOMAIN t : Owned(t[k]) => Apart(t[k], x)
    BY <1>4, <2>2
  <2>4. \A j \in DOMAIN s : Within(s[j], s[j])
    BY <1>0 DEF Within, TopAddr, Segments
  <2>5. \A k \in DOMAIN t : \E j \in DOMAIN s :
          Within(t[k], s[j]) /\ (Owned(t[k]) => Owned(s[j])) /\ (t[k] = s[j] \/ j = i)
    BY <2>2, <2>4
  <2>6. \A a \in Int : contains(s[i], a) => contains(x, a)
    BY <1>0, <1>1, <2>1 DEF contains
  <2>7. \A a \in Int : Covered(s, a) => Covered(t, a) \/ contains(x, a)
    BY <2>2, <2>6, Zenon
  <2>8. x.Size > 0
    BY <1>1
  <2> QED
    BY ZenonT(40), <1>1, <1>2, <2>2, <2>3, <2>5, <2>7, <2>8, Zenon
<1> QED
  BY Zenon, <1>5, <1>6

\* The free segments after a successful mmap without an address
LEMMA TakeFrontTiles ==
  ASSUME Tiles(MemSegs, FreeMemSegs), NEW i \in DOMAIN FreeMemSegs,
         NEW size \in Nat \ {0}, Fits(size, FreeMemSegs[i])
  PROVE  Tiles(Append(MemSegs, Seg(FreeMemSegs[i].BaseAddr, size)), TakeFront(i, size))
<1> DEFINE F == FreeMemSegs
           x == Seg(F[i].BaseAddr, size)
           G == TakeFront(i, size)
<1>0. /\ Separate(F) /\ heapstart \in Nat
      /\ \A j \in DOMAIN F : F[j] \in Segments /\ InHeap(F[j]) /\ Owned(F[j])
  BY HeapAssumption DEF Tiles, Separate, InHeap, Owned
<1>1. size <= F[i].Size
  BY <1>0 DEF Fits, Segments
<1>2. G = IF F[i].Size > size
            THEN [F EXCEPT ![i] = Seg(F[i].BaseAddr + size, F[i].Size - size)]
            ELSE Erase(F, i)
  BY DEF TakeFront
<1>a. x = Seg(F[i].BaseAddr, size)
  OBVIOUS
<1> HIDE DEF G, x
<1>3. /\ x \in Segments /\ x.Size > 0 /\ Within(x, F[i])
      /\ Separate(G)
      /\ \A k \in DOMAIN G : Owned(G[k]) => Apart(G[k], x)
      /\ \A k \in DOMAIN G : \E j \in DOMAIN F :
           Within(G[k], F[j]) /\ (Owned(G[k]) => Owned(F[j])) /\ (G[k] = F[j] \/ j = i)
      /\ \A a \in Int : Covered(F, a) => Covered(G, a) \/ contains(x, a)
  <2>1. Owned(F[i])
    BY <1>0
  <2> QED
    <3>1. x \in Segments /\ x.Size > 0 /\ Within(x, F[i]) /\ Separate(G)
      BY <1>0, <1>1, <1>2, <1>a, <2>1, LosesFront
    <3>2. \A k \in DOMAIN G : Owned(G[k]) => Apart(G[k], x)
      BY <1>0, <1>1, <1>2, <1>a, <2>1, LosesFront
    <3>3. \A k \in DOMAIN G : \E j \in DOMAIN F :
            Within(G[k], F[j]) /\ (Owned(G[k]) => Owned(F[j])) /\ (G[k] = F[j] \/ j = i)
      BY <1>0, <1>1, <1>2, <1>a, <2>1, LosesFront
    <3>4. \A a \in Int : Covered(F, a) => Covered(G, a) \/ contains(x, a)
      BY <1>0, <1>1, <1>2, <1>a, <2>1, LosesFront
    <3> QED
      BY <3>1, <3>2, <3>3, <3>4
<1>4. ASSUME NEW k \in DOMAIN G
      PROVE  Owned(G[k]) /\ \E j \in DOMAIN F : Within(G[k], F[j])
  <2>1. PICK j \in DOMAIN F : Within(G[k], F[j])
    BY <1>3
  <2>2. G[k] \in Segments /\ F[j] \in Segments /\ Owned(F[j])
    BY <1>0, <1>3 DEF Separate
  <2> QED
    BY <1>0, <2>1, <2>2 DEF Within, Owned, Segments
<1> QED
  BY <1>3, <1>4, Allocated DEF G, x

\* The free segments after a successful mmap with an address; the case in which the
\* range is the front of a larger segment is not among them.
LEMMA CarveTiles ==
  ASSUME Tiles(MemSegs, FreeMemSegs), NEW i \in DOMAIN FreeMemSegs,
         NEW addr \in Nat, NEW size \in Nat \ {0},
         containsRange(FreeMemSegs[i], addr, size), ~TookFront(i, addr, size)
  PROVE  Tiles(Append(MemSegs, Seg(addr, size)), Carve(i, addr, size))
<1> DEFINE F == FreeMemSegs
           x == Seg(addr, size)
           G == Carve(i, addr, size)
           lower == Seg(F[i].BaseAddr, addr - F[i].BaseAddr)
           upper == Seg(addr + size, TopAddr(F[i]) - (addr + size))
           front == F[i].BaseAddr = addr
           back == TopAddr(F[i]) = addr + size
<1>0. /\ Separate(F) /\ heapstart \in Nat
      /\ \A j \in DOMAIN F : F[j] \in Segments /\ InHeap(F[j]) /\ Owned(F[j])
  BY HeapAssumption DEF Tiles, Separate, InHeap, Owned
<1>1. /\ F[i].BaseAddr \in Nat /\ F[i].Size \in Nat
      /\ TopAddr(F[i]) = F[i].BaseAddr + F[i].Size
      /\ F[i].BaseAddr <= addr /\ addr + size <= TopAddr(F[i])
      /\ front <=> back /\ front
  <2>1. F[i] \in Segments
    BY <1>0
  <2>2. /\ F[i].BaseAddr \in Nat /\ F[i].Size \in Nat
        /\ TopAddr(F[i]) = F[i].BaseAddr + F[i].Size
    BY <2>1 DEF Segments, TopAddr
  <2>3. /\ F[i].BaseAddr <= addr /\ addr + size <= TopAddr(F[i])
    BY <2>2 DEF containsRange, contains
  <2>4. front => back
    BY <2>2 DEF TookFront
  <2> QED
    BY <2>2, <2>3, <2>4
<1>2. /\ x \in Segments /\ x.BaseAddr = addr /\ x.Size = size /\ TopAddr(x) = addr + size
      /\ lower \in Segments /\ lower.BaseAddr = F[i].BaseAddr
      /\ lower.Size = addr - F[i].BaseAddr /\ TopAddr(lower) = addr
      /\ upper \in Segments /\ upper.BaseAddr = addr + size
      /\ upper.Size = TopAddr(F[i]) - (addr + size) /\ TopAddr(upper) = TopAddr(F[i])
  <2>1. addr - F[i].BaseAddr \in Nat /\ addr + size \in Nat
    BY <1>1
  <2>2. TopAddr(F[i]) - (addr + size) \in Nat
    BY <1>1, <2>1
  <2>3. /\ x \in Segments /\ x.BaseAddr = addr /\ x.Size = size /\ TopAddr(x) = addr + size
    BY SegFacts
  <2>4. /\ lower \in Segments /\ lower.BaseAddr = F[i].BaseAddr
        /\ lower.Size = addr - F[i].BaseAddr
        /\ TopAddr(lower) = F[i].BaseAddr + (addr - F[i].BaseAddr)
    BY ZenonT(40), <1>1, <2>1, SegFacts
  <2>5. /\ upper \in Segments /\ upper.BaseAddr = addr + size
        /\ upper.Size = TopAddr(F[i]) - (addr + size)
        /\ TopAddr(upper) = (addr + size) + (TopAddr(F[i]) - (addr + size))
    <3> DEFINE b == addr + size
               c == TopAddr(F[i]) - (addr + size)
    <3>1. upper = Seg(b, c) /\ b \in Nat /\ c \in Nat
      BY <2>1, <2>2
    <3> HIDE DEF b, c, upper
    <3>2. upper \in Segments /\ upper.BaseAddr = b /\ upper.Size = c /\ TopAddr(upper) = b + c
      BY Zenon, <3>1, SegFacts
    <3> QED
      BY <3>2 DEF b, c
  <2> HIDE DEF x, lower, upper
  <2> QED
    BY <1>1, <2>3, <2>4, <2>5
<1>3. /\ ~front /\ ~back => G = Append([F EXCEPT ![i] = lower], upper)
      /\ ~front /\ back => G = [F EXCEPT ![i] = lower]
      /\ front => G = Erase(F, i)
  BY <1>1 DEF Carve
<1> HIDE DEF G, x, lower, upper
<1>4. \A j \in DOMAIN F : j # i => Apart(F[j], F[i])
  BY <1>0 DEF Separate
<1>5. x.Size > 0 /\ Within(x, F[i]) /\ F[i] \in Segments
  BY <1>0, <1>1, <1>2 DEF Within
<1>6. \A j \in DOMAIN F : Within(F[j], F[j])
  BY <1>0 DEF Within, TopAddr, Segments
<1>7. Within(lower, F[i]) /\ Within(upper, F[i]) /\ Apart(lower, x) /\ Apart(upper, x)
        /\ Apart(lower, upper) /\ Owned(lower) /\ Owned(upper)
  <2>1. Owned(F[i])
    BY <1>0
  <2> QED
    BY <1>0, <1>1, <1>2, <2>1 DEF Within, Apart, Owned
<1>8. \A j \in DOMAIN F : j # i => Apart(F[j], x) /\ Apart(F[j], lower) /\ Apart(F[j], upper)
  BY <1>0, <1>2, <1>4, <1>5, <1>7, ApartWithin
<1>9. ASSUME NEW a \in Int, contains(F[i], a)
      PROVE  contains(x, a) \/ contains(lower, a) \/ contains(upper, a)
  BY <1>1, <1>2, <1>9 DEF contains
<1>10. front => \A a \in Int : ~contains(lower, a)
  BY <1>1, <1>2 DEF contains
<1>11. back => \A a \in Int : ~contains(upper, a)
  BY <1>1, <1>2 DEF contains
<1>12. /\ Separate(G)
       /\ \A k \in DOMAIN G : Apart(G[k], x) /\ \E j \in DOMAIN F : Within(G[k], F[j])
       /\ \A a \in Int : Covered(F, a) => Covered(G, a) \/ contains(x, a)
  <2>1. CASE front
    <3>1. /\ Separate(G)
          /\ \A k \in DOMAIN G : \E j \in DOMAIN F \ {i} : G[k] = F[j]
          /\ \A a \in Int : Covered(F, a) => Covered(G, a) \/ contains(F[i], a)
      BY <1>0, <1>3, <2>1, EraseSegment
    <3>2. \A k \in DOMAIN G : Apart(G[k], x) /\ \E j \in DOMAIN F : Within(G[k], F[j])
      BY <1>8, <1>6, <3>1
    <3>3. \A a \in Int : Covered(F, a) => Covered(G, a) \/ contains(x, a)
      BY ZenonT(40), <1>1, <1>9, <1>10, <1>11, <2>1, <3>1, Zenon
    <3> QED
      BY <3>1, <3>2, <3>3
  <2>2. CASE ~front
    <3> DEFINE t == [F EXCEPT ![i] = lower]
    <3>1. lower.Size > 0
      BY <1>1, <1>2, <2>2
    <3>2. ClearBut(F, i, lower)
      BY <1>8 DEF ClearBut
    <3>3. /\ Separate(t)
          /\ \A k \in DOMAIN t : t[k] = lower \/ \E j \in DOMAIN F \ {i} : t[k] = F[j]
          /\ \A a \in Int : Covered(F, a) => Covered(t, a) \/ contains(F[i], a)
          /\ \A a \in Int : Owned(lower) /\ contains(lower, a) => Covered(t, a)
      BY Zenon, <1>0, <1>2, <3>1, <3>2, ReplaceSegment
    <3> HIDE DEF t
    <3>4. \A a \in Int : Covered(F, a) => Covered(t, a) \/ contains(x, a) \/ contains(upper, a)
      BY <1>7, <1>9, <3>3, Zenon
    <3>5. \A k \in DOMAIN t : /\ Apart(t[k], x) /\ Apart(t[k], upper)
                             /\ \E j \in DOMAIN F : Within(t[k], F[j])
      BY <1>6, <1>7, <1>8, <3>3, Zenon
    <3>6. CASE back
      <4>1. G = t
        BY <1>3, <2>2, <3>6 DEF t
      <4>2. \A a \in Int : Covered(F, a) => Covered(G, a) \/ contains(x, a)
        BY ZenonT(40), <1>11, <3>4, <3>6, <4>1, Zenon
      <4> QED
        BY <3>3, <3>5, <4>1, <4>2, Zenon
    <3>7. CASE ~back
      <4>1. upper.Size > 0 /\ ClearBut(t, 0, upper)
        <5>1. upper.Size > 0
          BY <1>1, <1>2, <3>7
        <5> QED
          BY <3>5, <5>1 DEF ClearBut
      <4>2. G = Append(t, upper)
        BY <1>3, <2>2, <3>7 DEF t
      <4>3. /\ Separate(G)
            /\ \A k \in DOMAIN G : G[k] = upper \/ \E j \in DOMAIN t : G[k] = t[j]
            /\ \A a \in Int : Covered(t, a) => Covered(G, a)
            /\ \A a \in Int : Owned(upper) /\ contains(upper, a) => Covered(G, a)
        <5>1. upper \in Segments /\ Separate(t)
          BY <1>2, <3>3
        <5>2. Separate(G)
          BY Zenon, <4>1, <4>2, <5>1, AddSegment
        <5>5. \A k \in DOMAIN G : G[k] = upper \/ \E j \in DOMAIN t : G[k] = t[j]
          BY <4>1, <4>2, <5>1, AddSegment
        <5>3. \A a \in Int : Covered(t, a) => Covered(G, a)
          BY Zenon, <4>1, <4>2, <5>1, AddSegment
        <5>4. \A a \in Int : Owned(upper) /\ contains(upper, a) => Covered(G, a)
          BY Zenon, <4>1, <4>2, <5>1, AddSegment
        <5> QED
          BY <5>2, <5>3, <5>4, <5>5
      <4>4. \A k \in DOMAIN G : Apart(G[k], x) /\ \E j \in DOMAIN F : Within(G[k], F[j])
        BY <1>7, <3>5, <4>3, Zenon
      <4>5. \A a \in Int : Covered(F, a) => Covered(G, a) \/ contains(x, a)
        BY <1>7, <3>4, <4>3, Zenon
      <4> QED
        BY <4>3, <4>4, <4>5
    <3> QED
      BY <3>6, <3>7
  <2> QED
    BY <2>1, <2>2
<1> QED
  BY <1>2, <1>5, <1>12, Allocated DEF G, x

\* Merge extends the free segment that ends at addr, or adds one.
LEMMA MergeCases ==
  ASSUME FreeMemSegs \in Seq(Segments), NEW addr \in Nat, NEW size \in Nat
  PROVE  \/ Merge(addr, size) = Append(FreeMemSegs, Seg(addr, size))
         \/ \E i \in DOMAIN FreeMemSegs :
              /\ contains(FreeMemSegs[i], addr - 1)
              /\ Merge(addr, size) =
                   [FreeMemSegs EXCEPT ![i] =
                      Seg(FreeMemSegs[i].BaseAddr, FreeMemSegs[i].Size + size)]
<1> DEFINE F == FreeMemSegs
           Q == {j \in DOMAIN F : contains(F[j], addr - 1)}
<1>1. CASE Q = {}
  BY Zenon, <1>1 DEF Merge
<1>2. CASE Q # {}
  <2>1. Q \subseteq Nat
    OBVIOUS
  <2>2. PICK m \in Q : \A j \in Q : m <= j
    BY Zenon, <1>2, <2>1, LeastElement
  <2> DEFINE before(seg) == contains(seg, addr - 1)
             first(j) == IsFirst(F, before, j)
             c == CHOOSE j \in DOMAIN F : IsFirst(F, before, j)
  <2>3. IsFirst(F, before, m)
    <3>1. ASSUME NEW j \in 1 .. m - 1 PROVE ~contains(F[j], addr - 1)
      BY <2>2
    <3> QED
      BY <3>1 DEF IsFirst
  <2>4. c \in DOMAIN F /\ IsFirst(F, before, c)
    BY Zenon, <2>3
  <2>5. contains(F[c], addr - 1)
    BY <2>4 DEF IsFirst
  <2>6. Merge(addr, size) = [F EXCEPT ![c].Size = @ + size]
    BY <1>2 DEF Merge
  <2> HIDE DEF c
  <2>7. F[c] \in Segments
    BY <2>4
  <2>8. [F[c] EXCEPT !.Size = @ + size] = Seg(F[c].BaseAddr, F[c].Size + size)
    <3>1. F[c] = [BaseAddr |-> F[c].BaseAddr, Size |-> F[c].Size]
      BY <2>7 DEF Segments
    <3> QED
      BY <3>1 DEF Seg
  <2>9. Merge(addr, size) = [F EXCEPT ![c] = Seg(F[c].BaseAddr, F[c].Size + size)]
    BY Zenon, <2>6, <2>8
  <2> QED
    BY Zenon, <2>4, <2>5, <2>9
<1> QED
  BY <1>1, <1>2

\* munmap of the first bytes of a segment of the heap
LEMMA DeallocTiles ==
  ASSUME Tiles(MemSegs, FreeMemSegs), NEW i \in DOMAIN MemSegs,
         NEW addr \in Heap, NEW size \in Nat \ {0},
         MemSegs[i].BaseAddr = addr, size <= MemSegs[i].Size
  PROVE  Tiles(Shrink(i, size), Merge(addr, size))
<1> DEFINE M == MemSegs
           F == FreeMemSegs
           x == Seg(addr, size)
           N == Shrink(i, size)
           G == Merge(addr, size)
<1>0. /\ Separate(M) /\ Separate(F) /\ heapstart \in Nat \ {0} /\ maxHeapSize \in Nat
      /\ \A j \in DOMAIN F : F[j] \in Segments /\ InHeap(F[j]) /\ Owned(F[j])
      /\ \A j \in DOMAIN M : M[j] \in Segments
      /\ F \in Seq(Segments)
  BY HeapAssumption DEF Tiles, Separate, InHeap, Owned
<1>1. addr \in Nat /\ addr >= heapstart /\ Owned(M[i]) /\ InHeap(M[i]) /\ addr \in Int
  BY <1>0 DEF Heap, Owned, Tiles
<1>2. /\ x \in Segments /\ x.BaseAddr = addr /\ x.Size = size /\ TopAddr(x) = addr + size
  BY Zenon, <1>1, SegFacts
<1>3. x = Seg(M[i].BaseAddr, size)
  OBVIOUS
<1>4. N = IF M[i].Size > size
            THEN [M EXCEPT ![i] = Seg(M[i].BaseAddr + size, M[i].Size - size)]
            ELSE Erase(M, i)
  <2>1. M[i].Size \in Nat
    BY <1>0 DEF Segments
  <2>2. size < M[i].Size <=> M[i].Size > size
    BY <2>1
  <2> QED
    BY <2>2 DEF Shrink
<1>5. \/ G = Append(F, x)
      \/ \E j \in DOMAIN F :
           /\ contains(F[j], addr - 1)
           /\ G = [F EXCEPT ![j] = Seg(F[j].BaseAddr, F[j].Size + size)]
  BY Zenon, <1>0, <1>1, MergeCases
<1>a. /\ Separate(M) /\ i \in DOMAIN M /\ Owned(M[i]) /\ size \in Nat \ {0}
      /\ size <= M[i].Size
  BY <1>0, <1>1
<1> HIDE DEF x, N, G
<1>6. Separate(N) /\ x.Size > 0 /\ Within(x, M[i])
  <2>1. Separate(N)
    BY <1>a, <1>3, <1>4, LosesFront
  <2>2. Within(x, M[i])
    BY <1>a, <1>3, <1>4, LosesFront
  <2> QED
    BY <1>2, <2>1, <2>2
<1>7. \A k \in DOMAIN N : Owned(N[k]) => Apart(N[k], x)
  BY <1>a, <1>3, <1>4, LosesFront
<1>8. \A k \in DOMAIN N : \E j \in DOMAIN M :
        Within(N[k], M[j]) /\ (Owned(N[k]) => Owned(M[j])) /\ (N[k] = M[j] \/ j = i)
  BY <1>a, <1>3, <1>4, LosesFront
<1>9. \A a \in Int : Covered(M, a) => Covered(N, a) \/ contains(x, a)
  BY <1>a, <1>3, <1>4, LosesFront
<1>10. \A k \in DOMAIN N : Owned(N[k]) =>
         \E j \in DOMAIN M : Owned(M[j]) /\ Within(N[k], M[j])
                              /\ (N[k].BaseAddr \in Heap => M[j].BaseAddr \in Heap)
  BY <1>8
<1>11. InHeap(x) /\ Owned(x) /\ \A j \in DOMAIN F : Apart(F[j], x)
  <2>1. InHeap(x) /\ Owned(x)
    BY <1>0, <1>1, <1>2, <1>6 DEF InHeap, Within, Owned, TopAddr, Segments
  <2>2. ASSUME NEW j \in DOMAIN F PROVE Apart(F[j], x)
    <3>1. Apart(F[j], M[i])
      BY <1>1 DEF Tiles, Apart
    <3> QED
      BY <1>0, <1>2, <1>6, <3>1, ApartWithin
  <2> QED
    BY <2>1, <2>2
<1>12. /\ Separate(G)
       /\ \A k \in DOMAIN G :
            /\ InHeap(G[k])
            /\ \A y \in Segments : y.Size > 0 /\
                 Apart(y, x) /\ (\A j \in DOMAIN F : Apart(y, F[j])) => Apart(y, G[k])
       /\ \A a \in Int : Covered(F, a) \/ contains(x, a) => Covered(G, a)
  <2>1. CASE G = Append(F, x)
    <3>0. ClearBut(F, 0, x)
      BY <1>11 DEF ClearBut
    <3>1. Separate(G)
      BY Zenon, <1>0, <1>2, <1>6, <2>1, <3>0, AddSegment
    <3>2. \A k \in DOMAIN G : G[k] = x \/ \E j \in DOMAIN F : G[k] = F[j]
      BY <1>0, <1>2, <1>6, <2>1, <3>0, AddSegment
    <3>3. \A a \in Int : Covered(F, a) => Covered(G, a)
      BY Zenon, <1>0, <1>2, <1>6, <2>1, <3>0, AddSegment
    <3>4. \A a \in Int : Owned(x) /\ contains(x, a) => Covered(G, a)
      BY Zenon, <1>0, <1>2, <1>6, <2>1, <3>0, AddSegment
    <3>5. \A k \in DOMAIN G : InHeap(G[k])
      BY <1>0, <1>11, <3>2, Zenon
    <3>6. \A k \in DOMAIN G : \A y \in Segments : y.Size > 0 /\
            Apart(y, x) /\ (\A j \in DOMAIN F : Apart(y, F[j])) => Apart(y, G[k])
      BY <3>2, Zenon
    <3> QED
      BY <1>11, <3>1, <3>3, <3>4, <3>5, <3>6, Zenon
  <2>2. ASSUME NEW m \in DOMAIN F, contains(F[m], addr - 1),
               G = [F EXCEPT ![m] = Seg(F[m].BaseAddr, F[m].Size + size)]
        PROVE  /\ Separate(G)
               /\ \A k \in DOMAIN G :
                    /\ InHeap(G[k])
                    /\ \A y \in Segments : y.Size > 0 /\
                         Apart(y, x) /\ (\A j \in DOMAIN F : Apart(y, F[j])) => Apart(y, G[k])
               /\ \A a \in Int : Covered(F, a) \/ contains(x, a) => Covered(G, a)
    <3> DEFINE z == Seg(F[m].BaseAddr, F[m].Size + size)
    <3>0. F[m] \in Segments /\ F[m].BaseAddr \in Nat /\ F[m].Size \in Nat
      BY <1>0 DEF Segments
    <3>1. TopAddr(F[m]) = addr /\ F[m].BaseAddr + F[m].Size = addr
      BY <1>1, <1>2, <1>11, <2>2, <3>0 DEF Apart, contains, TopAddr
    <3>2. /\ z \in Segments /\ z.BaseAddr = F[m].BaseAddr
          /\ z.Size = F[m].Size + size /\ TopAddr(z) = addr + size
      <4>1. F[m].Size + size \in Nat
        BY <3>0
      <4>2. /\ z \in Segments /\ z.BaseAddr = F[m].BaseAddr
            /\ z.Size = F[m].Size + size
            /\ TopAddr(z) = F[m].BaseAddr + (F[m].Size + size)
        <5> DEFINE c == F[m].Size + size
        <5>1. z = Seg(F[m].BaseAddr, c) /\ c \in Nat
          BY <4>1
        <5> HIDE DEF c, z
        <5>2. /\ z \in Segments /\ z.BaseAddr = F[m].BaseAddr
              /\ z.Size = c /\ TopAddr(z) = F[m].BaseAddr + c
          BY ZenonT(40), <3>0, <5>1, SegFacts
        <5> QED
          BY <5>2 DEF c
      <4> HIDE DEF z
      <4> QED
        BY <1>1, <3>0, <3>1, <4>2
    <3> HIDE DEF z
    <3>3. z.Size > 0 /\ InHeap(z) /\ Owned(z)
      <4>1. InHeap(F[m]) /\ Owned(F[m])
        BY <1>0
      <4> QED
        BY <1>0, <1>1, <1>2, <1>11, <3>0, <3>2, <4>1 DEF InHeap, Owned
    <3>4. ASSUME NEW y \in Segments, Apart(y, x), Apart(y, F[m]), y.Size > 0
          PROVE  Apart(y, z)
      BY <1>1, <1>2, <3>0, <3>1, <3>2, <3>4 DEF Apart, TopAddr, Segments
    <3>5. ClearBut(F, m, z)
      <4>1. ASSUME NEW j \in DOMAIN F, j # m PROVE Apart(F[j], z)
        <5>1. F[j] \in Segments /\ F[j].Size > 0 /\ Apart(F[j], F[m]) /\ Apart(F[j], x)
          BY <1>0, <1>11, <4>1 DEF Separate
        <5> QED
          BY <3>4, <5>1
      <4> QED
        BY <4>1 DEF ClearBut
    <3>6. G = [F EXCEPT ![m] = z]
      BY <2>2 DEF z
    <3>7. Separate(G)
      BY Zenon, <1>0, <3>2, <3>3, <3>5, <3>6, ReplaceSegment
    <3>8. \A k \in DOMAIN G : G[k] = z \/ \E j \in DOMAIN F \ {m} : G[k] = F[j]
      BY <1>0, <3>2, <3>3, <3>5, <3>6, ReplaceSegment
    <3>9. \A a \in Int : Covered(F, a) => Covered(G, a) \/ contains(F[m], a)
      BY Zenon, <1>0, <3>2, <3>3, <3>5, <3>6, ReplaceSegment
    <3>10. \A a \in Int : Owned(z) /\ contains(z, a) => Covered(G, a)
      BY Zenon, <1>0, <3>2, <3>3, <3>5, <3>6, ReplaceSegment
    <3>11. \A a \in Int : contains(F[m], a) \/ contains(x, a) => contains(z, a)
      BY <1>1, <1>2, <3>0, <3>1, <3>2 DEF contains
    <3>12. \A k \in DOMAIN G : InHeap(G[k])
      BY <1>0, <3>3, <3>8, Zenon
    <3>13. \A k \in DOMAIN G : \A y \in Segments : y.Size > 0 /\
             Apart(y, x) /\ (\A j \in DOMAIN F : Apart(y, F[j])) => Apart(y, G[k])
      BY <3>4, <3>8, Zenon
    <3>14. \A a \in Int : Covered(F, a) \/ contains(x, a) => Covered(G, a)
      BY <3>3, <3>9, <3>10, <3>11, Zenon
    <3> QED
      BY <3>7, <3>12, <3>13, <3>14, Zenon
  <2> QED
    BY <1>5, <2>1, <2>2
<1> QED
  BY <1>2, <1>6, <1>7, <1>9, <1>10, <1>12, Freed DEF x, N, G

-----------------------------------------------------------------------------
(* The inductive invariant.                                                *)

IHeap ==
  /\ TypeOK
  /\ odd = {} => Tiles(MemSegs, FreeMemSegs)

\* The next stack goes below every other.
IStacks ==
  /\ NextThreadMemAddr \in Int
  /\ ThreadMemSegs \in Seq([BaseAddr : Int, Size : Nat])
  /\ NextThreadMemAddr <= memSize - ArgSize
  /\ \A i \in DOMAIN ThreadMemSegs : NextThreadMemAddr < ThreadMemSegs[i].BaseAddr
  /\ StacksApart

Inv == IHeap /\ IStacks

LEMMA InitTiles == Init => Tiles(MemSegs, FreeMemSegs)
<1> SUFFICES ASSUME Init PROVE Tiles(MemSegs, FreeMemSegs)
  OBVIOUS
<1> DEFINE args == Seg(memSize - ArgSize, ArgSize)
           prog == Seg(0, StaticSize)
           heap == Seg(heapstart, maxHeapSize)
<1>0. /\ heapstart \in Nat \ {0} /\ maxHeapSize \in Nat \ {0} /\ StaticSize \in Nat
      /\ StaticSize > 0 /\ memSize \in Nat /\ ArgSize \in Nat /\ ArgSize > 0
      /\ memSize - ArgSize \in Nat /\ memSize - ArgSize >= heapstart + maxHeapSize
  BY HeapAssumption, ThreadAssumption, LayoutAssumption
<1>1. /\ args \in Segments /\ args.BaseAddr = memSize - ArgSize /\ args.Size = ArgSize
  <2> DEFINE b == memSize - ArgSize
  <2>1. args = Seg(b, ArgSize) /\ b \in Nat
    BY <1>0
  <2> HIDE DEF b, args
  <2>2. /\ args \in Segments /\ args.BaseAddr = b /\ args.Size = ArgSize
    BY Zenon, <1>0, <2>1, SegFacts
  <2> QED
    BY <2>2 DEF b
<1>2. /\ prog \in Segments /\ prog.BaseAddr = 0 /\ prog.Size = StaticSize
      /\ heap \in Segments /\ heap.BaseAddr = heapstart /\ heap.Size = maxHeapSize
  BY Zenon, <1>0, SegFacts
<1>3. MemSegs = <<args, prog>> /\ FreeMemSegs = <<heap>>
  BY DEF Init
<1> HIDE DEF args, prog, heap
<1>4. /\ MemSegs \in Seq(Segments) /\ DOMAIN MemSegs = {1, 2}
      /\ MemSegs[1] = args /\ MemSegs[2] = prog
      /\ FreeMemSegs \in Seq(Segments) /\ DOMAIN FreeMemSegs = {1}
      /\ FreeMemSegs[1] = heap
  BY <1>1, <1>2, <1>3
<1>5. Separate(MemSegs)
  <2>1. ~Owned(prog)
    BY <1>0, <1>2 DEF Owned
  <2> QED
    BY <1>0, <1>1, <1>2, <1>4, <2>1 DEF Separate
<1>6. Separate(FreeMemSegs)
  BY <1>0, <1>2, <1>4 DEF Separate
<1>7. \A k \in DOMAIN FreeMemSegs : InHeap(FreeMemSegs[k])
  BY <1>0, <1>2, <1>4 DEF InHeap, TopAddr
<1>8. \A j \in DOMAIN MemSegs : MemSegs[j].BaseAddr \in Heap => InHeap(MemSegs[j])
  BY <1>0, <1>1, <1>2, <1>4 DEF Heap
<1>9. \A j \in DOMAIN MemSegs, k \in DOMAIN FreeMemSegs :
        Owned(MemSegs[j]) => Apart(MemSegs[j], FreeMemSegs[k])
  BY <1>0, <1>1, <1>2, <1>4 DEF Owned, Apart, TopAddr
<1>10. \A a \in Heap : Covered(FreeMemSegs, a)
  BY <1>0, <1>2, <1>4 DEF Heap, Covered, Owned, contains, TopAddr
<1> QED
  BY <1>5, <1>6, <1>7, <1>8, <1>9, <1>10 DEF Tiles

LEMMA InitInv == Init => Inv
<1> SUFFICES ASSUME Init PROVE Inv
  OBVIOUS
<1>1. Tiles(MemSegs, FreeMemSegs)
  BY InitTiles
<1>2. /\ heapstart \in Nat /\ memSize \in Int /\ ArgSize \in Nat /\ PAGE_SIZE \in Nat
      /\ PAGE_SIZE > ArgSize /\ ThreadMemSize \in Nat
  BY HeapAssumption, ThreadAssumption
<1> DEFINE stack == Seg(memSize - ArgSize - ThreadMemSize, ThreadMemSize)
<1>3. /\ stack \in [BaseAddr : Int, Size : Nat]
      /\ stack.BaseAddr = memSize - ArgSize - ThreadMemSize
      /\ stack.Size = ThreadMemSize
  BY <1>2 DEF Seg
<1>4. ThreadMemSegs = <<stack>> /\ NextThreadMemAddr = memSize - ThreadMemSize - PAGE_SIZE
  BY DEF Init
<1> HIDE DEF stack
<1>5. /\ ThreadMemSegs \in Seq([BaseAddr : Int, Size : Nat]) /\ NextThreadMemAddr \in Int
      /\ DOMAIN ThreadMemSegs = {1} /\ ThreadMemSegs[1] = stack
  BY <1>2, <1>3, <1>4
<1>6. TypeOK
  <2>1. MemSegs \in Seq(Segments) /\ FreeMemSegs \in Seq(Segments)
    BY <1>1 DEF Tiles, Separate
  <2> QED
    BY Zenon, <1>2, <1>5, <2>1 DEF TypeOK, Init
<1>7. StacksApart
  BY <1>2, <1>3, <1>5 DEF StacksApart, TopAddr
<1>8. IStacks
  BY <1>2, <1>3, <1>4, <1>5, <1>7 DEF IStacks
<1> QED
  BY <1>1, <1>6, <1>8 DEF Inv, IHeap

\* A new stack
LEMMA StacksStep == IStacks /\ AddThreadMem => IStacks'
<1> SUFFICES ASSUME IStacks, AddThreadMem PROVE IStacks'
  OBVIOUS
<1> DEFINE base == NextThreadMemAddr - ThreadMemSize
           x == Seg(base, ThreadMemSize)
           S == [BaseAddr : Int, Size : Nat]
<1>0. /\ memSize \in Int /\ ArgSize \in Nat /\ ThreadMemSize \in Nat /\ pageSize \in Nat
      /\ NextThreadMemAddr \in Int /\ ThreadMemSegs \in Seq(S)
      /\ NextThreadMemAddr <= memSize - ArgSize
  BY ThreadAssumption DEF IStacks
<1>1. base \in Int /\ x \in S /\ x.BaseAddr = base /\ x.Size = ThreadMemSize
  BY <1>0 DEF Seg
<1>2. ThreadMemSegs' = Append(ThreadMemSegs, x) /\ NextThreadMemAddr' = base - pageSize - 1
  BY DEF AddThreadMem
<1>3. base + ThreadMemSize = NextThreadMemAddr /\ base - pageSize - 1 < base
      /\ base <= NextThreadMemAddr
  BY <1>0
<1> HIDE DEF base, x, S
<1>4. /\ ThreadMemSegs' \in Seq(S) /\ Len(ThreadMemSegs) \in Nat
      /\ DOMAIN ThreadMemSegs' = 1 .. Len(ThreadMemSegs) + 1
      /\ DOMAIN ThreadMemSegs = 1 .. Len(ThreadMemSegs)
      /\ \A i \in DOMAIN ThreadMemSegs :
           ThreadMemSegs'[i] = ThreadMemSegs[i] /\ ThreadMemSegs[i] \in S
      /\ ThreadMemSegs'[Len(ThreadMemSegs) + 1] = x
  BY <1>0, <1>1, <1>2
<1>5. \A i \in DOMAIN ThreadMemSegs' : i \in DOMAIN ThreadMemSegs \/ i = Len(ThreadMemSegs) + 1
  BY <1>4
<1>6. NextThreadMemAddr' \in Int /\ NextThreadMemAddr' < base
  BY <1>0, <1>1, <1>2, <1>3
<1>7. ASSUME NEW i \in DOMAIN ThreadMemSegs'
      PROVE  NextThreadMemAddr' < ThreadMemSegs'[i].BaseAddr
  <2>1. CASE i \in DOMAIN ThreadMemSegs
    <3>1. /\ NextThreadMemAddr < ThreadMemSegs[i].BaseAddr /\ ThreadMemSegs'[i] = ThreadMemSegs[i]
          /\ ThreadMemSegs[i].BaseAddr \in Int
      BY <1>4, <2>1 DEF IStacks, S
    <3> QED
      BY <1>0, <1>1, <1>3, <1>6, <3>1
  <2>2. CASE i = Len(ThreadMemSegs) + 1
    BY <1>1, <1>4, <1>6, <2>2
  <2> QED
    BY <1>5, <2>1, <2>2
<1>8. ASSUME NEW i \in DOMAIN ThreadMemSegs'
      PROVE  /\ TopAddr(ThreadMemSegs'[i]) <= memSize - ArgSize
             /\ \A j \in 1 .. i - 1 : TopAddr(ThreadMemSegs'[i]) < ThreadMemSegs'[j].BaseAddr
  <2>1. CASE i \in DOMAIN ThreadMemSegs
    <3>1. \A j \in 1 .. i - 1 : j \in DOMAIN ThreadMemSegs
      BY <1>4, <2>1
    <3> QED
      BY Zenon, <1>4, <2>1, <3>1 DEF IStacks, StacksApart
  <2>2. CASE i = Len(ThreadMemSegs) + 1
    <3>1. TopAddr(ThreadMemSegs'[i]) = NextThreadMemAddr
      BY <1>1, <1>3, <1>4, <2>2 DEF TopAddr
    <3>2. \A j \in 1 .. i - 1 : j \in DOMAIN ThreadMemSegs
      BY <1>4, <2>2
    <3> QED
      BY Zenon, <1>0, <1>4, <3>1, <3>2 DEF IStacks
  <2> QED
    BY <1>5, <2>1, <2>2
<1>9. NextThreadMemAddr' <= memSize - ArgSize
  BY <1>0, <1>1, <1>3, <1>6
<1>10. StacksApart'
  BY <1>8 DEF StacksApart, TopAddr
<1> QED
  BY <1>4, <1>6, <1>7, <1>9, <1>10 DEF IStacks, S

LEMMA CarveType ==
  ASSUME FreeMemSegs \in Seq(Segments), NEW i \in DOMAIN FreeMemSegs,
         NEW addr \in Nat, NEW size \in Nat, TookFront(i, addr, size)
  PROVE  Carve(i, addr, size) \in Seq(Segments)
<1> DEFINE F == FreeMemSegs
<1>1. /\ F[i] \in Segments /\ F[i].BaseAddr \in Nat /\ F[i].Size \in Nat
      /\ F[i].BaseAddr = addr /\ F[i].Size # size
  <2>1. F[i] \in Segments
    OBVIOUS
  <2> QED
    BY <2>1 DEF Segments, TookFront
<1>2. TopAddr(F[i]) # addr + size
  BY <1>1 DEF TopAddr
<1>3. Carve(i, addr, size) = [F EXCEPT ![i] = Seg(addr + size, F[i].Size)]
  BY <1>1, <1>2 DEF Carve
<1>4. Seg(addr + size, F[i].Size) \in Segments
  BY <1>1 DEF Seg, Segments
<1> QED
  BY <1>3, <1>4

LEMMA HeapStep == IHeap /\ [Next]_vars => IHeap'
<1> SUFFICES ASSUME IHeap, [Next]_vars PROVE IHeap'
  OBVIOUS
<1> USE DEF IHeap
<1>0. /\ heapstart \in Nat /\ maxHeapSize \in Nat /\ Sizes \subseteq Nat \ {0}
      /\ FixedAddrs \subseteq Nat /\ Heap \subseteq Nat
  BY HeapAssumption DEF Heap
<1>1. CASE UNCHANGED vars
  BY <1>1 DEF vars, threadVars, TypeOK
<1>2. ASSUME Fatal PROVE IHeap'
  BY <1>2 DEF Fatal, threadVars, TypeOK
<1>3. ASSUME NEW size \in Sizes, AllocMem(size) PROVE IHeap'
  <2>1. PICK i \in DOMAIN FreeMemSegs :
          /\ IsFirst(FreeMemSegs, LAMBDA seg : Fits(size, seg), i)
          /\ MemSegs' = Append(MemSegs, Seg(FreeMemSegs[i].BaseAddr, size))
          /\ FreeMemSegs' = TakeFront(i, size)
    BY Zenon, <1>3 DEF AllocMem
  <2>2. Fits(size, FreeMemSegs[i])
    BY <2>1 DEF IsFirst
  <2>3. odd = {} /\ Tiles(MemSegs, FreeMemSegs) /\ size \in Nat \ {0}
    BY <1>0, <1>3 DEF AllocMem, Running
  <2>4. Tiles(MemSegs', FreeMemSegs')
    BY <2>1, <2>2, <2>3, TakeFrontTiles
  <2>5. MemSegs' \in Seq(Segments) /\ FreeMemSegs' \in Seq(Segments)
    BY <2>4 DEF Tiles, Separate
  <2>6. TypeOK'
    BY <1>3, <2>5 DEF AllocMem, threadVars, TypeOK
  <2>7. Tiles(MemSegs, FreeMemSegs)'
    BY <2>4 DEF Tiles, Separate, Covered, Owned, Apart, InHeap, contains, TopAddr
  <2> QED
    BY <2>6, <2>7
<1>4. ASSUME NEW size \in Sizes, AllocMemExpand(size) PROVE IHeap'
  <2>1. CASE CanExpand(size)
    <3>1. /\ MemSegs' = Append(MemSegs, Seg(heapend, size)) /\ heapend' = heapend + size
          /\ odd' = odd \cup {"expand"} /\ UNCHANGED <<FreeMemSegs, threadVars, halted>>
      BY <1>4, <2>1 DEF AllocMemExpand
    <3>2. Seg(heapend, size) \in Segments /\ heapend + size \in Nat
      BY <1>0, <1>4 DEF TypeOK, Seg, Segments
    <3>3. MemSegs' \in Seq(Segments)
      BY <3>1, <3>2 DEF TypeOK
    <3>4. TypeOK'
      BY <3>1, <3>2, <3>3 DEF TypeOK, threadVars, Odd
    <3>5. odd' # {}
      BY <3>1
    <3> QED
      BY <3>4, <3>5
  <2>2. CASE ~CanExpand(size)
    BY <1>2, <1>4, <2>2 DEF AllocMemExpand
  <2> QED
    BY <2>1, <2>2
<1>5. ASSUME NEW addr \in FixedAddrs, NEW size \in Sizes, AllocMemAt(addr, size) PROVE IHeap'
  <2>1. PICK i \in DOMAIN FreeMemSegs :
          /\ IsFirst(FreeMemSegs, LAMBDA seg : containsRange(seg, addr, size), i)
          /\ MemSegs' = Append(MemSegs, Seg(addr, size))
          /\ FreeMemSegs' = Carve(i, addr, size)
          /\ odd' = IF TookFront(i, addr, size) THEN odd \cup {"front"} ELSE odd
    BY Zenon, <1>5 DEF AllocMemAt
  <2>2. containsRange(FreeMemSegs[i], addr, size)
    BY <2>1 DEF IsFirst
  <2>3. /\ odd = {} /\ Tiles(MemSegs, FreeMemSegs) /\ size \in Nat \ {0} /\ addr \in Nat
        /\ UNCHANGED <<heapend, threadVars, halted>>
    BY <1>0, <1>5 DEF AllocMemAt, Running
  <2>4. CASE TookFront(i, addr, size)
    <3>1. FreeMemSegs' \in Seq(Segments)
      BY <2>1, <2>3, <2>4, CarveType DEF TypeOK
    <3>2. Seg(addr, size) \in Segments
      BY <2>3 DEF Seg, Segments
    <3>3. MemSegs' \in Seq(Segments)
      BY <2>1, <3>2 DEF TypeOK
    <3>4. odd' = {"front"}
      BY <2>1, <2>3, <2>4
    <3> QED
      BY <2>3, <3>1, <3>3, <3>4 DEF TypeOK, threadVars, Odd
  <2>5. CASE ~TookFront(i, addr, size)
    <3>1. Tiles(MemSegs', FreeMemSegs')
      BY <2>1, <2>2, <2>3, <2>5, CarveTiles
    <3>2. MemSegs' \in Seq(Segments) /\ FreeMemSegs' \in Seq(Segments)
      BY <3>1 DEF Tiles, Separate
    <3>3. TypeOK'
      BY <2>1, <2>3, <2>5, <3>2 DEF TypeOK, threadVars
    <3>4. Tiles(MemSegs, FreeMemSegs)'
      BY <3>1 DEF Tiles, Separate, Covered, Owned, Apart, InHeap, contains, TopAddr
    <3> QED
      BY <3>3, <3>4
  <2> QED
    BY <2>4, <2>5
<1>6. ASSUME NEW addr \in Heap, NEW size \in Sizes, DeallocMem(addr, size) PROVE IHeap'
  <2>1. PICK i \in DOMAIN MemSegs :
          /\ IsFirst(MemSegs, LAMBDA seg : seg.BaseAddr = addr, i)
          /\ IF size > MemSegs[i].Size
               THEN Fatal
               ELSE /\ MemSegs' = Shrink(i, size)
                    /\ FreeMemSegs' = Merge(addr, size)
                    /\ UNCHANGED <<heapend, threadVars, halted, odd>>
    BY ZenonT(40), <1>6 DEF DeallocMem
  <2>2. MemSegs[i].BaseAddr = addr
    BY <2>1 DEF IsFirst
  <2>3. odd = {} /\ Tiles(MemSegs, FreeMemSegs) /\ size \in Nat \ {0}
    BY <1>0, <1>6 DEF DeallocMem, Running
  <2>4. CASE size > MemSegs[i].Size
    BY <1>2, <2>1, <2>4
  <2>5. CASE ~(size > MemSegs[i].Size)
    <3>1. MemSegs[i].Size \in Nat
      <4>1. MemSegs[i] \in Segments
        BY DEF TypeOK
      <4> QED
        BY <4>1 DEF Segments
    <3>2. size <= MemSegs[i].Size
      BY <2>3, <2>5, <3>1
    <3>3. Tiles(MemSegs', FreeMemSegs')
      BY <2>1, <2>2, <2>3, <2>5, <3>2, DeallocTiles
    <3>4. MemSegs' \in Seq(Segments) /\ FreeMemSegs' \in Seq(Segments)
      BY <3>3 DEF Tiles, Separate
    <3>5. TypeOK'
      BY <2>1, <2>5, <3>4 DEF TypeOK, threadVars
    <3>6. Tiles(MemSegs, FreeMemSegs)'
      BY <3>3 DEF Tiles, Separate, Covered, Owned, Apart, InHeap, contains, TopAddr
    <3> QED
      BY <3>5, <3>6
  <2> QED
    BY <2>4, <2>5
<1>7. ASSUME NEW addr \in Heap, brk(addr) PROVE IHeap'
  <2>1. CASE addr > heapend /\ addr <= maxHeapSize
    BY <1>0, <1>7, <2>1 DEF brk, threadVars, TypeOK
  <2>2. CASE ~(addr > heapend /\ addr <= maxHeapSize)
    BY <1>2, <1>7, <2>2 DEF brk
  <2> QED
    BY <2>1, <2>2
<1>8. ASSUME AddThreadMem PROVE IHeap'
  <2> DEFINE base == NextThreadMemAddr - ThreadMemSize
             x == Seg(base, ThreadMemSize)
  <2>1. NextThreadMemAddr \in Int /\ ThreadMemSize \in Nat /\ pageSize \in Nat
    BY ThreadAssumption DEF TypeOK
  <2>2. /\ x \in [BaseAddr : Int, Size : Nat] /\ base - pageSize - 1 \in Int
    BY <2>1 DEF Seg
  <2>3. /\ ThreadMemSegs' = Append(ThreadMemSegs, x) /\ NextThreadMemAddr' = base - pageSize - 1
        /\ UNCHANGED <<MemSegs, FreeMemSegs, heapend, halted, odd>>
    BY <1>8 DEF AddThreadMem
  <2> HIDE DEF x, base
  <2>4. ThreadMemSegs' \in Seq([BaseAddr : Int, Size : Nat])
    BY <2>2, <2>3 DEF TypeOK
  <2> QED
    BY <2>2, <2>3, <2>4 DEF TypeOK
<1> QED
  BY <1>1, <1>2, <1>3, <1>4, <1>5, <1>6, <1>7, <1>8
     DEF Next, mmap, mmapAt, munmap, AllocMemAtFails, DeallocMemFails

LEMMA InvStep == Inv /\ [Next]_vars => Inv'
<1> SUFFICES ASSUME Inv, [Next]_vars PROVE Inv'
  OBVIOUS
<1>1. IHeap'
  BY HeapStep DEF Inv
<1>2. CASE UNCHANGED threadVars
  <2>1. IStacks'
    BY <1>2 DEF Inv, IStacks, StacksApart, TopAddr, threadVars
  <2> QED
    BY <1>1, <2>1 DEF Inv
<1>3. CASE AddThreadMem
  BY <1>1, <1>3, StacksStep DEF Inv
<1>4. UNCHANGED threadVars \/ AddThreadMem
  <2>1. CASE UNCHANGED vars
    BY <2>1 DEF vars
  <2>2. ASSUME NEW size \in Sizes, mmap(size) PROVE UNCHANGED threadVars
    BY Zenon, <2>2 DEF mmap, AllocMem, AllocMemExpand, Fatal
  <2>3. ASSUME NEW addr \in FixedAddrs, NEW size \in Sizes, mmapAt(addr, size)
        PROVE  UNCHANGED threadVars
    BY Zenon, <2>3 DEF mmapAt, AllocMemAt, AllocMemAtFails, Fatal
  <2>4. ASSUME NEW addr \in Heap, NEW size \in Sizes, munmap(addr, size)
        PROVE  UNCHANGED threadVars
    BY ZenonT(40), <2>4 DEF munmap, DeallocMem, DeallocMemFails, Fatal, vars
  <2>5. ASSUME NEW addr \in Heap, brk(addr) PROVE UNCHANGED threadVars
    BY <2>5 DEF brk, Fatal
  <2> QED
    BY <2>1, <2>2, <2>3, <2>4, <2>5 DEF Next
<1> QED
  BY <1>2, <1>3, <1>4

LEMMA Invariance == Spec => []Inv
<1> QED
  BY InitInv, InvStep, PTL DEF Spec

\* Segments that tile the heap hold each of its addresses once.
LEMMA TilesPartition == IHeap => Partition
<1> SUFFICES ASSUME IHeap PROVE Partition
  OBVIOUS
<1>0. TypeOK /\ heapstart \in Nat /\ maxHeapSize \in Nat
  BY HeapAssumption DEF IHeap
<1>1. CASE odd # {}
  BY <1>0, <1>1 DEF Partition
<1>2. CASE odd = {}
  <2>0. Tiles(MemSegs, FreeMemSegs)
    BY <1>2 DEF IHeap
  <2>1. /\ \A i \in DOMAIN MemSegs : MemSegs[i] \in Segments /\ MemSegs[i].Size > 0
        /\ \A i \in DOMAIN FreeMemSegs :
             FreeMemSegs[i] \in Segments /\ FreeMemSegs[i].Size > 0 /\ InHeap(FreeMemSegs[i])
    BY <2>0 DEF Tiles, Separate
  <2>2. ASSUME NEW i \in DOMAIN FreeMemSegs
        PROVE  FreeMemSegs[i].BaseAddr \in Heap /\ TopAddr(FreeMemSegs[i]) - 1 \in Heap
               /\ Owned(FreeMemSegs[i])
    BY <1>0, <2>1 DEF InHeap, Heap, TopAddr, Segments, Owned
  <2>3. ASSUME NEW a \in Heap
        PROVE  Cardinality(Mapped(a)) + Cardinality(Holders(FreeMemSegs, a)) = 1
    <3>0. a \in Int
      BY <1>0 DEF Heap
    <3>a. \A s, t \in Segments : Apart(s, t) => ~(contains(s, a) /\ contains(t, a))
      BY <3>0 DEF Apart, contains, TopAddr, Segments
    <3>1. ASSUME NEW i \in Mapped(a)
          PROVE  Mapped(a) = {i} /\ Holders(FreeMemSegs, a) = {}
      <4>1. i \in DOMAIN MemSegs /\ contains(MemSegs[i], a) /\ Owned(MemSegs[i])
        BY DEF Mapped, Holders, Owned
      <4>2. ASSUME NEW j \in Mapped(a), j # i PROVE FALSE
        <5>1. j \in DOMAIN MemSegs /\ contains(MemSegs[j], a) /\ Owned(MemSegs[j])
          BY DEF Mapped, Holders, Owned
        <5>2. Apart(MemSegs[i], MemSegs[j])
          BY <2>0, <4>1, <4>2, <5>1 DEF Tiles, Separate
        <5> QED
          BY <2>1, <3>a, <4>1, <5>1, <5>2
      <4>3. ASSUME NEW j \in Holders(FreeMemSegs, a) PROVE FALSE
        <5>1. j \in DOMAIN FreeMemSegs /\ contains(FreeMemSegs[j], a)
          BY DEF Holders
        <5>2. Apart(MemSegs[i], FreeMemSegs[j])
          BY <2>0, <4>1, <5>1 DEF Tiles
        <5> QED
          BY <2>1, <3>a, <4>1, <5>1, <5>2
      <4> QED
        BY <4>2, <4>3
    <3>2. ASSUME NEW i \in Holders(FreeMemSegs, a)
          PROVE  Holders(FreeMemSegs, a) = {i}
      <4>1. i \in DOMAIN FreeMemSegs /\ contains(FreeMemSegs[i], a) /\ Owned(FreeMemSegs[i])
        BY <2>2 DEF Holders
      <4>2. ASSUME NEW j \in Holders(FreeMemSegs, a), j # i PROVE FALSE
        <5>1. j \in DOMAIN FreeMemSegs /\ contains(FreeMemSegs[j], a) /\ Owned(FreeMemSegs[j])
          BY <2>2 DEF Holders
        <5>2. Apart(FreeMemSegs[i], FreeMemSegs[j])
          BY <2>0, <4>1, <4>2, <5>1 DEF Tiles, Separate
        <5> QED
          BY <2>1, <3>a, <4>1, <5>1, <5>2
      <4> QED
        BY <4>2
    <3>3. Mapped(a) # {} \/ Holders(FreeMemSegs, a) # {}
      BY <2>0 DEF Tiles, Covered, Mapped, Holders, Owned
    <3>4. CASE Mapped(a) # {}
      <4>1. PICK i : i \in Mapped(a)
        BY <3>4
      <4>2. Cardinality(Mapped(a)) = 1 /\ Cardinality(Holders(FreeMemSegs, a)) = 0
        BY Zenon, <3>1, <4>1, FS_Singleton, FS_EmptySet
      <4> QED
        BY <4>2
    <3>5. CASE Mapped(a) = {}
      <4>1. PICK i : i \in Holders(FreeMemSegs, a)
        BY <3>3, <3>5
      <4>2. Cardinality(Mapped(a)) = 0 /\ Cardinality(Holders(FreeMemSegs, a)) = 1
        BY Zenon, <3>2, <3>5, <4>1, FS_Singleton, FS_EmptySet
      <4> QED
        BY <4>2
    <3> QED
      BY <3>4, <3>5
  <2> QED
    BY <1>0, <2>1, <2>2, <2>3 DEF Partition
<1> QED
  BY <1>1, <1>2

-----------------------------------------------------------------------------
(* The theorems.                                                           *)

\* AllocMem, AllocMemAt and DeallocMem never hand out a byte of the heap twice, lose
\* one, or keep it both free and allocated, for a heap of any size and any sequence
\* of calls up to the first that goes past the free list.
THEOREM HeapPartitioned == Spec => []Partition
<1>1. Inv => Partition
  BY TilesPartition DEF Inv
<1> QED
  BY <1>1, Invariance, PTL

\* AddThreadMem puts every stack below the arguments and below the stacks before it,
\* for any sizes and any number of threads.
THEOREM StacksSeparate == Spec => []StacksApart
<1>1. Inv => StacksApart
  BY DEF Inv, IStacks
<1> QED
  BY <1>1, Invariance, PTL

=============================================================================
