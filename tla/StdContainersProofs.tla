------------------------ MODULE StdContainersProofs ------------------------
(***************************************************************************)
(* What the operations of StdContainers do to the length and the elements  *)
(* of a sequence, and that they introduce no repetition.                   *)
(***************************************************************************)
EXTENDS StdContainers, Functions, TLAPS

\* The provers a leaf that names none is given to, in this order.
USE SMTT(10), ZenonT(10), SMTT(60), Z3T(60)

\* The elements of two vectors copied one behind the other.
LEMMA ConcatFacts ==
  ASSUME NEW S, NEW a \in Seq(S), NEW b \in Seq(S)
  PROVE  /\ a \o b \in Seq(S)
         /\ Len(a \o b) = Len(a) + Len(b)
         /\ \A i \in 1 .. Len(a) + Len(b) :
              (a \o b)[i] = IF i <= Len(a) THEN a[i] ELSE b[i - Len(a)]
OBVIOUS

\* emplace_back adds one element.
LEMMA AppendFacts ==
  ASSUME NEW S, NEW s \in Seq(S), NEW e \in S
  PROVE  /\ Append(s, e) \in Seq(S)
         /\ Range(Append(s, e)) = Range(s) \cup {e}
         /\ IsInjective(s) /\ e \notin Range(s) => IsInjective(Append(s, e))
<1>1. /\ Append(s, e) \in Seq(S)
      /\ DOMAIN Append(s, e) = 1 .. Len(s) + 1
      /\ \A i \in 1 .. Len(s) : Append(s, e)[i] = s[i]
      /\ Append(s, e)[Len(s) + 1] = e
      /\ DOMAIN s = 1 .. Len(s) /\ Len(s) \in Nat
  OBVIOUS
<1>2. Range(Append(s, e)) = Range(s) \cup {e}
  BY <1>1 DEF Range
<1>3. IsInjective(s) /\ e \notin Range(s) => IsInjective(Append(s, e))
  BY <1>1 DEF IsInjective, Range
<1> QED
  BY <1>1, <1>2, <1>3

\* erase(begin()) removes the first element and no other.
LEMMA TailFacts ==
  ASSUME NEW S, NEW s \in Seq(S), s # <<>>
  PROVE  /\ Head(s) \in S /\ Head(s) \in Range(s)
         /\ Tail(s) \in Seq(S)
         /\ Range(s) = Range(Tail(s)) \cup {Head(s)}
         /\ IsInjective(s) => IsInjective(Tail(s)) /\ Head(s) \notin Range(Tail(s))
<1>1. /\ Len(s) \in Nat \ {0} /\ DOMAIN s = 1 .. Len(s)
      /\ Head(s) = s[1] /\ Head(s) \in S
      /\ Tail(s) \in Seq(S)
      /\ DOMAIN Tail(s) = 1 .. Len(s) - 1
      /\ \A i \in 1 .. Len(s) - 1 : Tail(s)[i] = s[i + 1]
  OBVIOUS
<1>2. \A i \in 2 .. Len(s) : i - 1 \in 1 .. Len(s) - 1 /\ Tail(s)[i - 1] = s[i]
  BY <1>1
<1>3. Range(s) = Range(Tail(s)) \cup {Head(s)}
  <2>1. ASSUME NEW i \in DOMAIN s PROVE s[i] \in Range(Tail(s)) \cup {Head(s)}
    <3>1. CASE i = 1
      BY <1>1, <3>1
    <3>2. CASE i # 1
      <4>1. i \in 2 .. Len(s)
        BY <1>1, <3>2
      <4>2. i - 1 \in DOMAIN Tail(s) /\ Tail(s)[i - 1] = s[i]
        BY <1>1, <1>2, <4>1
      <4> QED
        BY <4>2 DEF Range
    <3> QED
      BY <3>1, <3>2
  <2>2. ASSUME NEW i \in DOMAIN Tail(s) PROVE Tail(s)[i] \in Range(s)
    <3>1. i + 1 \in DOMAIN s /\ Tail(s)[i] = s[i + 1]
      BY <1>1
    <3> QED
      BY <3>1 DEF Range
  <2>3. Head(s) \in Range(s)
    BY <1>1 DEF Range
  <2> QED
    BY <2>1, <2>2, <2>3 DEF Range
<1>4. ASSUME IsInjective(s)
      PROVE  IsInjective(Tail(s)) /\ Head(s) \notin Range(Tail(s))
  BY <1>1, <1>4 DEF IsInjective, Range
<1> QED
  BY <1>1, <1>3, <1>4

\* erase(it) moves the elements behind the iterator one place to the front.
LEMMA EraseElements ==
  ASSUME NEW S, NEW s \in Seq(S), NEW k \in 1 .. Len(s)
  PROVE  /\ Erase(s, k) \in Seq(S)
         /\ Len(Erase(s, k)) = Len(s) - 1 /\ DOMAIN Erase(s, k) = 1 .. Len(s) - 1
         /\ \A i \in 1 .. k - 1 : Erase(s, k)[i] = s[i]
         /\ \A i \in k .. Len(s) - 1 : Erase(s, k)[i] = s[i + 1]
<1> DEFINE r == Erase(s, k)
           a == SubSeq(s, 1, k - 1)
           b == SubSeq(s, k + 1, Len(s))
<1>0. Len(s) \in Nat /\ DOMAIN s = 1 .. Len(s) /\ k \in Int /\ 1 <= k /\ k <= Len(s)
  OBVIOUS
<1>1. /\ a \in Seq(S) /\ Len(a) = k - 1
      /\ \A i \in 1 .. k - 1 : a[i] = s[i]
  BY <1>0
<1>2. /\ b \in Seq(S) /\ Len(b) = Len(s) - k
      /\ \A i \in 1 .. Len(s) - k : b[i] = s[k + i]
  <2>1. \A i \in k + 1 .. Len(s) : s[i] \in S
    BY <1>0
  <2>2. /\ b \in Seq(S)
        /\ Len(b) = IF k + 1 <= Len(s) THEN Len(s) - (k + 1) + 1 ELSE 0
        /\ \A i \in 1 .. Len(s) - (k + 1) + 1 : b[i] = s[(k + 1) + i - 1]
    BY <1>0, <2>1
  <2>3. Len(s) - (k + 1) + 1 = Len(s) - k
    BY <1>0
  <2>4. \A i \in 1 .. Len(s) - k : (k + 1) + i - 1 = k + i
    BY <1>0
  <2> HIDE DEF b
  <2>5. Len(b) = Len(s) - k
    <3>1. CASE k = Len(s)
      BY <1>0, <2>2, <3>1
    <3>2. CASE k < Len(s)
      <4>1. k + 1 <= Len(s)
        BY <1>0, <3>2
      <4> QED
        BY <2>2, <2>3, <4>1
    <3>3. \A m, n \in Int : m <= n => m = n \/ m < n
      OBVIOUS
    <3>4. Len(s) \in Int /\ k \in Int /\ k <= Len(s)
      BY <1>0
    <3>5. k = Len(s) \/ k < Len(s)
      BY <3>3, <3>4
    <3> QED
      BY <3>1, <3>2, <3>5
  <2> QED
    BY Zenon, <2>2, <2>3, <2>4, <2>5
<1>3. /\ r \in Seq(S) /\ Len(r) = Len(s) - 1 /\ DOMAIN r = 1 .. Len(s) - 1
      /\ \A i \in 1 .. k - 1 : r[i] = s[i]
      /\ \A i \in k .. Len(s) - 1 : r[i] = s[i + 1]
  <2> HIDE DEF a, b
  <2>1. /\ a \o b \in Seq(S)
        /\ Len(a \o b) = Len(s) - 1
        /\ \A i \in 1 .. Len(s) - 1 :
             (a \o b)[i] = IF i <= k - 1 THEN a[i] ELSE b[i - (k - 1)]
    <3>1. Len(a) + Len(b) = Len(s) - 1
      BY <1>0, <1>1, <1>2
    <3>2. /\ a \o b \in Seq(S)
          /\ Len(a \o b) = Len(a) + Len(b)
          /\ \A i \in 1 .. Len(a) + Len(b) :
               (a \o b)[i] = IF i <= Len(a) THEN a[i] ELSE b[i - Len(a)]
      BY Zenon, <1>1, <1>2, ConcatFacts
    <3> QED
      BY <1>1, <3>1, <3>2
  <2>2. r = a \o b
    BY DEF Erase, a, b
  <2>3. DOMAIN (a \o b) = 1 .. Len(s) - 1
    BY <2>1
  <2>4. ASSUME NEW i \in 1 .. k - 1 PROVE (a \o b)[i] = s[i]
    BY <1>0, <1>1, <2>1
  <2>5. ASSUME NEW i \in k .. Len(s) - 1 PROVE (a \o b)[i] = s[i + 1]
    <3>1. i - (k - 1) \in 1 .. Len(s) - k /\ k + (i - (k - 1)) = i + 1
      BY <1>0
    <3>2. (a \o b)[i] = b[i - (k - 1)]
      BY <1>0, <2>1
    <3> QED
      BY Zenon, <1>2, <3>1, <3>2
  <2> QED
    BY Zenon, <2>1, <2>2, <2>3, <2>4, <2>5
<1> QED
  BY <1>3 DEF r

\* erase(it) removes the element at the iterator and no other.
LEMMA EraseFacts ==
  ASSUME NEW S, NEW s \in Seq(S), NEW k \in 1 .. Len(s)
  PROVE  /\ Erase(s, k) \in Seq(S)
         /\ Len(Erase(s, k)) = Len(s) - 1
         /\ Range(s) = Range(Erase(s, k)) \cup {s[k]}
         /\ IsInjective(s) => /\ IsInjective(Erase(s, k))
                           /\ s[k] \notin Range(Erase(s, k))
<1> DEFINE r == Erase(s, k)
<1>0. Len(s) \in Nat /\ DOMAIN s = 1 .. Len(s) /\ k \in Int /\ 1 <= k /\ k <= Len(s)
  OBVIOUS
<1>3. /\ r \in Seq(S) /\ Len(r) = Len(s) - 1 /\ DOMAIN r = 1 .. Len(s) - 1
      /\ \A i \in 1 .. k - 1 : r[i] = s[i]
      /\ \A i \in k .. Len(s) - 1 : r[i] = s[i + 1]
  BY Zenon, EraseElements
<1> HIDE DEF r
<1>4. \A i \in k + 1 .. Len(s) : i - 1 \in k .. Len(s) - 1 /\ r[i - 1] = s[i]
  BY <1>0, <1>3
<1>5. Range(s) = Range(r) \cup {s[k]}
  <2>1. ASSUME NEW i \in DOMAIN s PROVE s[i] \in Range(r) \cup {s[k]}
    <3>1. CASE i < k
      <4>1. i \in DOMAIN r /\ r[i] = s[i]
        BY <1>0, <1>3, <3>1
      <4> QED
        BY <4>1 DEF Range
    <3>2. CASE i > k
      <4>1. i - 1 \in DOMAIN r /\ r[i - 1] = s[i]
        BY <1>0, <1>3, <1>4, <3>2
      <4> QED
        BY <4>1 DEF Range
    <3> QED
      BY <1>0, <3>1, <3>2
  <2>2. ASSUME NEW i \in DOMAIN r PROVE r[i] \in Range(s)
    <3>1. PICK j \in DOMAIN s : r[i] = s[j]
      <4>1. CASE i < k
        BY <1>0, <1>3, <4>1
      <4>2. CASE i >= k
        <5>1. i + 1 \in DOMAIN s /\ r[i] = s[i + 1]
          BY <1>0, <1>3, <4>2
        <5> QED
          BY <5>1
      <4> QED
        BY <1>0, <1>3, <4>1, <4>2
    <3> QED
      BY <3>1 DEF Range
  <2> QED
    BY <1>0, <2>1, <2>2 DEF Range
<1>6. ASSUME IsInjective(s) PROVE IsInjective(r) /\ s[k] \notin Range(r)
  <2>1. IsInjective(r)
    <3> SUFFICES ASSUME NEW i \in DOMAIN r, NEW j \in DOMAIN r, r[i] = r[j]
                 PROVE  i = j
      BY DEF IsInjective
    <3> DEFINE old(n) == IF n < k THEN n ELSE n + 1
    <3>1. /\ old(i) \in DOMAIN s /\ r[i] = s[old(i)]
          /\ old(j) \in DOMAIN s /\ r[j] = s[old(j)]
      BY <1>0, <1>3
    <3>2. old(i) = old(j)
      BY Zenon, <1>6, <3>1 DEF IsInjective
    <3> QED
      BY <1>0, <1>3, <3>2
  <2>2. s[k] \notin Range(r)
    <3> SUFFICES ASSUME NEW i \in DOMAIN r, r[i] = s[k] PROVE FALSE
      BY DEF Range
    <3> DEFINE old == IF i < k THEN i ELSE i + 1
    <3>1. old \in DOMAIN s /\ r[i] = s[old] /\ old # k
      BY <1>0, <1>3
    <3> QED
      BY Zenon, <1>0, <1>6, <3>1 DEF IsInjective
  <2> QED
    BY <2>1, <2>2
<1> QED
  BY <1>3, <1>5, <1>6 DEF r

\* erase(it) keeps the order of the elements.
LEMMA EraseOrder ==
  ASSUME NEW S, NEW s \in Seq(S), NEW k \in 1 .. Len(s),
         NEW i \in DOMAIN Erase(s, k), NEW j \in DOMAIN Erase(s, k), i < j
  PROVE  \E u, v \in DOMAIN s : u < v /\ Erase(s, k)[i] = s[u] /\ Erase(s, k)[j] = s[v]
<1> DEFINE old(n) == IF n < k THEN n ELSE n + 1
<1> DEFINE r == Erase(s, k)
<1>1. /\ Len(s) \in Nat /\ DOMAIN s = 1 .. Len(s) /\ DOMAIN r = 1 .. Len(s) - 1
      /\ \A n \in 1 .. k - 1 : r[n] = s[n]
      /\ \A n \in k .. Len(s) - 1 : r[n] = s[n + 1]
  BY EraseElements
<1> HIDE DEF r
<1>2. \A n \in DOMAIN r : old(n) \in DOMAIN s /\ r[n] = s[old(n)]
  BY <1>1
<1>3. i \in DOMAIN r /\ j \in DOMAIN r
  BY DEF r
<1>4. old(i) < old(j)
  BY <1>1, <1>3
<1>5. r[i] = s[old(i)] /\ r[j] = s[old(j)] /\ old(i) \in DOMAIN s /\ old(j) \in DOMAIN s
  BY <1>2, <1>3
<1> QED
  BY <1>4, <1>5 DEF r

\* An assignment to an element replaces it and no other.
LEMMA ReplaceFacts ==
  ASSUME NEW S, NEW s \in Seq(S), NEW k \in 1 .. Len(s), NEW e \in S, IsInjective(s)
  PROVE  /\ [s EXCEPT ![k] = e] \in Seq(S)
         /\ Range([s EXCEPT ![k] = e]) = (Range(s) \ {s[k]}) \cup {e}
         /\ e \notin Range(s) \ {s[k]} => IsInjective([s EXCEPT ![k] = e])
<1> DEFINE r == [s EXCEPT ![k] = e]
<1>1. /\ r \in Seq(S) /\ DOMAIN r = DOMAIN s /\ k \in DOMAIN s
      /\ r[k] = e /\ \A i \in DOMAIN s : i # k => r[i] = s[i]
  OBVIOUS
<1> HIDE DEF r
<1>2. \A i \in DOMAIN s : i # k => s[i] # s[k]
  BY <1>1 DEF IsInjective
<1>3. Range(r) = (Range(s) \ {s[k]}) \cup {e}
  BY <1>1, <1>2 DEF Range
<1>4. ASSUME e \notin Range(s) \ {s[k]} PROVE IsInjective(r)
  BY <1>1, <1>2, <1>4 DEF Range, IsInjective
<1> QED
  BY <1>1, <1>3, <1>4 DEF r

\* push_front adds one element.
LEMMA PushFrontFacts ==
  ASSUME NEW S, NEW s \in Seq(S), NEW e \in S
  PROVE  /\ PushFront(s, e) \in Seq(S)
         /\ Len(PushFront(s, e)) = Len(s) + 1
         /\ Range(PushFront(s, e)) = Range(s) \cup {e}
         /\ IsInjective(s) /\ e \notin Range(s) => IsInjective(PushFront(s, e))
<1> DEFINE r == PushFront(s, e)
<1>0. Len(s) \in Nat /\ DOMAIN s = 1 .. Len(s)
  OBVIOUS
<1>1. /\ r \in Seq(S) /\ Len(r) = Len(s) + 1 /\ DOMAIN r = 1 .. Len(s) + 1
      /\ r[1] = e
      /\ \A i \in 2 .. Len(s) + 1 : r[i] = s[i - 1]
  <2>1. <<e>> \in Seq(S) /\ Len(<<e>>) = 1 /\ <<e>>[1] = e
    OBVIOUS
  <2>2. /\ <<e>> \o s \in Seq(S)
        /\ Len(<<e>> \o s) = 1 + Len(s)
        /\ \A i \in 1 .. 1 + Len(s) :
             (<<e>> \o s)[i] = IF i <= 1 THEN <<e>>[i] ELSE s[i - 1]
    BY <2>1
  <2> QED
    BY <1>0, <2>1, <2>2 DEF PushFront
<1>2. \A i \in 1 .. Len(s) : i + 1 \in 2 .. Len(s) + 1 /\ r[i + 1] = s[i]
  BY <1>0, <1>1
<1> HIDE DEF r
<1>3. Range(r) = Range(s) \cup {e}
  <2>1. ASSUME NEW i \in DOMAIN r PROVE r[i] \in Range(s) \cup {e}
    <3>1. CASE i = 1
      BY <1>1, <3>1
    <3>2. CASE i # 1
      <4>1. i - 1 \in DOMAIN s /\ r[i] = s[i - 1]
        BY <1>0, <1>1, <3>2
      <4> QED
        BY <4>1 DEF Range
    <3> QED
      BY <3>1, <3>2
  <2>2. ASSUME NEW i \in DOMAIN s PROVE s[i] \in Range(r)
    <3>1. i + 1 \in DOMAIN r /\ r[i + 1] = s[i]
      BY <1>0, <1>1, <1>2
    <3> QED
      BY <3>1 DEF Range
  <2>3. e \in Range(r)
    BY <1>0, <1>1 DEF Range
  <2> QED
    BY <2>1, <2>2, <2>3 DEF Range
<1>4. ASSUME IsInjective(s), e \notin Range(s) PROVE IsInjective(r)
  <2> SUFFICES ASSUME NEW i \in DOMAIN r, NEW j \in DOMAIN r, r[i] = r[j]
               PROVE  i = j
    BY DEF IsInjective
  <2>1. \A k \in DOMAIN r : k = 1 \/ (k - 1 \in DOMAIN s /\ r[k] = s[k - 1])
    BY <1>0, <1>1
  <2>2. \A k \in DOMAIN s : s[k] # e
    BY <1>4 DEF Range
  <2> QED
    BY <1>0, <1>1, <1>4, <2>1, <2>2 DEF IsInjective
<1> QED
  BY <1>1, <1>3, <1>4 DEF r

\* pop_back removes the last element and no other.
LEMMA PopBackFacts ==
  ASSUME NEW S, NEW s \in Seq(S), Len(s) # 0
  PROVE  /\ PopBack(s) \in Seq(S)
         /\ Len(PopBack(s)) = Len(s) - 1
         /\ Range(PopBack(s)) \subseteq Range(s)
         /\ IsInjective(s) => IsInjective(PopBack(s))
<1>0. Len(s) \in Nat /\ DOMAIN s = 1 .. Len(s) /\ Len(s) - 1 \in Nat
  OBVIOUS
<1>1. /\ PopBack(s) \in Seq(S) /\ Len(PopBack(s)) = Len(s) - 1
      /\ \A i \in 1 .. Len(s) - 1 : PopBack(s)[i] = s[i]
  BY <1>0 DEF PopBack
<1>2. DOMAIN PopBack(s) = 1 .. Len(s) - 1
  BY <1>1
<1>3. DOMAIN PopBack(s) \subseteq DOMAIN s
  BY <1>0, <1>2
<1>4. Range(PopBack(s)) \subseteq Range(s)
  BY <1>1, <1>2, <1>3 DEF Range
<1>5. IsInjective(s) => IsInjective(PopBack(s))
  BY <1>1, <1>2, <1>3 DEF IsInjective
<1> QED
  BY <1>1, <1>4, <1>5

=============================================================================
