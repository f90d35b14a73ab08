-------------------------- MODULE RetrievalProofs --------------------------
(***************************************************************************)
(* What a search returns, for any rows, any texts and any writers beside   *)
(* it.                                                                     *)
(***************************************************************************)
EXTENDS Retrieval, FiniteSetTheorems, FunctionTheorems, SequenceTheorems, TLAPS

(***************************************************************************)
(* Sorting.  Before[x] is what comes before x in a strict total order of   *)
(* S: the number of elements that do is different for each, and so takes   *)
(* every value from 0 to Cardinality(S) - 1.                               *)
(***************************************************************************)
StrictOrder(S, Before) ==
    /\ IsFiniteSet(S)
    /\ Before \in [S -> SUBSET S]
    /\ \A x \in S : x \notin Before[x]
    /\ \A x, y \in S : x # y => x \in Before[y] \/ y \in Before[x]
    /\ \A x, y \in S : y \in Before[x] => Before[y] \subseteq Before[x]

Sorts(s, S, Before) ==
    /\ DOMAIN s = 1 .. Cardinality(S)
    /\ Cardinality(S) \in Nat
    /\ \A k \in DOMAIN s : s[k] \in S
    /\ \A x \in S : \E k \in DOMAIN s : s[k] = x
    /\ \A i, j \in DOMAIN s : i < j => s[i] \in Before[s[j]]

LEMMA PlacesApart ==
  ASSUME NEW S, NEW Before, StrictOrder(S, Before)
  PROVE  /\ Cardinality(S) \in Nat
         /\ \A x \in S : Cardinality(Before[x]) \in 0 .. Cardinality(S) - 1
         /\ \A x, y \in S : y \in Before[x] => Cardinality(Before[y]) < Cardinality(Before[x])
<1>1. IsFiniteSet(S) /\ Cardinality(S) \in Nat
  BY FS_CardinalityType DEF StrictOrder
<1>2. \A x \in S : IsFiniteSet(Before[x]) /\ Cardinality(Before[x]) \in Nat
  BY <1>1, FS_Subset, FS_CardinalityType DEF StrictOrder
<1>3. \A x \in S : Cardinality(Before[x]) < Cardinality(S)
  <2>1. TAKE x \in S
  <2>2. Before[x] \in SUBSET S /\ Before[x] # S
    BY DEF StrictOrder
  <2> QED
    BY <1>1, <1>2, <2>2, FS_Subset
<1>4. ASSUME NEW x \in S, NEW y \in S, y \in Before[x]
      PROVE  Cardinality(Before[y]) < Cardinality(Before[x])
  <2>1. Before[y] \in SUBSET Before[x] /\ Before[y] # Before[x]
    BY <1>4 DEF StrictOrder
  <2> QED
    BY <1>2, <2>1, FS_Subset
<1> QED
  BY <1>1, <1>2, <1>3, <1>4

LEMMA EveryPlaceTaken ==
  ASSUME NEW S, NEW Before, StrictOrder(S, Before), NEW k \in 1 .. Cardinality(S)
  PROVE  \E x \in S : Cardinality(Before[x]) = k - 1
<1> DEFINE n == Cardinality(S)
           place == [x \in S |-> Cardinality(Before[x])]
<1>1. n \in Nat /\ IsFiniteSet(S) /\ IsFiniteSet(0 .. n - 1) /\ Cardinality(0 .. n - 1) = n
  <2>1. n \in Nat /\ IsFiniteSet(S)
    BY PlacesApart DEF StrictOrder
  <2> HIDE DEF n
  <2>2. 0 \in Int /\ n - 1 \in Int
    BY <2>1
  <2>3. /\ IsFiniteSet(0 .. n - 1)
        /\ Cardinality(0 .. n - 1) = IF 0 > n - 1 THEN 0 ELSE (n - 1) - 0 + 1
    BY <2>2, FS_Interval
  <2> QED
    BY <2>1, <2>3
<1>2. place \in [S -> 0 .. n - 1]
  BY PlacesApart
<1>3. \A x, y \in S : place[x] = place[y] => x = y
  BY <1>2, PlacesApart DEF StrictOrder
<1>4. place \in Injection(S, 0 .. n - 1)
  BY <1>2, <1>3, Fun_IsInj
<1>5. place \in Surjection(S, 0 .. n - 1)
  BY <1>1, <1>4, FS_Injection
<1>6. k - 1 \in 0 .. n - 1
  BY <1>1
<1>7. PICK x \in S : place[x] = k - 1
  <2> HIDE DEF n, place
  <2>1. \A i \in 0 .. n - 1 : \E x \in S : place[x] = i
    BY <1>5, Fun_SurjectionProperties, Zenon
  <2> QED
    BY <1>6, <2>1
<1> QED
  BY <1>7

LEMMA PlacedSorts ==
  ASSUME NEW S, NEW Before, StrictOrder(S, Before),
         NEW s, DOMAIN s = 1 .. Cardinality(S),
         \A k \in DOMAIN s : s[k] \in S /\ Cardinality(Before[s[k]]) = k - 1
  PROVE  Sorts(s, S, Before)
<1>1. Cardinality(S) \in Nat
  BY PlacesApart
<1>2. ASSUME NEW x \in S  PROVE \E k \in DOMAIN s : s[k] = x
  <2>1. Cardinality(Before[x]) \in 0 .. Cardinality(S) - 1
    BY PlacesApart
  <2> DEFINE k == Cardinality(Before[x]) + 1
  <2>2. k \in DOMAIN s /\ Cardinality(Before[s[k]]) = Cardinality(Before[x])
    BY <1>1, <2>1
  <2>3. s[k] = x
    BY <2>1, <2>2, PlacesApart DEF StrictOrder
  <2> QED
    BY <2>2, <2>3
<1>3. ASSUME NEW i \in DOMAIN s, NEW j \in DOMAIN s, i < j  PROVE s[i] \in Before[s[j]]
  <2>1. /\ s[i] \in S /\ s[j] \in S
        /\ Cardinality(Before[s[i]]) = i - 1 /\ Cardinality(Before[s[j]]) = j - 1
    OBVIOUS
  <2>2. s[i] # s[j] /\ ~ (Cardinality(Before[s[j]]) < Cardinality(Before[s[i]]))
    BY <1>1, <1>3, <2>1
  <2> QED
    BY <2>1, <2>2, PlacesApart DEF StrictOrder
<1> QED
  BY <1>1, <1>2, <1>3 DEF Sorts

-----------------------------------------------------------------------------
(* Sequences *)

IsSeq(s) == \E n \in Nat : DOMAIN s = 1 .. n /\ s = [i \in 1 .. n |-> s[i]]

LEMMA SeqOfElements ==
  ASSUME NEW s, IsSeq(s)
  PROVE  s \in Seq(Elements(s)) /\ Len(s) \in Nat /\ DOMAIN s = 1 .. Len(s)
<1>1. PICK n \in Nat : DOMAIN s = 1 .. n /\ s = [i \in 1 .. n |-> s[i]]
  BY DEF IsSeq
<1>2. s \in [1 .. n -> Elements(s)]
  BY <1>1 DEF Elements
<1>3. s \in Seq(Elements(s))
  BY <1>2, SeqDef
<1> QED
  BY <1>3, LenProperties

LEMMA LenOfDomain ==
  ASSUME NEW s, IsSeq(s), NEW n \in Nat, DOMAIN s = 1 .. n
  PROVE  Len(s) = n
<1>1. Len(s) \in Nat /\ 1 .. Len(s) = 1 .. n
  BY SeqOfElements
<1>2. ASSUME Len(s) < n  PROVE FALSE
  <2>1. n \in 1 .. n
    BY <1>1, <1>2
  <2> QED
    BY <1>1, <1>2, <2>1
<1>3. ASSUME n < Len(s)  PROVE FALSE
  <2>1. Len(s) \in 1 .. Len(s)
    BY <1>1, <1>3
  <2> QED
    BY <1>1, <1>3, <2>1
<1> QED
  BY <1>1, <1>2, <1>3

LEMMA FirstKeeps ==
  ASSUME NEW s, IsSeq(s), NEW n \in Nat
  PROVE  /\ IsSeq(First(n, s)) /\ Elements(First(n, s)) \subseteq Elements(s)
         /\ Len(First(n, s)) <= n
         /\ Len(First(n, s)) # n => Elements(First(n, s)) = Elements(s)
         /\ DOMAIN First(n, s) = 1 .. Len(First(n, s))
         /\ \A i \in DOMAIN First(n, s) : i \in DOMAIN s /\ First(n, s)[i] = s[i]
<1> DEFINE m == IF n < Len(s) THEN n ELSE Len(s)
           t == SubSeq(s, 1, m)
<1>1. s \in Seq(Elements(s)) /\ Len(s) \in Nat /\ DOMAIN s = 1 .. Len(s)
  BY SeqOfElements
<1>2. m \in Nat /\ m <= n /\ m <= Len(s)
  BY <1>1
<1>3. \A i \in 1 .. m : s[i] \in Elements(s)
  BY <1>1, <1>2 DEF Elements
<1>4. t \in Seq(Elements(s)) /\ Len(t) = m /\ \A i \in 1 .. m : t[i] = s[i]
  <2> HIDE DEF m
  <2> QED
    BY <1>2, <1>3, SubSeqProperties
<1>5. t \in [1 .. m -> Elements(s)] /\ DOMAIN t = 1 .. m
  BY <1>4, LenProperties
<1>6. IsSeq(t)
  BY <1>2, <1>5 DEF IsSeq
<1>7. Elements(t) \subseteq Elements(s)
  BY <1>5 DEF Elements
<1>8. m # n => Elements(t) = Elements(s)
  <2> SUFFICES ASSUME m # n PROVE Elements(s) \subseteq Elements(t)
    BY <1>7
  <2>1. m = Len(s)
    OBVIOUS
  <2> HIDE DEF m, t
  <2> QED
    BY <1>1, <1>4, <1>5, <2>1 DEF Elements
<1>9. t = First(n, s)
  BY DEF First
<1>10. \A i \in DOMAIN t : i \in DOMAIN s /\ t[i] = s[i]
  <2> HIDE DEF m, t
  <2> QED
    BY <1>1, <1>2, <1>4, <1>5
<1> HIDE DEF m, t
<1> QED
  BY <1>2, <1>4, <1>5, <1>6, <1>7, <1>8, <1>9, <1>10

LEMMA ConcatElements ==
  ASSUME NEW s, IsSeq(s), NEW t, IsSeq(t)
  PROVE  /\ IsSeq(s \o t) /\ Elements(s \o t) = Elements(s) \cup Elements(t)
         /\ Len(s \o t) = Len(s) + Len(t)
<1> DEFINE S == Elements(s) \cup Elements(t)
           u == s \o t
<1>1. /\ s \in Seq(Elements(s)) /\ Len(s) \in Nat /\ DOMAIN s = 1 .. Len(s)
      /\ t \in Seq(Elements(t)) /\ Len(t) \in Nat /\ DOMAIN t = 1 .. Len(t)
  BY SeqOfElements
<1>2. s \in Seq(S) /\ t \in Seq(S)
  BY <1>1, SeqMonotonic
<1>3. /\ u \in Seq(S) /\ Len(u) = Len(s) + Len(t)
      /\ \A i \in 1 .. Len(s) + Len(t) : u[i] = IF i <= Len(s) THEN s[i] ELSE t[i - Len(s)]
  BY <1>2, ConcatProperties
<1> HIDE DEF u
<1>4. u \in [1 .. Len(u) -> S] /\ DOMAIN u = 1 .. Len(u)
  BY <1>3, LenProperties
<1>5. IsSeq(u)
  BY <1>1, <1>3, <1>4 DEF IsSeq
<1>6. Elements(u) \subseteq S
  BY <1>4 DEF Elements
<1>7. Elements(s) \subseteq Elements(u)
  BY <1>1, <1>3, <1>4 DEF Elements
<1>8. ASSUME NEW j \in 1 .. Len(t)  PROVE t[j] \in Elements(u)
  <2>1. Len(s) + j \in 1 .. Len(u) /\ u[Len(s) + j] = t[j]
    BY <1>1, <1>3
  <2> QED
    BY <1>4, <2>1 DEF Elements
<1> QED
  BY <1>1, <1>3, <1>5, <1>6, <1>7, <1>8 DEF u, Elements

LEMMA SortsElements ==
  ASSUME NEW s, NEW S, NEW Before, Sorts(s, S, Before), s = [k \in 1 .. Cardinality(S) |-> s[k]]
  PROVE  IsSeq(s) /\ Elements(s) = S
BY DEF Sorts, IsSeq, Elements

LEMMA InOrderSorts ==
  ASSUME NEW S \in SUBSET Int, IsFiniteSet(S)
  PROVE  /\ IsSeq(InOrder(S)) /\ Elements(InOrder(S)) = S
         /\ Len(InOrder(S)) = Cardinality(S)
         /\ \A i, j \in DOMAIN InOrder(S) : i < j => InOrder(S)[i] < InOrder(S)[j]
<1> DEFINE B == [x \in S |-> {y \in S : y < x}]
           s == InOrder(S)
<1>1. StrictOrder(S, B)
  <2>1. \A x \in S : x \in Int
    OBVIOUS
  <2>2. B \in [S -> SUBSET S] /\ \A x \in S : B[x] = {y \in S : y < x}
    BY Zenon
  <2> HIDE DEF B
  <2>3. \A x \in S : x \notin B[x]
    BY <2>1, <2>2
  <2>4. \A x, y \in S : x # y => x \in B[y] \/ y \in B[x]
    BY <2>1, <2>2
  <2>5. \A x, y \in S : y \in B[x] => B[y] \subseteq B[x]
    <3>1. ASSUME NEW x \in S, NEW y \in S, y \in B[x], NEW z \in B[y]  PROVE z \in B[x]
      <4>1. z \in S /\ z < y /\ y < x
        BY <2>2, <3>1
      <4>2. z < x
        BY <2>1, <4>1
      <4> QED
        BY <2>2, <4>1, <4>2
    <3> QED
      BY <3>1
  <2>6. IsFiniteSet(S)
    OBVIOUS
  <2> QED
    BY <2>2, <2>3, <2>4, <2>5, <2>6 DEF StrictOrder
<1>2. \A k \in 1 .. Cardinality(S) : \E x \in S : Cardinality({y \in S : y < x}) = k - 1
  <2>1. TAKE k \in 1 .. Cardinality(S)
  <2>2. PICK x \in S : Cardinality(B[x]) = k - 1
    BY <1>1, EveryPlaceTaken
  <2> QED
    BY <2>2
<1>3. s = [k \in 1 .. Cardinality(S) |-> CHOOSE x \in S : Cardinality({y \in S : y < x}) = k - 1]
  BY DEF InOrder, SortedBy
<1>4. \A k \in 1 .. Cardinality(S) : s[k] \in S /\ Cardinality({y \in S : y < s[k]}) = k - 1
  BY <1>2, <1>3
<1>5. DOMAIN s = 1 .. Cardinality(S) /\ s = [k \in 1 .. Cardinality(S) |-> s[k]]
  BY <1>3
<1> HIDE DEF s
<1>6. \A k \in DOMAIN s : s[k] \in S /\ Cardinality(B[s[k]]) = k - 1
  BY <1>4, <1>5
<1>7. Sorts(s, S, B)
  BY <1>1, <1>5, <1>6, PlacedSorts
<1>8. IsSeq(s) /\ Elements(s) = S
  BY <1>5, <1>7, SortsElements
<1>9. Len(s) = Cardinality(S)
  <2>1. Cardinality(S) \in Nat
    BY FS_CardinalityType
  <2> QED
    BY <1>5, <1>8, <2>1, LenOfDomain
<1>10. \A i, j \in DOMAIN s : i < j => s[i] < s[j]
  BY <1>7 DEF Sorts
<1> QED
  BY <1>8, <1>9, <1>10 DEF s

-----------------------------------------------------------------------------
(* Least and greatest, and what is picked from a sequence by its place *)

LEMMA Greatest ==
  ASSUME NEW S \in SUBSET Int, IsFiniteSet(S), S # {}
  PROVE  /\ \E m \in S : \A x \in S : m >= x
         /\ \E m \in S : \A x \in S : m <= x
<1> DEFINE s == InOrder(S)
           n == Cardinality(S)
<1>1. n \in Nat /\ n # 0
  BY FS_CardinalityType, FS_EmptySet
<1>2. /\ IsSeq(s) /\ Elements(s) = S /\ Len(s) = n
      /\ \A i, j \in DOMAIN s : i < j => s[i] < s[j]
  BY InOrderSorts
<1>3. DOMAIN s = 1 .. n
  BY <1>2, SeqOfElements
<1> HIDE DEF s, n
<1>4. 1 \in DOMAIN s /\ n \in DOMAIN s /\ \A i \in DOMAIN s : i \in Int /\ s[i] \in S /\ s[i] \in Int
  <2>1. \A i \in DOMAIN s : s[i] \in S
    BY <1>2 DEF Elements
  <2>2. 1 \in 1 .. n /\ n \in 1 .. n /\ \A i \in 1 .. n : i \in Int
    BY <1>1
  <2> QED
    BY <1>3, <2>1, <2>2
<1>5. \A i \in DOMAIN s : s[n] >= s[i] /\ s[1] <= s[i]
  <2>1. TAKE i \in DOMAIN s
  <2>2. (i = n \/ i < n) /\ (i = 1 \/ 1 < i)
    BY <1>1, <1>3
  <2> QED
    BY <1>2, <1>4, <2>2
<1>6. \A x \in S : \E i \in DOMAIN s : x = s[i]
  BY <1>2 DEF Elements
<1> QED
  BY <1>4, <1>5, <1>6

LEMMA PlacesFinite ==
  ASSUME NEW n \in Nat, NEW K, K \subseteq 1 .. n
  PROVE  K \in SUBSET Int /\ IsFiniteSet(K)
<1>1. IsFiniteSet(1 .. n)
  BY FS_Interval
<1>2. IsFiniteSet(K)
  BY <1>1, FS_Subset
<1> QED
  BY <1>2

LEMMA PlacesBound ==
  ASSUME NEW n \in Nat, NEW K, K \subseteq 1 .. n
  PROVE  Cardinality(K) \in Nat /\ Cardinality(K) <= n
<1>1. IsFiniteSet(1 .. n) /\ Cardinality(1 .. n) = n
  <2>1. IsFiniteSet(1 .. n) /\ Cardinality(1 .. n) = IF 1 > n THEN 0 ELSE n - 1 + 1
    BY FS_Interval
  <2> QED
    BY <2>1
<1>2. IsFiniteSet(K) /\ Cardinality(K) <= Cardinality(1 .. n)
  BY <1>1, FS_Subset
<1> QED
  BY <1>1, <1>2, FS_CardinalityType

LEMMA Picked ==
  ASSUME NEW s, IsSeq(s), NEW K \in SUBSET DOMAIN s,
         NEW t, t = [k \in DOMAIN InOrder(K) |-> s[InOrder(K)[k]]]
  PROVE  /\ IsSeq(t) /\ Elements(t) = {s[i] : i \in K}
         /\ Len(t) = Cardinality(K) /\ Len(t) <= Len(s)
<1> DEFINE places == InOrder(K)
<1>1. DOMAIN s = 1 .. Len(s) /\ Len(s) \in Nat
  BY SeqOfElements
<1>2. K \in SUBSET Int /\ IsFiniteSet(K)
  BY <1>1, PlacesFinite
<1>3. IsSeq(places) /\ Elements(places) = K /\ Len(places) = Cardinality(K)
  BY <1>2, InOrderSorts
<1>4. Len(places) \in Nat /\ DOMAIN places = 1 .. Len(places) /\ Len(places) <= Len(s)
  BY <1>1, <1>3, SeqOfElements, PlacesBound
<1> HIDE DEF places
<1>5. t = [k \in DOMAIN places |-> s[places[k]]]
  BY DEF places
<1>6. IsSeq(t)
  BY <1>4, <1>5 DEF IsSeq
<1>7. Elements(t) = {s[i] : i \in K}
  <2>1. DOMAIN t = DOMAIN places /\ \A k \in DOMAIN t : t[k] = s[places[k]] /\ places[k] \in K
    BY <1>3, <1>5 DEF Elements
  <2>2. \A i \in K : \E k \in DOMAIN t : t[k] = s[i]
    BY <1>3, <1>5 DEF Elements
  <2> QED
    BY <2>1, <2>2 DEF Elements
<1>8. Len(t) = Len(places)
  BY <1>4, <1>5, <1>6, LenOfDomain
<1> QED
  BY <1>3, <1>4, <1>6, <1>7, <1>8

\* The records of the hits, each once.
LEMMA HitIdsElements ==
  ASSUME NEW hits, IsSeq(hits)
  PROVE  /\ IsSeq(HitIds(hits)) /\ Elements(HitIds(hits)) = {h.record : h \in Elements(hits)}
         /\ Len(HitIds(hits)) <= Len(hits)
<1> DEFINE K == {i \in DOMAIN hits : \A j \in 1 .. i - 1 : hits[j].record # hits[i].record}
           recs == [i \in DOMAIN hits |-> hits[i].record]
           ids == HitIds(hits)
<1>1. DOMAIN hits = 1 .. Len(hits) /\ Len(hits) \in Nat
  BY SeqOfElements
<1>2. IsSeq(recs) /\ DOMAIN recs = DOMAIN hits
  BY <1>1 DEF IsSeq
<1>3. K \in SUBSET Int /\ IsFiniteSet(K) /\ K \in SUBSET DOMAIN recs
  <2>1. K \subseteq 1 .. Len(hits)
    BY <1>1
  <2> HIDE DEF K
  <2> QED
    BY <1>1, <1>2, <2>1, PlacesFinite
<1>4. Elements(InOrder(K)) = K
  BY <1>3, InOrderSorts
<1>5. \A k \in DOMAIN InOrder(K) : InOrder(K)[k] \in DOMAIN hits
  BY <1>4 DEF Elements
<1>6. ids = [k \in DOMAIN InOrder(K) |-> hits[InOrder(K)[k]].record]
  BY DEF HitIds
<1> HIDE DEF K, ids
<1>7. ids = [k \in DOMAIN InOrder(K) |-> recs[InOrder(K)[k]]]
  BY <1>5, <1>6
<1>8. IsSeq(ids) /\ Elements(ids) = {recs[i] : i \in K} /\ Len(ids) <= Len(hits)
  <2>1. Len(recs) = Len(hits)
    BY <1>1, <1>2, LenOfDomain
  <2> HIDE DEF recs
  <2> QED
    BY <1>2, <1>3, <1>7, <2>1, Picked
<1>9. ASSUME NEW h \in Elements(hits)  PROVE h.record \in Elements(ids)
  <2> DEFINE same == {i \in DOMAIN hits : hits[i].record = h.record}
  <2>1. PICK i \in DOMAIN hits : hits[i] = h
    BY DEF Elements
  <2>2. same \in SUBSET Int /\ IsFiniteSet(same) /\ same # {}
    <3>1. same \subseteq 1 .. Len(hits) /\ same # {}
      BY <1>1, <2>1
    <3> HIDE DEF same
    <3> QED
      BY <1>1, <3>1, PlacesFinite
  <2>3. PICK m \in same : \A j \in same : m <= j
    BY <2>2, Greatest
  <2>4. \A j \in 1 .. m - 1 : j \in DOMAIN hits /\ j \in Int /\ j < m
    BY <1>1, <2>3
  <2>5. m \in K
    BY <1>1, <2>3, <2>4 DEF K
  <2>6. recs[m] = h.record
    BY <2>3
  <2> QED
    BY <1>8, <2>5, <2>6
<1>10. \A i \in K : recs[i] \in {h.record : h \in Elements(hits)}
  BY <1>3 DEF Elements
<1> QED
  BY <1>8, <1>9, <1>10 DEF ids

LEMMA RowsByIdsElements ==
  ASSUME NEW ids, IsSeq(ids)
  PROVE  /\ IsSeq(RowsByIds(ids))
         /\ Elements(RowsByIds(ids)) =
                {rows[i] : i \in {j \in Elements(ids) : Live(rows[j]) /\ InOrg(rows[j])}}
<1> DEFINE s == [k \in DOMAIN ids |-> rows[ids[k]]]
           K == {k \in DOMAIN s : Live(s[k]) /\ InOrg(s[k])}
<1>1. DOMAIN ids = 1 .. Len(ids) /\ Len(ids) \in Nat
  BY SeqOfElements
<1>2. IsSeq(s)
  BY <1>1 DEF IsSeq
<1>3. RowsByIds(ids) = [k \in DOMAIN InOrder(K) |-> s[InOrder(K)[k]]]
  BY DEF RowsByIds, Selected
<1>4. K \in SUBSET DOMAIN s
  OBVIOUS
<1>5. IsSeq(RowsByIds(ids)) /\ Elements(RowsByIds(ids)) = {s[k] : k \in K}
  <2> HIDE DEF s, K
  <2> QED
    BY <1>2, <1>3, <1>4, Picked
<1>6. {s[k] : k \in K} = {rows[i] : i \in {j \in Elements(ids) : Live(rows[j]) /\ InOrg(rows[j])}}
  BY DEF Elements
<1> QED
  BY <1>5, <1>6

-----------------------------------------------------------------------------
(* The queries *)

IsPoint(p) == p.score \in Int /\ p.record \in Int /\ p.chunk \in Int
Keyed(P) == \A p, q \in P : p.record = q.record /\ p.chunk = q.chunk => p = q

LEMMA QueryFinds ==
  ASSUME NEW P, IsFiniteSet(P), \A p \in P : IsPoint(p), Keyed(P),
         NEW filter, NEW limit \in Nat
  PROVE  LET found == Query(P, filter, limit)
             matching == {p \in P : Matches(p, filter)}
         IN  /\ IsSeq(found) /\ Elements(found) \subseteq matching
             /\ Len(found) <= limit
             /\ Len(found) # limit => Elements(found) = matching
<1> DEFINE S == {p \in P : Matches(p, filter)}
           before(p, q) == \/ p.score > q.score
                           \/ /\ p.score = q.score
                              /\ \/ p.record < q.record
                                 \/ p.record = q.record /\ p.chunk < q.chunk
           B == [x \in S |-> {y \in S : before(y, x)}]
           s == SortedBy(S, before)
<1>1. IsFiniteSet(S) /\ S \subseteq P
  BY FS_Subset
<1> HIDE DEF S
<1>2. B \in [S -> SUBSET S] /\ \A x \in S : B[x] = {y \in S : before(y, x)}
  BY Zenon
<1>3. \A p \in S : IsPoint(p)
  BY <1>1
<1>4. StrictOrder(S, B)
  <2> HIDE DEF B
  <2>1. \A x \in S : x \notin B[x]
    BY <1>2, <1>3 DEF IsPoint
  <2>2. \A x, y \in S : x # y => x \in B[y] \/ y \in B[x]
    <3>1. TAKE x, y \in S
    <3>2. x # y => before(x, y) \/ before(y, x)
      BY <1>1, <1>3 DEF IsPoint, Keyed
    <3> QED
      BY <1>2, <3>2
  <2>3. \A x, y \in S : y \in B[x] => B[y] \subseteq B[x]
    <3>1. ASSUME NEW x \in S, NEW y \in S, y \in B[x], NEW z \in B[y]  PROVE z \in B[x]
      <4>1. z \in S /\ before(z, y) /\ before(y, x)
        BY <1>2, <3>1
      <4>2. before(z, x)
        BY <1>3, <4>1 DEF IsPoint
      <4> QED
        BY <1>2, <4>1, <4>2
    <3> QED
      BY <3>1
  <2> QED
    BY <1>1, <1>2, <2>1, <2>2, <2>3 DEF StrictOrder
<1>5. \A k \in 1 .. Cardinality(S) : \E x \in S : Cardinality({y \in S : before(y, x)}) = k - 1
  <2>1. TAKE k \in 1 .. Cardinality(S)
  <2>2. \E x \in S : Cardinality(B[x]) = k - 1
    <3> HIDE DEF B
    <3> QED
      BY <1>4, EveryPlaceTaken
  <2>3. PICK x \in S : Cardinality(B[x]) = k - 1
    BY <2>2
  <2> QED
    BY <1>2, <2>3
<1>6. s = [k \in 1 .. Cardinality(S) |-> CHOOSE x \in S : Cardinality({y \in S : before(y, x)}) = k - 1]
  BY DEF SortedBy
<1>7. \A k \in 1 .. Cardinality(S) : s[k] \in S /\ Cardinality({y \in S : before(y, s[k])}) = k - 1
  <2> HIDE DEF before, B
  <2> QED
    BY <1>5, <1>6
<1>8. DOMAIN s = 1 .. Cardinality(S) /\ s = [k \in 1 .. Cardinality(S) |-> s[k]]
  BY <1>6
<1>9. Query(P, filter, limit) = First(limit, s)
  BY DEF Query, S
<1> HIDE DEF s
<1>10. \A k \in DOMAIN s : s[k] \in S /\ Cardinality(B[s[k]]) = k - 1
  BY <1>7, <1>8
<1> HIDE DEF B, before
<1>11. Sorts(s, S, B)
  BY <1>4, <1>8, <1>10, PlacedSorts
<1>12. IsSeq(s) /\ Elements(s) = S
  BY <1>8, <1>11, SortsElements
<1> QED
  BY <1>9, <1>12, FirstKeeps DEF S

-----------------------------------------------------------------------------
(* The lexical query *)

LEMMA SearchMemoryFinds ==
  ASSUME NEW table, IsFiniteSet(LiveRows(table)), \A r \in LiveRows(table) : IsRow(r),
         \A r, s \in LiveRows(table) : r.id = s.id => r = s,
         NEW limit \in Nat
  PROVE  LET found == SearchMemory(table, limit)
         IN  /\ IsSeq(found) /\ Len(found) <= limit
             /\ \A r \in Elements(found) : r \in LiveRows(table) /\ InScope(r) /\ InOrg(r)
<1> DEFINE S == {r \in LiveRows(table) : InScope(r) /\ InOrg(r) /\ LexicallyMatches(r.text)}
           before(r, s) == \/ RepositoryScore(r.text) > RepositoryScore(s.text)
                           \/ /\ RepositoryScore(r.text) = RepositoryScore(s.text)
                              /\ r.id > s.id
           B == [x \in S |-> {y \in S : before(y, x)}]
           s == SortedBy(S, before)
<1>1. IsFiniteSet(S) /\ S \subseteq LiveRows(table)
  BY FS_Subset
<1>2. S \subseteq {r \in LiveRows(table) : InScope(r) /\ InOrg(r)}
  OBVIOUS
<1>3. SearchMemory(table, limit) = First(limit, s)
  BY DEF SearchMemory
<1> HIDE DEF S
<1>4. B \in [S -> SUBSET S] /\ \A x \in S : B[x] = {y \in S : before(y, x)}
  BY Zenon
<1>5. \A r \in S : RepositoryScore(r.text) \in Int /\ r.id \in Int
  BY <1>1 DEF IsRow, IsText, RepositoryScore
<1>6. StrictOrder(S, B)
  <2> HIDE DEF B
  <2>1. \A x \in S : x \notin B[x]
    BY <1>4, <1>5
  <2>2. \A x, y \in S : x # y => x \in B[y] \/ y \in B[x]
    <3>1. TAKE x, y \in S
    <3>2. x # y => x.id # y.id
      BY <1>1
    <3>3. x # y => before(x, y) \/ before(y, x)
      BY <1>5, <3>2
    <3> QED
      BY <1>4, <3>3
  <2>3. \A x, y \in S : y \in B[x] => B[y] \subseteq B[x]
    <3>1. ASSUME NEW x \in S, NEW y \in S, y \in B[x], NEW z \in B[y]  PROVE z \in B[x]
      <4>1. z \in S /\ before(z, y) /\ before(y, x)
        BY <1>4, <3>1
      <4>2. before(z, x)
        BY <1>5, <4>1
      <4> QED
        BY <1>4, <4>1, <4>2
    <3> QED
      BY <3>1
  <2> QED
    BY <1>1, <1>4, <2>1, <2>2, <2>3 DEF StrictOrder
<1>7. s = [k \in 1 .. Cardinality(S) |-> CHOOSE x \in S : Cardinality({y \in S : before(y, x)}) = k - 1]
  BY DEF SortedBy
<1>8. \A k \in 1 .. Cardinality(S) : \E x \in S : Cardinality({y \in S : before(y, x)}) = k - 1
  <2>1. TAKE k \in 1 .. Cardinality(S)
  <2>2. \E x \in S : Cardinality(B[x]) = k - 1
    <3> HIDE DEF B
    <3> QED
      BY <1>6, EveryPlaceTaken
  <2>3. PICK x \in S : Cardinality(B[x]) = k - 1
    BY <2>2
  <2> QED
    BY <1>4, <2>3
<1>9. \A k \in 1 .. Cardinality(S) : s[k] \in S /\ Cardinality({y \in S : before(y, s[k])}) = k - 1
  <2> HIDE DEF before, B
  <2> QED
    BY <1>7, <1>8
<1>10. DOMAIN s = 1 .. Cardinality(S) /\ s = [k \in 1 .. Cardinality(S) |-> s[k]]
  BY <1>7
<1> HIDE DEF s
<1>11. \A k \in DOMAIN s : s[k] \in S /\ Cardinality(B[s[k]]) = k - 1
  BY <1>9, <1>10
<1> HIDE DEF B, before
<1>12. Sorts(s, S, B)
  BY <1>6, <1>10, <1>11, PlacedSorts
<1>13. IsSeq(s) /\ Elements(s) = S
  BY <1>10, <1>12, SortsElements
<1> QED
  BY <1>2, <1>3, <1>13, FirstKeeps

-----------------------------------------------------------------------------
(* The ranking *)

LEMMA RankCounts ==
  ASSUME NEW ids, IsSeq(ids), NEW score, NEW id
  PROVE  RankOf(ids, score, id) \in Nat \ {0} /\ RankOf(ids, score, id) <= 1 + Len(ids)
<1> DEFINE at(x) == CHOOSE i \in DOMAIN ids : ids[i] = x
           K == {i \in DOMAIN ids : \/ score[ids[i]] > score[id]
                                    \/ /\ score[ids[i]] = score[id]
                                       /\ i < at(id)}
<1>1. K \subseteq 1 .. Len(ids) /\ Len(ids) \in Nat
  BY SeqOfElements
<1>2. RankOf(ids, score, id) = 1 + Cardinality(K)
  BY DEF RankOf
<1> HIDE DEF K
<1>3. IsFiniteSet(K)
  BY <1>1, PlacesFinite
<1>4. Cardinality(K) \in Nat /\ Cardinality(K) <= Len(ids)
  BY <1>1, <1>3, PlacesBound
<1> QED
  BY <1>1, <1>2, <1>4

\* Who scores higher is not placed lower.
LEMMA RankFollowsScore ==
  ASSUME NEW ids, IsSeq(ids), NEW score, \A x \in Elements(ids) : score[x] \in Int,
         NEW a, NEW b, score[a] \in Int, score[b] \in Int, score[a] > score[b]
  PROVE  RankOf(ids, score, a) <= RankOf(ids, score, b)
<1> DEFINE at(x) == CHOOSE i \in DOMAIN ids : ids[i] = x
           K(x) == {i \in DOMAIN ids : \/ score[ids[i]] > score[x]
                                       \/ /\ score[ids[i]] = score[x]
                                          /\ i < at(x)}
           Ka == K(a)
           Kb == K(b)
<1>1. RankOf(ids, score, a) = 1 + Cardinality(Ka) /\ RankOf(ids, score, b) = 1 + Cardinality(Kb)
  BY DEF RankOf
<1>2. Ka \subseteq 1 .. Len(ids) /\ Kb \subseteq 1 .. Len(ids) /\ Len(ids) \in Nat
  BY SeqOfElements
<1>3. Ka \subseteq Kb
  <2>1. ASSUME NEW i \in Ka  PROVE i \in Kb
    <3>1. i \in DOMAIN ids /\ score[ids[i]] >= score[a] /\ score[ids[i]] \in Int
      BY DEF Elements
    <3>2. score[ids[i]] > score[b]
      BY <3>1
    <3> QED
      BY <3>1, <3>2
  <2> HIDE DEF Ka, Kb
  <2> QED
    BY <2>1
<1> HIDE DEF Ka, Kb
<1>4. IsFiniteSet(Ka) /\ IsFiniteSet(Kb)
  BY <1>2, PlacesFinite
<1>5. Cardinality(Ka) <= Cardinality(Kb) /\ Cardinality(Ka) \in Nat /\ Cardinality(Kb) \in Nat
  BY <1>3, <1>4, FS_Subset, FS_CardinalityType
<1> QED
  BY <1>1, <1>5

LEMMA Quotient ==
  ASSUME NEW a \in Int, NEW b \in Nat \ {0}
  PROVE  a \div b \in Int
OBVIOUS

LEMMA QuotientBounds ==
  ASSUME NEW a \in Nat, NEW b \in Nat \ {0}
  PROVE  /\ a \div b \in Nat
         /\ b * (a \div b) <= a /\ a < b * (a \div b) + b
OBVIOUS

LEMMA ProductGrows ==
  ASSUME NEW a \in Nat, NEW b \in Nat, NEW c \in Nat, a <= b
  PROVE  a * c <= b * c
OBVIOUS

LEMMA QuotientShrinks ==
  ASSUME NEW a \in Nat, NEW b \in Nat \ {0}, NEW c \in Nat, b <= c
  PROVE  a \div c <= a \div b
<1> DEFINE q == a \div b
           r == a \div c
<1>1. /\ q \in Nat /\ b * q <= a /\ a < b * q + b
      /\ r \in Nat /\ c * r <= a /\ a < c * r + c
  BY QuotientBounds
<1> HIDE DEF q, r
<1>2. ASSUME q + 1 <= r  PROVE FALSE
  <2>1. (q + 1) * b <= r * b
    BY <1>1, <1>2, ProductGrows
  <2>2. b * r <= c * r
    BY <1>1, ProductGrows
  <2> QED
    BY <1>1, <2>1, <2>2
<1>3. r <= q
  BY <1>1, <1>2
<1> QED
  BY <1>3 DEF q, r

\* What a rank leaves of a score: less the later it is, never more than all.
Share(rank) == (Scale * 61) \div (Unit * (60 + rank))
Clamped(raw) == AtMost(Unit, AtLeast(0, raw))

LEMMA Shares ==
  ASSUME NEW m \in Nat \ {0}
  PROVE  /\ Share(m) \in Nat
         /\ Unit * Share(m) <= Scale
         /\ Scale * 61 >= Unit * (60 + m) => Share(m) > 0
         /\ \A n \in Nat : m <= n => Share(n) <= Share(m)
<1> DEFINE a == Scale * 61
           b == Unit * (60 + m)
           q == Share(m)
<1>1. a \in Nat /\ b \in Nat \ {0}
  BY ScaleAssumption DEF Unit
<1>2. q \in Nat /\ b * q <= a /\ a < b * q + b
  <2>1. q = a \div b
    BY DEF Share
  <2>2. LET d == a \div b IN d \in Nat /\ b * d <= a /\ a < b * d + b
    <3> HIDE DEF a, b
    <3> QED
      BY <1>1, QuotientBounds
  <2> HIDE DEF a, b, q
  <2> QED
    BY <2>1, <2>2, Zenon
<1>3. Unit * q <= Scale
  <2>1. 2440 <= b
    BY DEF Unit
  <2> DEFINE least == 2440
  <2>2. least * q <= b * q
    <3>1. least \in Nat /\ b \in Nat /\ q \in Nat /\ least <= b
      BY <1>1, <1>2, <2>1
    <3> HIDE DEF b, q, least
    <3> QED
      BY <3>1, ProductGrows
  <2> DEFINE p == b * q
  <2>3. p \in Nat /\ 2440 * q <= p /\ p <= a
    BY <1>1, <1>2, <2>2
  <2> HIDE DEF p, q
  <2> QED
    BY <1>2, <2>3, ScaleAssumption DEF Unit
<1>4. a >= b => q > 0
  <2> HIDE DEF a, b, q
  <2> QED
    BY <1>1, <1>2
<1>5. ASSUME NEW n \in Nat, m <= n  PROVE Share(n) <= q
  <2> DEFINE c == Unit * (60 + n)
  <2>1. c \in Nat /\ b <= c
    BY <1>1, <1>5 DEF Unit
  <2>2. Share(n) = a \div c /\ q = a \div b
    BY DEF Share
  <2>3. a \div c <= a \div b
    <3> HIDE DEF a, b, c
    <3> QED
      BY <1>1, <2>1, QuotientShrinks
  <2> HIDE DEF a, b, c, q
  <2> QED
    BY <2>2, <2>3
<1> QED
  BY <1>2, <1>3, <1>4, <1>5, Zenon

\* A fused score is bounded; it grows with the score and shrinks with the rank.
LEMMA FusedScoreBounds ==
  ASSUME NEW raw \in Int, NEW rank \in Nat \ {0}
  PROVE  /\ FusedScore(raw, rank) \in Nat
         /\ FusedScore(raw, rank) <= Scale
         /\ raw > 0 /\ Scale * 61 >= Unit * (60 + rank) => FusedScore(raw, rank) > 0
<1> DEFINE c == Clamped(raw)
           q == Share(rank)
<1>1. FusedScore(raw, rank) = c * q
  BY DEF FusedScore, Clamped, Share
<1>2. c \in Nat /\ c <= Unit /\ (raw > 0 => c > 0)
  BY DEF Clamped, AtMost, AtLeast, Unit
<1>3. q \in Nat /\ Unit * q <= Scale /\ (Scale * 61 >= Unit * (60 + rank) => q > 0)
  BY Shares
<1> HIDE DEF c, q
<1>4. c * q \in Nat /\ (c > 0 /\ q > 0 => c * q > 0)
  BY <1>2, <1>3
<1>5. c * q <= Unit * q
  BY <1>2, <1>3, ProductGrows DEF Unit
<1>6. Unit * q \in Nat
  BY <1>3 DEF Unit
<1> DEFINE p == c * q
           u == Unit * q
<1>7. p \in Nat /\ u \in Nat /\ p <= u /\ u <= Scale
  BY <1>3, <1>4, <1>5, <1>6
<1> HIDE DEF p, u
<1>8. p <= Scale
  BY <1>7, ScaleAssumption
<1> QED
  BY <1>1, <1>2, <1>3, <1>4, <1>8 DEF p

LEMMA FusedScoreGrows ==
  ASSUME NEW s \in Int, NEW t \in Int, s > t,
         NEW m \in Nat \ {0}, NEW n \in Nat \ {0}, m <= n
  PROVE  /\ FusedScore(s, m) >= FusedScore(t, n)
         /\ /\ s > 0 /\ t < AtMost(Unit, s)
            /\ Scale * 61 >= Unit * (60 + m)
            => FusedScore(s, m) > FusedScore(t, n)
<1> DEFINE c == Clamped(s)
           d == Clamped(t)
           p == Share(m)
           q == Share(n)
<1>1. FusedScore(s, m) = c * p /\ FusedScore(t, n) = d * q
  BY DEF FusedScore, Clamped, Share
<1>2. c \in Nat /\ d \in Nat /\ d <= c /\ (s > 0 /\ t < AtMost(Unit, s) => d < c)
  BY DEF Clamped, AtMost, AtLeast, Unit
<1>3. p \in Nat /\ q \in Nat /\ q <= p /\ (Scale * 61 >= Unit * (60 + m) => p > 0)
  BY Shares
<1> HIDE DEF c, d, p, q
<1>4. d * q <= d * p
  BY <1>2, <1>3, ProductGrows
<1>5. d * p <= c * p
  BY <1>2, <1>3, ProductGrows
<1>6. d < c /\ p > 0 => d * p < c * p
  <2>1. ASSUME d < c, p > 0  PROVE d * p < c * p
    <3>1. (d + 1) * p <= c * p
      BY <1>2, <1>3, <2>1, ProductGrows
    <3>2. (d + 1) * p = d * p + p
      BY <1>2, <1>3
    <3> QED
      BY <1>2, <1>3, <2>1, <3>1, <3>2
  <2> QED
    BY <2>1
<1>7. d * q \in Nat /\ d * p \in Nat /\ c * p \in Nat
  BY <1>2, <1>3
<1> DEFINE dq == d * q
           dp == d * p
           cp == c * p
<1>8. /\ dq \in Nat /\ dp \in Nat /\ cp \in Nat /\ dq <= dp /\ dp <= cp
      /\ d < c /\ p > 0 => dp < cp
  BY <1>4, <1>5, <1>6, <1>7
<1>9. FusedScore(s, m) = cp /\ FusedScore(t, n) = dq
  BY <1>1
<1> HIDE DEF dq, dp, cp
<1> QED
  BY <1>2, <1>3, <1>8, <1>9

LEMMA FusedScoreCounts ==
  ASSUME NEW raw \in Int, NEW rank \in Nat \ {0}
  PROVE  FusedScore(raw, rank) \in Int
<1>1. Scale * 61 \in Int
  BY ScaleAssumption
<1>2. Unit * (60 + rank) \in Nat \ {0}
  BY DEF Unit
<1>3. (Scale * 61) \div (Unit * (60 + rank)) \in Int
  BY <1>1, <1>2, Quotient
<1>4. AtMost(Unit, AtLeast(0, raw)) \in Int
  BY DEF AtMost, AtLeast, Unit
<1> QED
  BY <1>3, <1>4 DEF FusedScore

LEMMA LexicalScoreCounts ==
  ASSUME NEW text, IsText(text)
  PROVE  LexicalScore(text) \in Int
<1>1. /\ text.terms \in Nat /\ text.entities \in Nat /\ text.occurs \in Nat
      /\ text.of \in Nat \ {0} /\ Unit \in Nat \ {0}
  BY DEF IsText, Unit
<1>2. 20 * text.terms \in Int /\ 8 * text.entities \in Int
  BY <1>1
<1>3. (20 * text.terms) \div text.of \in Int
  BY <1>1, <1>2, Quotient
<1>4. (8 * text.entities) \div Unit \in Int
  BY <1>1, <1>2, Quotient
<1>5. AtMost(8, text.occurs) \in Int
  BY <1>1 DEF AtMost
<1> DEFINE a == (20 * text.terms) \div text.of
           b == (8 * text.entities) \div Unit
           c == AtMost(8, text.occurs)
           sum == a + (IF text.phrase THEN 8 ELSE 0) + c + (IF text.headline THEN 4 ELSE 0) + b
<1>6. LexicalScore(text) =
        IF text.terms = 0 /\ text.entities = 0 THEN 0 ELSE AtMost(Unit, sum)
  BY DEF LexicalScore
<1>7. a \in Int /\ b \in Int /\ c \in Int
  BY <1>3, <1>4, <1>5
<1> HIDE DEF a, b, c
<1>8. sum \in Int
  BY <1>7
<1> HIDE DEF sum
<1> QED
  BY <1>1, <1>6, <1>8 DEF AtMost

LEMMA MetadataScoreCounts ==
  ASSUME NEW row, IsRow(row), NEW newest \in Int
  PROVE  ScopeScore(row) + MetadataScore(row) + RecencyScore(row, newest) \in Int
<1>1. MemoryTypeWeight(row.memoryType) \in Int
  BY DEF IsRow, MemoryTypes, MemoryTypeWeight
<1>2. SourceTypeWeight(row.sourceType) \in Int
  BY DEF IsRow, SourceTypeWeight
<1> QED
  BY <1>1, <1>2 DEF IsRow, ScopeScore, MetadataScore, RecencyScore, AtLeast

LEMMA ImageFinite ==
  ASSUME NEW f, NEW S, IsFiniteSet(S), f = [x \in S |-> f[x]]
  PROVE  IsFiniteSet({f[x] : x \in S})
<1> DEFINE T == {f[x] : x \in S}
<1>1. f \in Surjection(S, T)
  BY DEF Surjection
<1> HIDE DEF T
<1>2. IsFiniteSet(T)
  BY <1>1, FS_Surjection
<1> QED
  BY <1>2 DEF T

LEMMA ElementsFinite ==
  ASSUME NEW s, IsSeq(s)
  PROVE  IsFiniteSet(Elements(s))
<1>1. IsFiniteSet(DOMAIN s)
  BY SeqOfElements, PlacesFinite
<1>2. s = [i \in DOMAIN s |-> s[i]]
  BY DEF IsSeq
<1> QED
  BY <1>1, <1>2, ImageFinite DEF Elements

LEMMA BestScoreCounts ==
  ASSUME NEW hits, IsSeq(hits), \A h \in Elements(hits) : IsPoint(h),
         NEW id \in DOMAIN BestScore(hits)
  PROVE  BestScore(hits)[id] \in Int
<1> DEFINE K == {j \in DOMAIN hits : hits[j].record = id}
           scores == {hits[i].score : i \in K}
<1>1. BestScore(hits)[id] = CHOOSE s \in scores : \A t \in scores : s >= t
  BY DEF BestScore
<1>2. K # {}
  BY DEF BestScore
<1>3. K \subseteq 1 .. Len(hits) /\ Len(hits) \in Nat
  BY SeqOfElements
<1>4. \A i \in K : hits[i].score \in Int
  BY DEF Elements, IsPoint
<1> HIDE DEF K
<1>5. IsFiniteSet(K)
  BY <1>3, PlacesFinite
<1>6. IsFiniteSet(scores)
  <2> DEFINE f == [i \in K |-> hits[i].score]
  <2>1. f = [i \in K |-> f[i]]
    OBVIOUS
  <2>2. IsFiniteSet({f[i] : i \in K})
    <3> HIDE DEF f
    <3> QED
      BY <1>5, <2>1, ImageFinite
  <2>3. {f[i] : i \in K} = scores
    OBVIOUS
  <2> HIDE DEF f, scores
  <2> QED
    BY <2>2, <2>3
<1>7. scores \in SUBSET Int /\ scores # {}
  BY <1>2, <1>4
<1> HIDE DEF scores
<1>8. \E s \in scores : \A t \in scores : s >= t
  BY <1>6, <1>7, Greatest
<1> QED
  BY <1>1, <1>7, <1>8

LEMMA LexicalIdsElements ==
  ASSUME NEW lexical, IsSeq(lexical)
  PROVE  /\ IsSeq(LexicalIds(lexical)) /\ Len(LexicalIds(lexical)) <= Len(lexical)
         /\ \A id \in Elements(LexicalIds(lexical)) : \E r \in Elements(lexical) : r.id = id
<1> DEFINE K == {i \in DOMAIN lexical : LexicalScore(lexical[i].text) > 0}
           matching == [k \in DOMAIN InOrder(K) |-> lexical[InOrder(K)[k]]]
<1>1. LexicalIds(lexical) = [i \in DOMAIN matching |-> matching[i].id]
  BY DEF LexicalIds, Selected
<1>2. K \in SUBSET DOMAIN lexical
  OBVIOUS
<1>3. /\ IsSeq(matching) /\ Elements(matching) = {lexical[i] : i \in K}
      /\ Len(matching) <= Len(lexical)
  <2> HIDE DEF K
  <2> QED
    BY <1>2, Picked
<1> HIDE DEF K, matching
<1>4. Len(matching) \in Nat /\ DOMAIN matching = 1 .. Len(matching)
  BY <1>3, SeqOfElements
<1>5. IsSeq(LexicalIds(lexical)) /\ DOMAIN LexicalIds(lexical) = 1 .. Len(matching)
  BY <1>1, <1>4 DEF IsSeq
<1>6. \A r \in Elements(matching) : r \in Elements(lexical)
  BY <1>2, <1>3 DEF Elements
<1>7. \A id \in Elements(LexicalIds(lexical)) : \E r \in Elements(matching) : r.id = id
  BY <1>1 DEF Elements
<1>8. Len(LexicalIds(lexical)) = Len(matching)
  BY <1>4, <1>5, LenOfDomain
<1> QED
  BY <1>3, <1>5, <1>6, <1>7, <1>8

LEMMA TotalCounts ==
  ASSUME NEW row, IsRow(row), NEW found, NewestUpdatedAt(found) \in Int,
         NEW hits, IsSeq(hits), \A h \in Elements(hits) : IsPoint(h),
         NEW lexical, IsSeq(lexical), \A r \in Elements(lexical) : IsRow(r)
  PROVE  Total(row, found, hits, lexical) \in Int
<1> DEFINE vectorIds == HitIds(hits)
           best == BestScore(hits)
           lexicalIds == LexicalIds(lexical)
           match == [id \in {r.id : r \in Elements(lexical)} |->
                       LexicalScore((CHOOSE r \in Elements(lexical) : r.id = id).text)]
           vector == IF row.id \in DOMAIN best
                     THEN FusedScore(best[row.id], RankOf(vectorIds, best, row.id)) ELSE 0
           words == IF row.id \in Elements(lexicalIds)
                    THEN FusedScore(match[row.id], RankOf(lexicalIds, match, row.id)) ELSE 0
           metadata == ScopeScore(row) + MetadataScore(row)
                        + RecencyScore(row, NewestUpdatedAt(found))
<1>1. Total(row, found, hits, lexical) = metadata * Scale + 50 * vector + 50 * words
  BY DEF Total, TotalScore
<1>2. vector \in Int
  <2>1. IsSeq(vectorIds)
    BY HitIdsElements
  <2>2. row.id \in DOMAIN best => best[row.id] \in Int
    BY BestScoreCounts
  <2>3. RankOf(vectorIds, best, row.id) \in Nat \ {0}
    <3> HIDE DEF vectorIds, best
    <3> QED
      BY <2>1, RankCounts
  <2> HIDE DEF vectorIds, best
  <2> QED
    BY <2>2, <2>3, FusedScoreCounts
<1>3. words \in Int
  <2>1. IsSeq(lexicalIds)
    BY LexicalIdsElements
  <2>2. ASSUME row.id \in Elements(lexicalIds)  PROVE match[row.id] \in Int
    <3>1. \E r \in Elements(lexical) : r.id = row.id
      BY <2>2, LexicalIdsElements
    <3> DEFINE r == CHOOSE x \in Elements(lexical) : x.id = row.id
    <3>2. r \in Elements(lexical)
      BY <3>1
    <3>3. match[row.id] = LexicalScore(r.text)
      BY <3>1
    <3> HIDE DEF r, match
    <3>4. IsText(r.text)
      BY <3>2 DEF IsRow
    <3> QED
      BY <3>3, <3>4, LexicalScoreCounts
  <2>3. RankOf(lexicalIds, match, row.id) \in Nat \ {0}
    <3> HIDE DEF lexicalIds, match
    <3> QED
      BY <2>1, RankCounts
  <2> HIDE DEF lexicalIds, match
  <2> QED
    BY <2>2, <2>3, FusedScoreCounts
<1>4. metadata \in Int
  BY MetadataScoreCounts
<1> HIDE DEF vector, words, metadata
<1> QED
  BY <1>1, <1>2, <1>3, <1>4, ScaleAssumption

\* What one source of the search adds for a record.
Fused(ids, score, id) ==
    IF id \in Elements(ids) THEN FusedScore(score[id], RankOf(ids, score, id)) ELSE 0

LEMMA FusedOrder ==
  ASSUME NEW ids, IsSeq(ids), NEW score, \A x \in Elements(ids) : score[x] \in Int,
         NEW a, NEW b
  PROVE  /\ Fused(ids, score, a) \in Nat /\ Fused(ids, score, a) <= Scale
         /\ \/ a \notin Elements(ids) /\ b \notin Elements(ids)
            \/ /\ a \in Elements(ids)
               /\ b \in Elements(ids) => score[a] > score[b]
            => Fused(ids, score, a) >= Fused(ids, score, b)
         /\ /\ Scale * 61 >= Unit * (61 + Len(ids))
            /\ a \in Elements(ids) /\ score[a] > 0
            /\ b \in Elements(ids) => score[b] < AtMost(Unit, score[a])
            => Fused(ids, score, a) > Fused(ids, score, b)
<1> DEFINE m == RankOf(ids, score, a)
           n == RankOf(ids, score, b)
           fine == Scale * 61 >= Unit * (61 + Len(ids))
<1>1. m \in Nat \ {0} /\ n \in Nat \ {0} /\ m <= 1 + Len(ids) /\ Len(ids) \in Nat
  BY RankCounts, SeqOfElements
<1>2. fine => Scale * 61 >= Unit * (60 + m)
  <2>1. Unit * (60 + m) <= Unit * (61 + Len(ids))
    <3> HIDE DEF m
    <3> QED
      BY <1>1 DEF Unit
  <2> DEFINE u == Unit * (60 + m)
             v == Unit * (61 + Len(ids))
             w == Scale * 61
  <2>2. u \in Int /\ v \in Int /\ w \in Int /\ u <= v
    <3> HIDE DEF m
    <3> QED
      BY <1>1, <2>1, ScaleAssumption DEF Unit
  <2>3. fine => w >= v
    OBVIOUS
  <2>4. fine => w >= u
    <3> HIDE DEF u, v, w, fine
    <3> QED
      BY <2>2, <2>3
  <2> QED
    BY <2>4
<1> HIDE DEF fine
<1>3. CASE a \notin Elements(ids)
  BY <1>3, ScaleAssumption DEF Fused
<1>4. CASE a \in Elements(ids) /\ b \notin Elements(ids)
  <2>1. Fused(ids, score, a) = FusedScore(score[a], m) /\ Fused(ids, score, b) = 0
    BY <1>4 DEF Fused
  <2>2. score[a] \in Int
    BY <1>4
  <2> HIDE DEF m
  <2>3. /\ FusedScore(score[a], m) \in Nat /\ FusedScore(score[a], m) <= Scale
        /\ score[a] > 0 /\ Scale * 61 >= Unit * (60 + m) => FusedScore(score[a], m) > 0
    BY <1>1, <2>2, FusedScoreBounds
  <2>4. score[a] > 0 /\ fine => FusedScore(score[a], m) > 0
    BY <1>2, <2>3, Zenon
  <2> QED
    BY <1>4, <2>1, <2>3, <2>4 DEF fine
<1>5. CASE a \in Elements(ids) /\ b \in Elements(ids)
  <2>1. Fused(ids, score, a) = FusedScore(score[a], m) /\ Fused(ids, score, b) = FusedScore(score[b], n)
    BY <1>5 DEF Fused
  <2>2. score[a] \in Int /\ score[b] \in Int
    BY <1>5
  <2>3. score[a] > score[b] => m <= n
    BY <2>2, RankFollowsScore
  <2> HIDE DEF m, n
  <2>4. FusedScore(score[a], m) \in Nat /\ FusedScore(score[a], m) <= Scale
    BY <1>1, <2>2, FusedScoreBounds
  <2>5. ASSUME score[a] > score[b]
        PROVE  /\ FusedScore(score[a], m) >= FusedScore(score[b], n)
               /\ /\ score[a] > 0 /\ score[b] < AtMost(Unit, score[a])
                  /\ Scale * 61 >= Unit * (60 + m)
                  => FusedScore(score[a], m) > FusedScore(score[b], n)
    BY <1>1, <2>2, <2>3, <2>5, FusedScoreGrows
  <2>6. score[b] < AtMost(Unit, score[a]) => score[a] > score[b]
    BY <2>2 DEF AtMost, Unit
  <2>7. /\ fine /\ score[a] > 0 /\ score[b] < AtMost(Unit, score[a])
        => FusedScore(score[a], m) > FusedScore(score[b], n)
    BY <1>2, <2>5, <2>6, Zenon
  <2> QED
    BY <1>5, <2>1, <2>4, <2>5, <2>7, Zenon DEF fine
<1> QED
  BY <1>3, <1>4, <1>5

MatchOf(lexical) ==
    [id \in {r.id : r \in Elements(lexical)} |->
        LexicalScore((CHOOSE r \in Elements(lexical) : r.id = id).text)]

Weight(row, newest) == ScopeScore(row) + MetadataScore(row) + RecencyScore(row, newest)

LEMMA TotalParts ==
  ASSUME NEW row, NEW found, NEW hits, IsSeq(hits), NEW lexical
  PROVE  Total(row, found, hits, lexical) =
            Weight(row, NewestUpdatedAt(found)) * Scale
                + 50 * Fused(HitIds(hits), BestScore(hits), row.id)
                + 50 * Fused(LexicalIds(lexical), MatchOf(lexical), row.id)
<1>1. DOMAIN BestScore(hits) = Elements(HitIds(hits))
  <2>1. DOMAIN BestScore(hits) = {hits[i].record : i \in DOMAIN hits}
    BY DEF BestScore
  <2>2. Elements(HitIds(hits)) = {h.record : h \in Elements(hits)}
    BY HitIdsElements
  <2> QED
    BY <2>1, <2>2 DEF Elements
<1> QED
  BY <1>1 DEF Total, TotalScore, Weight, Fused, MatchOf

LEMMA WeightBounds ==
  ASSUME NEW row, IsRow(row), NEW newest \in Int
  PROVE  /\ Weight(row, newest) \in Nat
         /\ row.scopeType = "project" => Weight(row, newest) >= 1010
         /\ row.scopeType = "user" => Weight(row, newest) <= 175
         /\ MetadataScore(row) \in Int
<1>1. MemoryTypeWeight(row.memoryType) \in 45 .. 120
  BY DEF IsRow, MemoryTypes, MemoryTypeWeight
<1>2. SourceTypeWeight(row.sourceType) \in 0 .. 30
  BY DEF IsRow, SourceTypeWeight
<1>3. MetadataScore(row) \in 10 .. 150
  BY <1>1, <1>2 DEF MetadataScore
<1>4. RecencyScore(row, newest) \in 0 .. 25
  BY DEF IsRow, RecencyScore, AtLeast
<1>5. ScopeScore(row) = IF row.scopeType = "project" THEN 1000 ELSE 0
  BY DEF ScopeScore
<1> QED
  BY <1>3, <1>4, <1>5 DEF Weight

LEMMA WeightGrows ==
  ASSUME NEW a, IsRow(a), NEW b, IsRow(b), NEW newest \in Int,
         SameKind(a, b), a.updatedAt >= b.updatedAt
  PROVE  Weight(a, newest) >= Weight(b, newest)
<1>1. MetadataScore(a) = MetadataScore(b) /\ ScopeScore(a) = ScopeScore(b)
  BY DEF SameKind, ScopeScore
<1>2. MetadataScore(b) \in Int /\ ScopeScore(b) \in Int
  BY WeightBounds DEF ScopeScore
<1>3. RecencyScore(a, newest) >= RecencyScore(b, newest)
      /\ RecencyScore(a, newest) \in Int /\ RecencyScore(b, newest) \in Int
  BY DEF IsRow, RecencyScore, AtLeast
<1> QED
  BY <1>1, <1>2, <1>3 DEF Weight

\* A greater weight is outdone by no more than the two sources can add.
LEMMA SumGrows ==
  ASSUME NEW x \in Nat, NEW y \in Nat, NEW v \in Nat, NEW w \in Nat,
         NEW p \in Nat, NEW q \in Nat, p <= Scale, q <= Scale
  PROVE  /\ x >= 1010 /\ y <= 175 => x * Scale + 50 * v + 50 * w > y * Scale + 50 * p + 50 * q
         /\ x >= y /\ v >= p /\ w >= q => x * Scale + 50 * v + 50 * w >= y * Scale + 50 * p + 50 * q
         /\ x >= y /\ v >= p /\ w >= q /\ (v > p \/ w > q)
              => x * Scale + 50 * v + 50 * w > y * Scale + 50 * p + 50 * q
<1> DEFINE xs == x * Scale
           ys == y * Scale
<1>1. xs \in Nat /\ ys \in Nat /\ Scale \in Nat \ {0}
  BY ScaleAssumption
<1>2. y <= x => ys <= xs
  BY <1>1, ProductGrows
<1>3. 1010 <= x => 1010 * Scale <= xs
  BY <1>1
<1>4. y <= 175 => ys <= 175 * Scale
  BY <1>1
<1> HIDE DEF xs, ys
<1>5. /\ x >= 1010 /\ y <= 175 => xs + 50 * v + 50 * w > ys + 50 * p + 50 * q
      /\ x >= y /\ v >= p /\ w >= q => xs + 50 * v + 50 * w >= ys + 50 * p + 50 * q
      /\ x >= y /\ v >= p /\ w >= q /\ (v > p \/ w > q)
           => xs + 50 * v + 50 * w > ys + 50 * p + 50 * q
  BY <1>1, <1>2, <1>3, <1>4
<1> QED
  BY <1>5 DEF xs, ys

LEMMA NewestCounts ==
  ASSUME NEW found, IsFiniteSet(found), found # {}, \A r \in found : IsRow(r)
  PROVE  NewestUpdatedAt(found) \in Int
<1> DEFINE times == {r.updatedAt : r \in found}
<1>1. IsFiniteSet(times)
  <2> DEFINE f == [r \in found |-> r.updatedAt]
  <2>1. f = [r \in found |-> f[r]]
    OBVIOUS
  <2>2. IsFiniteSet({f[r] : r \in found})
    <3> HIDE DEF f
    <3> QED
      BY <2>1, ImageFinite
  <2>3. {f[r] : r \in found} = times
    OBVIOUS
  <2> HIDE DEF f, times
  <2> QED
    BY <2>2, <2>3
<1>2. times \in SUBSET Int /\ times # {}
  BY DEF IsRow
<1>3. NewestUpdatedAt(found) = CHOOSE t \in times : \A r \in found : r.updatedAt <= t
  BY DEF NewestUpdatedAt
<1>4. \A r \in found : r.updatedAt \in times
  OBVIOUS
<1> HIDE DEF times
<1>5. PICK m \in times : \A x \in times : m >= x
  BY <1>1, <1>2, Greatest
<1>6. \A r \in found : r.updatedAt <= m
  BY <1>2, <1>4, <1>5
<1> QED
  BY <1>2, <1>3, <1>6

Outranks(a, b, found, hits, lexical) ==
    LET total(r) == Total(r, found, hits, lexical)
    IN  \/ total(a) > total(b)
        \/ /\ total(a) = total(b)
           /\ \/ a.updatedAt > b.updatedAt
              \/ a.updatedAt = b.updatedAt /\ a.id > b.id

LEMMA RankedFinds ==
  ASSUME NEW hits, IsSeq(hits), \A h \in Elements(hits) : IsPoint(h),
         NEW hyd, IsSeq(hyd), \A r \in Elements(hyd) : IsRow(r),
         NEW lexical, IsSeq(lexical), \A r \in Elements(lexical) : IsRow(r),
         \A r, s \in FoundRows(hyd, lexical) : r.id = s.id => r = s
  PROVE  /\ IsSeq(Ranked(hits, hyd, lexical))
         /\ Elements(Ranked(hits, hyd, lexical)) = FoundRows(hyd, lexical)
         /\ \A i, j \in DOMAIN Ranked(hits, hyd, lexical) :
              Outranks(Ranked(hits, hyd, lexical)[i], Ranked(hits, hyd, lexical)[j],
                       FoundRows(hyd, lexical), hits, lexical) => i < j
<1> DEFINE S == FoundRows(hyd, lexical)
           total == [id \in {r.id : r \in S} |->
                       Total(CHOOSE r \in S : r.id = id, S, hits, lexical)]
           before(a, b) == RanksAbove(a, b, total)
           B == [x \in S |-> {y \in S : before(y, x)}]
           s == Ranked(hits, hyd, lexical)
<1>1. IsFiniteSet(S) /\ \A r \in S : IsRow(r)
  <2>1. IsFiniteSet(Elements(hyd) \cup Elements(lexical))
    BY ElementsFinite, FS_Union
  <2>2. S \subseteq Elements(hyd) \cup Elements(lexical)
    BY DEF FoundRows
  <2> HIDE DEF S
  <2> QED
    BY <2>1, <2>2, FS_Subset
<1>2. s = SortedBy(S, before)
  BY DEF Ranked
<1>3. s = [k \in 1 .. Cardinality(S) |->
             CHOOSE x \in S : Cardinality({y \in S : before(y, x)}) = k - 1]
  <2> HIDE DEF s, S, total
  <2> QED
    BY <1>2 DEF SortedBy
<1> HIDE DEF s, S
<1>4. B \in [S -> SUBSET S] /\ \A x \in S : B[x] = {y \in S : before(y, x)}
  BY Zenon
<1>5. ASSUME NEW r \in S  PROVE /\ r.id \in Int /\ r.updatedAt \in Int /\ total[r.id] \in Int
                                  /\ total[r.id] = Total(r, S, hits, lexical)
  <2> DEFINE c == CHOOSE x \in S : x.id = r.id
  <2>1. c \in S /\ IsRow(c)
    BY <1>1
  <2>2. total[r.id] = Total(c, S, hits, lexical)
    OBVIOUS
  <2>3. NewestUpdatedAt(S) \in Int
    BY <1>1, NewestCounts
  <2>4. c = r
    BY DEF S
  <2> HIDE DEF c, total
  <2>5. Total(c, S, hits, lexical) \in Int
    BY <2>1, <2>3, TotalCounts
  <2>6. r.id \in Int /\ r.updatedAt \in Int
    BY <1>1 DEF IsRow
  <2> QED
    BY <2>2, <2>5, <2>6, <2>4
<1> HIDE DEF total
<1>6. \A x, y \in S : x.id = y.id => x = y
  BY DEF S
<1>7. StrictOrder(S, B)
  <2> HIDE DEF B
  <2>1. \A x \in S : x \notin B[x]
    BY <1>4, <1>5 DEF RanksAbove
  <2>2. \A x, y \in S : x # y => x \in B[y] \/ y \in B[x]
    <3>1. TAKE x, y \in S
    <3>2. x # y => before(x, y) \/ before(y, x)
      BY <1>5, <1>6 DEF RanksAbove
    <3> QED
      BY <1>4, <3>2
  <2>3. \A x, y \in S : y \in B[x] => B[y] \subseteq B[x]
    <3>1. ASSUME NEW x \in S, NEW y \in S, y \in B[x], NEW z \in B[y]  PROVE z \in B[x]
      <4>1. z \in S /\ before(z, y) /\ before(y, x)
        BY <1>4, <3>1
      <4>2. before(z, x)
        BY <1>5, <4>1 DEF RanksAbove
      <4> QED
        BY <1>4, <4>1, <4>2
    <3> QED
      BY <3>1
  <2> QED
    BY <1>1, <1>4, <2>1, <2>2, <2>3 DEF StrictOrder
<1>8. \A k \in 1 .. Cardinality(S) : \E x \in S : Cardinality({y \in S : before(y, x)}) = k - 1
  <2>1. TAKE k \in 1 .. Cardinality(S)
  <2>2. \E x \in S : Cardinality(B[x]) = k - 1
    <3> HIDE DEF B
    <3> QED
      BY <1>7, EveryPlaceTaken
  <2>3. PICK x \in S : Cardinality(B[x]) = k - 1
    BY <2>2
  <2> QED
    BY <1>4, <2>3
<1>9. \A k \in 1 .. Cardinality(S) : s[k] \in S /\ Cardinality({y \in S : before(y, s[k])}) = k - 1
  <2> HIDE DEF before, B
  <2> QED
    BY <1>3, <1>8
<1>10. DOMAIN s = 1 .. Cardinality(S) /\ s = [k \in 1 .. Cardinality(S) |-> s[k]]
  <2> DEFINE e(k) == CHOOSE x \in S : Cardinality({y \in S : before(y, x)}) = k - 1
  <2>1. s = [k \in 1 .. Cardinality(S) |-> e(k)]
    BY <1>3
  <2> HIDE DEF e
  <2> QED
    BY <2>1
<1>11. \A x, y \in S : Outranks(x, y, S, hits, lexical) => x \in B[y]
  <2>1. TAKE x, y \in S
  <2>2. Outranks(x, y, S, hits, lexical) => before(x, y)
    BY <1>5 DEF Outranks, RanksAbove
  <2> HIDE DEF B
  <2> QED
    BY <1>4, <2>2
<1>12. \A k \in DOMAIN s : s[k] \in S /\ Cardinality(B[s[k]]) = k - 1
  BY <1>4, <1>9, <1>10
<1> HIDE DEF B, before
<1>13. Sorts(s, S, B)
  BY <1>7, <1>10, <1>12, PlacedSorts
<1>14. IsSeq(s) /\ Elements(s) = S
  BY <1>10, <1>13, SortsElements
<1>15. ASSUME NEW i \in DOMAIN s, NEW j \in DOMAIN s, Outranks(s[i], s[j], S, hits, lexical)
       PROVE  i < j
  <2>1. s[i] \in S /\ s[j] \in S /\ s[i] \in B[s[j]]
    BY <1>12, <1>11, <1>15
  <2>2. i # j
    BY <1>7, <2>1 DEF StrictOrder
  <2>3. ~ (j < i)
    <3>1. ASSUME j < i  PROVE FALSE
      <4>1. s[j] \in B[s[i]]
        BY <1>13, <3>1 DEF Sorts
      <4> QED
        BY <1>7, <2>1, <4>1 DEF StrictOrder
    <3> QED
      BY <3>1
  <2>4. i \in Int /\ j \in Int
    BY <1>10
  <2> QED
    BY <2>2, <2>3, <2>4
<1> QED
  BY <1>14, <1>15 DEF s, S

-----------------------------------------------------------------------------
(***************************************************************************)
(* The stores.  Of a row a writer changes its text, its date and whether   *)
(* it is archived, so that a point, however old its text, agrees with its  *)
(* row on the scope a query filters by.                                    *)
(***************************************************************************)
Agrees(point, row) ==
    /\ point.scopeType = row.scopeType
    /\ point.scopeId = row.scopeId
    /\ row.scopeType = "project" => point.projectKey = row.scopeId

StoresInv ==
    /\ rows = [i \in Ids |-> rows[i]]
    /\ IsFiniteSet({i \in Ids : rows[i] # NoRow})
    /\ \A i \in Ids : rows[i] # NoRow =>
          IsRow(rows[i]) /\ rows[i].id = i /\ rows[i].scopeId # NoUser
    /\ IsFiniteSet(points)
    /\ Keyed(points)
    /\ \A p \in points : IsPoint(p) /\ p.record \in Ids
                          /\ (rows[p.record] # NoRow => Agrees(p, rows[p.record]))

LEMMA PointsOfRow ==
  ASSUME NEW row, IsRow(row)
  PROVE  /\ IsFiniteSet(PointsOf(row)) /\ Keyed(PointsOf(row)) /\ PointsOf(row) # {}
         /\ \A p \in PointsOf(row) : IsPoint(p) /\ p.record = row.id /\ p.org = row.org
                                     /\ Agrees(p, row)
<1> DEFINE chunks == row.text.chunks
           f == [k \in DOMAIN chunks |-> BuildVectorPoint(row, k)]
<1>1. chunks \in Seq(Int) /\ chunks # <<>> /\ row.id \in Int /\ row.text.version \in Int
  BY DEF IsRow, IsText
<1>2. /\ Len(chunks) \in Nat /\ DOMAIN chunks = 1 .. Len(chunks)
      /\ \A k \in DOMAIN chunks : chunks[k] \in Int /\ k \in Int
      /\ 1 \in DOMAIN chunks
  <2> HIDE DEF chunks
  <2>1. Len(chunks) \in Nat /\ DOMAIN chunks = 1 .. Len(chunks)
        /\ \A k \in 1 .. Len(chunks) : chunks[k] \in Int
    BY <1>1, LenProperties
  <2>2. Len(chunks) # 0
    BY <1>1, EmptySeq
  <2> QED
    BY <2>1, <2>2
<1>3. PointsOf(row) = {f[k] : k \in DOMAIN chunks}
  BY DEF PointsOf
<1>4. \A k \in DOMAIN chunks :
        /\ f[k].record = row.id /\ f[k].chunk = 10 * row.text.version + k
        /\ f[k].score = chunks[k] /\ f[k].org = row.org /\ Agrees(f[k], row)
  BY DEF BuildVectorPoint, Agrees
<1>5. f = [k \in DOMAIN chunks |-> f[k]]
  OBVIOUS
<1> HIDE DEF f, chunks
<1>6. IsFiniteSet(DOMAIN chunks)
  BY <1>2, PlacesFinite
<1>7. IsFiniteSet(PointsOf(row))
  BY <1>3, <1>5, <1>6, ImageFinite
<1>8. \A k, l \in DOMAIN chunks : f[k].chunk = f[l].chunk => k = l
  BY <1>1, <1>2, <1>4
<1>9. Keyed(PointsOf(row))
  BY <1>3, <1>8 DEF Keyed
<1>10. \A k \in DOMAIN chunks : IsPoint(f[k])
  BY <1>1, <1>2, <1>4 DEF IsPoint
<1> QED
  BY <1>2, <1>3, <1>4, <1>7, <1>9, <1>10

LEMMA StoresInit == Init => StoresInv
<1> SUFFICES ASSUME Init  PROVE StoresInv
  OBVIOUS
<1>1. PICK corpus \in Corpora :
        /\ rows = [i \in Ids |-> IF \E r \in corpus : r.id = i
                                 THEN CHOOSE r \in corpus : r.id = i ELSE NoRow]
        /\ points = UNION {PointsOf(r) : r \in corpus}
  BY DEF Init
<1>2. /\ IsFiniteSet(corpus)
      /\ \A r \in corpus : IsRow(r) /\ r.scopeId # NoUser
      /\ \A r, s \in corpus : r.id = s.id => r = s
  BY RetrievalAssumption
<1>3. \A r \in corpus : r.id \in Ids
  BY DEF Ids
<1>4. \A r \in corpus : rows[r.id] = r
  <2>1. TAKE r \in corpus
  <2>2. r = CHOOSE s \in corpus : s.id = r.id
    BY <1>2
  <2> QED
    BY <1>1, <1>3, <2>2
<1>5. \A i \in Ids : rows[i] # NoRow => \E r \in corpus : r.id = i
  BY <1>1
<1>6. rows = [i \in Ids |-> rows[i]]
  <2> DEFINE e(i) == IF \E r \in corpus : r.id = i THEN CHOOSE r \in corpus : r.id = i ELSE NoRow
  <2>1. rows = [i \in Ids |-> e(i)]
    BY <1>1
  <2> HIDE DEF e
  <2> QED
    BY <2>1
<1>7. IsFiniteSet({i \in Ids : rows[i] # NoRow})
  <2> DEFINE f == [r \in corpus |-> r.id]
             T == {f[r] : r \in corpus}
  <2>1. f = [r \in corpus |-> f[r]]
    OBVIOUS
  <2>2. {i \in Ids : rows[i] # NoRow} \subseteq T
    BY <1>5
  <2>3. IsFiniteSet(T)
    <3> HIDE DEF f
    <3> QED
      BY <1>2, <2>1, ImageFinite
  <2> HIDE DEF T
  <2> QED
    BY <2>2, <2>3, FS_Subset
<1>8. \A i \in Ids : rows[i] # NoRow =>
        IsRow(rows[i]) /\ rows[i].id = i /\ rows[i].scopeId # NoUser
  BY <1>2, <1>4, <1>5
<1>9. \A r \in corpus : \A p \in PointsOf(r) : IsPoint(p) /\ p.record = r.id /\ Agrees(p, r)
  BY <1>2, PointsOfRow
<1>10. \A p \in points : \E r \in corpus : p \in PointsOf(r)
  BY <1>1
<1>11. \A p \in points : IsPoint(p) /\ p.record \in Ids
                         /\ (rows[p.record] # NoRow => Agrees(p, rows[p.record]))
  <2>1. TAKE p \in points
  <2>2. PICK r \in corpus : p \in PointsOf(r)
    BY <1>10
  <2> QED
    BY <1>3, <1>4, <1>9, <2>2
<1>12. Keyed(points)
  <2>1. SUFFICES ASSUME NEW p \in points, NEW q \in points, p.record = q.record, p.chunk = q.chunk
                 PROVE  p = q
    BY DEF Keyed
  <2>2. PICK r \in corpus : p \in PointsOf(r)
    BY <1>10
  <2>3. PICK s \in corpus : q \in PointsOf(s)
    BY <1>10
  <2>4. r = s
    BY <1>2, <1>9, <2>1, <2>2, <2>3
  <2>5. Keyed(PointsOf(r))
    BY <1>2, PointsOfRow
  <2> QED
    BY <2>1, <2>2, <2>3, <2>4, <2>5 DEF Keyed
<1>13. IsFiniteSet(points)
  <2> DEFINE f == [r \in corpus |-> PointsOf(r)]
             T == {f[r] : r \in corpus}
  <2>1. f = [r \in corpus |-> f[r]]
    OBVIOUS
  <2>2. IsFiniteSet(T)
    <3> HIDE DEF f
    <3> QED
      BY <1>2, <2>1, ImageFinite
  <2>3. \A P \in T : IsFiniteSet(P)
    BY <1>2, PointsOfRow
  <2>4. points = UNION T
    BY <1>1
  <2> HIDE DEF T
  <2> QED
    BY <2>2, <2>3, <2>4, FS_UNION
<1> QED
  BY <1>6, <1>7, <1>8, <1>11, <1>12, <1>13 DEF StoresInv

\* What a statement leaves of a row.
Same(row, new) ==
    /\ new.id = row.id /\ new.org = row.org
    /\ new.scopeType = row.scopeType /\ new.scopeId = row.scopeId

RowWritten(id) ==
    /\ rows' = [i \in Ids |-> rows'[i]]
    /\ \A i \in Ids : i # id => rows'[i] = rows[i]
    /\ IsRow(rows[id]) /\ IsRow(rows'[id]) /\ Same(rows[id], rows'[id])
    /\ Live(rows[id])
    /\ points' = points
    /\ LiveRows(rows)' \subseteq LiveRows(rows) \cup {rows'[id]}
    /\ Live(rows'[id]) => current' = current \cup {rows'[id]}
    /\ current \subseteq current'

LEMMA EditWrites ==
  ASSUME StoresInv, NEW id \in Ids, NEW text \in Texts, EditRow(id, text)
  PROVE  RowWritten(id)
<1> DEFINE row == rows[id]
           new == [row EXCEPT !.text = text, !.updatedAt = Today]
<1>1. Live(row) /\ IsRow(row) /\ rows = [i \in Ids |-> rows[i]]
  BY DEF EditRow, Live, StoresInv
<1>2. /\ rows' = [rows EXCEPT ![id] = new] /\ points' = points
      /\ current' = current \cup {rows'[id]}
  BY DEF EditRow
<1>3. IsText(text) /\ Today \in Nat
  BY RetrievalAssumption
<1>4. IsRow(new) /\ Same(row, new)
  BY <1>1, <1>3 DEF IsRow, Same
<1> HIDE DEF new
<1>5. DOMAIN rows = Ids
  BY <1>1
<1>6. rows' = [i \in Ids |-> IF i = id THEN new ELSE rows[i]]
  BY <1>2, <1>5
<1>7. rows'[id] = new /\ \A i \in Ids : i # id => rows'[i] = rows[i]
  BY <1>6
<1>8. rows' = [i \in Ids |-> rows'[i]]
  BY <1>6
<1>9. LiveRows(rows)' \subseteq LiveRows(rows) \cup {rows'[id]}
  BY <1>5, <1>6, <1>7 DEF LiveRows
<1> QED
  BY <1>1, <1>2, <1>4, <1>7, <1>8, <1>9 DEF RowWritten

LEMMA ArchiveWrites ==
  ASSUME StoresInv, NEW id \in Ids, ArchiveRow(id)
  PROVE  RowWritten(id)
<1> DEFINE row == rows[id]
           new == [row EXCEPT !.archived = TRUE]
<1>1. Live(row) /\ IsRow(row) /\ rows = [i \in Ids |-> rows[i]]
  BY DEF ArchiveRow, Live, StoresInv
<1>2. rows' = [rows EXCEPT ![id] = new] /\ points' = points /\ current' = current
  BY DEF ArchiveRow
<1>3. IsRow(new) /\ Same(row, new) /\ new.archived
  BY <1>1 DEF IsRow, Same
<1> HIDE DEF new
<1>4. DOMAIN rows = Ids
  BY <1>1
<1>5. rows' = [i \in Ids |-> IF i = id THEN new ELSE rows[i]]
  BY <1>2, <1>4
<1>6. rows'[id] = new /\ \A i \in Ids : i # id => rows'[i] = rows[i]
  BY <1>5
<1>7. rows' = [i \in Ids |-> rows'[i]]
  BY <1>5
<1>8. LiveRows(rows)' \subseteq LiveRows(rows) \cup {rows'[id]}
  BY <1>4, <1>5, <1>6 DEF LiveRows
<1>9. ~ Live(rows'[id])
  BY <1>3, <1>6 DEF Live
<1> QED
  BY <1>1, <1>2, <1>3, <1>6, <1>7, <1>8, <1>9 DEF RowWritten

LEMMA WriterWrites ==
  ASSUME StoresInv, NEW id \in Ids,
         \/ ArchiveRow(id) \/ DeletePoints(id) \/ UpsertPoints(id)
         \/ \E text \in Texts : EditRow(id, text)
  PROVE  Write(id) /\ (RowWritten(id) \/ DeletePoints(id) \/ UpsertPoints(id))
<1>1. Write(id)
  BY DEF EditRow, ArchiveRow, DeletePoints, UpsertPoints
<1>2. (\E text \in Texts : EditRow(id, text)) => RowWritten(id)
  BY EditWrites
<1>3. ArchiveRow(id) => RowWritten(id)
  BY ArchiveWrites
<1> QED
  BY <1>1, <1>2, <1>3

\* A statement on a row, a call on the points of one, or nothing written.
LEMMA Writers ==
  ASSUME StoresInv, [Next]_vars
  PROVE  \/ /\ UNCHANGED writes
            /\ UNCHANGED touched
         \/ \E id \in Ids :
               /\ touched' = touched \cup {id} /\ Searching
               /\ UNCHANGED <<pc, request, waiting, reads, result, packRuns>>
               /\ \/ RowWritten(id)
                  \/ DeletePoints(id)
                  \/ UpsertPoints(id)
<1>1. ASSUME NEW id \in Ids, Write(id)
      PROVE  /\ touched' = touched \cup {id} /\ Searching
             /\ UNCHANGED <<pc, request, waiting, reads, result, packRuns>>
  BY <1>1 DEF Write
<1>5. CASE \E id \in Ids : \/ ArchiveRow(id) \/ DeletePoints(id) \/ UpsertPoints(id)
                          \/ \E text \in Texts : EditRow(id, text)
  BY <1>1, <1>5, WriterWrites
<1>6. CASE UNCHANGED vars
  BY <1>6 DEF vars
<1>7. CASE \/ BeginSearch \/ QueryProject \/ QueryUser \/ QueryLexical
           \/ Hydrate \/ Rank \/ CreateContextPackRun \/ FailSearch
  BY <1>7 DEF BeginSearch, QueryProject, QueryUser, QueryLexical, Hydrate, Rank,
              CreateContextPackRun, FailSearch
<1> QED
  BY <1>5, <1>6, <1>7 DEF Next

LEMMA StoresStep == StoresInv /\ [Next]_vars => StoresInv'
<1> SUFFICES ASSUME StoresInv, [Next]_vars  PROVE StoresInv'
  OBVIOUS
<1>1. CASE UNCHANGED writes
  BY <1>1 DEF StoresInv, writes, Agrees, IsPoint, Keyed
<1>2. ASSUME NEW id \in Ids, RowWritten(id)  PROVE StoresInv'
  <2> USE <1>2
  <2>1. rows[id] # NoRow
    BY DEF RowWritten, Live
  <2>2. \A i \in Ids : rows'[i] # NoRow => rows[i] # NoRow
    BY <2>1 DEF RowWritten
  <2>3. IsFiniteSet({i \in Ids : rows'[i] # NoRow})
    <3> DEFINE T == {i \in Ids : rows[i] # NoRow}
    <3>1. {i \in Ids : rows'[i] # NoRow} \subseteq T /\ IsFiniteSet(T)
      BY <2>2 DEF StoresInv
    <3> HIDE DEF T
    <3> QED
      BY <3>1, FS_Subset
  <2>4. \A i \in Ids : rows'[i] # NoRow =>
          IsRow(rows'[i]) /\ rows'[i].id = i /\ rows'[i].scopeId # NoUser
    BY <2>1 DEF RowWritten, Same, StoresInv
  <2>5. \A p \in points : IsPoint(p) /\ p.record \in Ids
                          /\ (rows'[p.record] # NoRow => Agrees(p, rows'[p.record]))
    BY <2>1 DEF RowWritten, Same, StoresInv, Agrees
  <2> QED
    BY <2>3, <2>4, <2>5 DEF RowWritten, StoresInv
<1>3. ASSUME NEW id \in Ids, DeletePoints(id)  PROVE StoresInv'
  <2>1. rows' = rows /\ points' \subseteq points
    BY <1>3 DEF DeletePoints, DeleteByRecordIds
  <2>2. IsFiniteSet(points')
    BY <2>1, FS_Subset DEF StoresInv
  <2>3. Keyed(points')
    BY <2>1 DEF StoresInv, Keyed
  <2> QED
    BY <2>1, <2>2, <2>3 DEF StoresInv
<1>4. ASSUME NEW id \in Ids, UpsertPoints(id)  PROVE StoresInv'
  <2> DEFINE new == PointsOf(rows[id])
  <2>1. rows' = rows /\ points' = Upsert(points, new) /\ Live(rows[id])
    BY <1>4 DEF UpsertPoints
  <2>2. IsRow(rows[id]) /\ rows[id].id = id
    BY <2>1 DEF StoresInv, Live
  <2>3. /\ IsFiniteSet(new) /\ Keyed(new)
        /\ \A p \in new : IsPoint(p) /\ p.record = id /\ Agrees(p, rows[id])
    BY <2>2, PointsOfRow
  <2> HIDE DEF new
  <2>4. points' \subseteq points \cup new
    BY <2>1 DEF Upsert
  <2>5. IsFiniteSet(points \cup new)
    BY <2>3, FS_Union DEF StoresInv
  <2>6. IsFiniteSet(points')
    BY <2>4, <2>5, FS_Subset
  <2>7. Keyed(points')
    <3>1. \A p \in points' : p \in new \/ (p \in points /\ \A q \in new :
                                <<p.record, p.chunk>> # <<q.record, q.chunk>>)
      BY <2>1 DEF Upsert
    <3> QED
      BY <2>3, <3>1 DEF Keyed, StoresInv
  <2> QED
    BY <2>1, <2>3, <2>4, <2>6, <2>7 DEF StoresInv
<1> QED
  BY <1>1, <1>2, <1>3, <1>4, Writers

-----------------------------------------------------------------------------
(***************************************************************************)
(* What a search read.  A hit is a point of some moment: it says only that *)
(* its record, if it is still there, is in the scope that was asked for.   *)
(* A row is what the lexical query or the hydration found live in the      *)
(* table, in the organization and, by the hit or by the query, in scope.   *)
(***************************************************************************)
HitInScope(hit) ==
    /\ IsPoint(hit) /\ hit.record \in Ids
    /\ rows[hit.record] # NoRow => InScope(rows[hit.record])

Asked(row) == IsRow(row) /\ InOrg(row) /\ InScope(row) /\ row \in current

OneById(S) == \A r, s \in S : r.id = s.id => r = s

Phases == {"idle", "querying", "hydrating", "ranking", "storing", "done", "failed"}

SearchInv ==
    /\ request \in Requests
    /\ pc \in Phases
    /\ Searching => LiveRows(rows) \subseteq current
    /\ pc \in {"hydrating", "ranking", "storing", "done"} => waiting = {}
    /\ pc = "idle" => current = {}

ReadsInv ==
    /\ IsSeq(projectHits) /\ IsSeq(userHits) /\ IsSeq(lexicalRecords)
    /\ IsSeq(hydrated) /\ IsSeq(result)
    /\ \A h \in Elements(projectHits) \cup Elements(userHits) : HitInScope(h)
    /\ \A r \in Elements(lexicalRecords) \cup Elements(hydrated) \cup Elements(result) : Asked(r)
    /\ OneById(Elements(lexicalRecords)) /\ OneById(Elements(hydrated))

LEMMA EmptyIsSeq == IsSeq(<<>>) /\ Elements(<<>>) = {}
<1>1. <<>> = [i \in 1 .. 0 |-> <<>>[i]] /\ DOMAIN <<>> = 1 .. 0
  OBVIOUS
<1> QED
  BY <1>1 DEF IsSeq, Elements

LEMMA ReadsInit == Init => SearchInv /\ ReadsInv
BY EmptyIsSeq DEF Init, SearchInv, ReadsInv, Searching, Phases, OneById

LEMMA LiveRow ==
  ASSUME StoresInv, NEW r \in LiveRows(rows)
  PROVE  r.id \in Ids /\ rows[r.id] = r /\ IsRow(r) /\ Live(r) /\ r.scopeId # NoUser
BY DEF StoresInv, LiveRows, Live

LEMMA LiveRowsFinite ==
  ASSUME StoresInv
  PROVE  IsFiniteSet(LiveRows(rows)) /\ OneById(LiveRows(rows))
<1> DEFINE K == {i \in Ids : rows[i] # NoRow}
           f == [i \in K |-> rows[i]]
           T == {f[i] : i \in K}
<1>1. IsFiniteSet(K) /\ f = [i \in K |-> f[i]]
  BY DEF StoresInv
<1>2. IsFiniteSet(T)
  <2> HIDE DEF f, K
  <2> QED
    BY <1>1, ImageFinite
<1>3. LiveRows(rows) \subseteq T
  BY DEF StoresInv, LiveRows, Live
<1> HIDE DEF T
<1>4. IsFiniteSet(LiveRows(rows))
  BY <1>2, <1>3, FS_Subset
<1>5. OneById(LiveRows(rows))
  BY LiveRow DEF OneById
<1> QED
  BY <1>4, <1>5

LEMMA SearchStep == StoresInv /\ SearchInv /\ [Next]_vars => SearchInv'
<1> SUFFICES ASSUME StoresInv, SearchInv, [Next]_vars  PROVE SearchInv'
  OBVIOUS
<1>1. ASSUME NEW id \in Ids, Searching,
             UNCHANGED <<pc, request, waiting, reads, result, packRuns>>,
             RowWritten(id) \/ DeletePoints(id) \/ UpsertPoints(id)
      PROVE  SearchInv'
  <2>1. LiveRows(rows)' \subseteq current'
    <3>1. CASE RowWritten(id)
      <4>1. rows'[id] \in LiveRows(rows)' => Live(rows'[id])
        BY DEF LiveRows
      <4> QED
        BY <1>1, <3>1, <4>1 DEF RowWritten, SearchInv
    <3>2. CASE DeletePoints(id) \/ UpsertPoints(id)
      BY <1>1, <3>2 DEF DeletePoints, UpsertPoints, SearchInv, LiveRows
    <3> QED
      BY <1>1, <3>1, <3>2
  <2> QED
    BY <1>1, <2>1 DEF SearchInv, Searching
<1>2. CASE UNCHANGED vars
  BY <1>2 DEF vars, writes, SearchInv, Searching, LiveRows
<1>3. CASE BeginSearch
  BY <1>3 DEF BeginSearch, writes, SearchInv, Searching, LiveRows, Phases
<1>4. CASE QueryProject
  BY <1>4 DEF QueryProject, Answered, writes, SearchInv, Searching, LiveRows, Phases
<1>5. CASE QueryUser
  BY <1>5 DEF QueryUser, Answered, writes, SearchInv, Searching, LiveRows, Phases
<1>6. CASE QueryLexical
  BY <1>6 DEF QueryLexical, Answered, writes, SearchInv, Searching, LiveRows, Phases
<1>7. CASE Hydrate
  BY <1>7 DEF Hydrate, writes, SearchInv, Searching, LiveRows, Phases
<1>8. CASE Rank
  BY <1>8 DEF Rank, writes, SearchInv, Searching, LiveRows, Phases
<1>9. CASE CreateContextPackRun
  BY <1>9 DEF CreateContextPackRun, writes, SearchInv, Searching, LiveRows, Phases
<1>10. CASE FailSearch
  BY <1>10 DEF FailSearch, writes, SearchInv, Searching, LiveRows, Phases
<1>11. CASE \E id \in Ids : \/ ArchiveRow(id) \/ DeletePoints(id) \/ UpsertPoints(id)
                           \/ \E text \in Texts : EditRow(id, text)
  <2>1. PICK id \in Ids : Write(id) /\ (RowWritten(id) \/ DeletePoints(id) \/ UpsertPoints(id))
    BY <1>11, WriterWrites
  <2> QED
    BY <1>1, <2>1 DEF Write
<1> QED
  BY <1>2, <1>3, <1>4, <1>5, <1>6, <1>7, <1>8, <1>9, <1>10, <1>11 DEF Next

LEMMA QueryHits ==
  ASSUME StoresInv, request \in Requests, NEW filter,
         \/ filter.scopes = {[scopeType |-> "project", scopeId |-> request.projectKey]}
            /\ filter.projectKey = request.projectKey
         \/ filter.scopes = {[scopeType |-> "user", scopeId |-> request.userScopeId]}
  PROVE  LET found == Query(points, filter, request.limit)
         IN  /\ IsSeq(found) /\ Len(found) <= request.limit
             /\ \A h \in Elements(found) : HitInScope(h)
<1> DEFINE found == Query(points, filter, request.limit)
<1>1. request.limit \in Nat
  BY RetrievalAssumption
<1>2. /\ IsSeq(found) /\ Len(found) <= request.limit
      /\ Elements(found) \subseteq {p \in points : Matches(p, filter)}
  BY <1>1, QueryFinds DEF StoresInv
<1> HIDE DEF found
<1>3. ASSUME NEW h \in points, Matches(h, filter), rows[h.record] # NoRow
      PROVE  InScope(rows[h.record])
  <2>1. Agrees(h, rows[h.record]) /\ IsRow(rows[h.record])
    BY <1>3 DEF StoresInv
  <2>2. \A scope \in filter.scopes :
          /\ h.scopeType = scope.scopeType
          /\ scope.scopeType = "project" /\ filter.projectKey # NoKey
                => h.projectKey = filter.projectKey
          /\ ~ (scope.scopeType = "project" /\ filter.projectKey # NoKey)
                => h.scopeId = scope.scopeId
    BY <1>3 DEF Matches
  <2>3. CASE /\ filter.scopes = {[scopeType |-> "project", scopeId |-> request.projectKey]}
             /\ filter.projectKey = request.projectKey
    <3> DEFINE scope == [scopeType |-> "project", scopeId |-> request.projectKey]
    <3>1. scope \in filter.scopes /\ scope.scopeType = "project" /\ scope.scopeId = request.projectKey
      BY <2>3
    <3> HIDE DEF scope
    <3> QED
      BY <2>1, <2>2, <2>3, <3>1 DEF Agrees, InScope
  <2>4. CASE filter.scopes = {[scopeType |-> "user", scopeId |-> request.userScopeId]}
    <3> DEFINE scope == [scopeType |-> "user", scopeId |-> request.userScopeId]
    <3>1. scope \in filter.scopes /\ scope.scopeType = "user" /\ scope.scopeId = request.userScopeId
      BY <2>4
    <3> HIDE DEF scope
    <3> QED
      BY <2>1, <2>2, <3>1 DEF Agrees, InScope
  <2> QED
    BY <2>3, <2>4
<1>4. \A h \in Elements(found) : HitInScope(h)
  BY <1>2, <1>3 DEF HitInScope, StoresInv
<1> QED
  BY <1>2, <1>4 DEF found

\* Nothing written, and the request the same, what was read keeps its sense.
LEMMA Unwritten ==
  ASSUME UNCHANGED <<rows, request>>, current \subseteq current'
  PROVE  /\ \A h : HitInScope(h) => HitInScope(h)'
         /\ \A r : Asked(r) => Asked(r)'
BY DEF HitInScope, Asked, InScope, InOrg

LEMMA RankedResult ==
  ASSUME SearchInv, ReadsInv, Rank
  PROVE  /\ IsSeq(result') /\ Elements(result') \subseteq FoundRows(hydrated, lexicalRecords)
         /\ Len(result') # request.limit =>
              Elements(result') = FoundRows(hydrated, lexicalRecords)
<1> DEFINE found == FoundRows(hydrated, lexicalRecords)
           ranked == Ranked(Hits, hydrated, lexicalRecords)
<1>1. IsSeq(Hits) /\ \A h \in Elements(Hits) : IsPoint(h)
  BY ConcatElements DEF Hits, ReadsInv, HitInScope
<1>2. \A r \in Elements(hydrated) \cup Elements(lexicalRecords) : IsRow(r)
  BY DEF ReadsInv, Asked
<1>3. \A r, s \in found : r.id = s.id => r = s
  BY DEF FoundRows, ReadsInv, OneById
<1>4. IsSeq(ranked) /\ Elements(ranked) = found
  BY <1>1, <1>2, <1>3, RankedFinds DEF ReadsInv
<1>5. request.limit \in Nat
  BY RetrievalAssumption DEF SearchInv
<1>6. result' = First(request.limit, ranked)
  BY DEF Rank
<1> HIDE DEF found, ranked
<1>7. LET top == First(request.limit, ranked)
      IN  /\ IsSeq(top) /\ Elements(top) \subseteq found
          /\ Len(top) # request.limit => Elements(top) = found
  BY <1>4, <1>5, FirstKeeps
<1> QED
  BY <1>6, <1>7 DEF found

LEMMA ReadsStep == StoresInv /\ SearchInv /\ ReadsInv /\ [Next]_vars => ReadsInv'
<1> SUFFICES ASSUME StoresInv, SearchInv, ReadsInv, [Next]_vars  PROVE ReadsInv'
  OBVIOUS
<1> USE DEF ReadsInv
<1>1. ASSUME NEW id \in Ids, Write(id), RowWritten(id) \/ DeletePoints(id) \/ UpsertPoints(id)
      PROVE  ReadsInv'
  <2>1. /\ UNCHANGED <<projectHits, userHits, lexicalRecords, hydrated, result, request>>
        /\ current \subseteq current'
    BY <1>1 DEF Write, reads, RowWritten, DeletePoints, UpsertPoints
  <2>2. CASE UNCHANGED rows
    BY <2>1, <2>2, Unwritten
  <2>3. CASE RowWritten(id)
    <3>1. \A r : Asked(r) => Asked(r)'
      BY <2>1 DEF Asked, InScope, InOrg
    <3>2. ASSUME NEW h, HitInScope(h)  PROVE HitInScope(h)'
      <4>1. rows[id] # NoRow /\ Same(rows[id], rows'[id])
        BY <2>3 DEF RowWritten, Live
      <4>2. h.record = id \/ rows'[h.record] = rows[h.record]
        BY <2>3, <3>2 DEF RowWritten, HitInScope
      <4> QED
        BY <2>1, <3>2, <4>1, <4>2 DEF HitInScope, InScope, Same
    <3> QED
      BY <2>1, <3>1, <3>2
  <2> QED
    BY <1>1, <2>2, <2>3 DEF DeletePoints, UpsertPoints
<1>2. CASE UNCHANGED vars
  BY <1>2, Unwritten DEF vars, writes, reads
<1>3. CASE BeginSearch
  <2>1. /\ UNCHANGED <<rows, request, projectHits, userHits, lexicalRecords, hydrated, result>>
    BY <1>3 DEF BeginSearch, writes, reads
  <2>2. current \subseteq current'
    BY <1>3 DEF BeginSearch, SearchInv
  <2> QED
    BY <2>1, <2>2, Unwritten
<1>4. CASE QueryProject
  <2>1. PICK org \in FilterOrgs :
          projectHits' = Query(points,
            [org |-> org, projectKey |-> request.projectKey,
             scopes |-> {[scopeType |-> "project", scopeId |-> request.projectKey]}],
            request.limit)
    BY <1>4 DEF QueryProject
  <2>2. UNCHANGED <<rows, request, current, userHits, lexicalRecords, hydrated, result>>
    BY <1>4 DEF QueryProject, writes
  <2>3. IsSeq(projectHits') /\ \A h \in Elements(projectHits') : HitInScope(h)
    BY <2>1, QueryHits DEF SearchInv
  <2> QED
    BY <2>2, <2>3, Unwritten
<1>5. CASE QueryUser
  <2>1. PICK org \in FilterOrgs :
          userHits' = Query(points,
            [org |-> org, projectKey |-> NoKey,
             scopes |-> {[scopeType |-> "user", scopeId |-> request.userScopeId]}],
            request.limit)
    BY <1>5 DEF QueryUser
  <2>2. UNCHANGED <<rows, request, current, projectHits, lexicalRecords, hydrated, result>>
    BY <1>5 DEF QueryUser, writes
  <2>3. IsSeq(userHits') /\ \A h \in Elements(userHits') : HitInScope(h)
    BY <2>1, QueryHits DEF SearchInv
  <2> QED
    BY <2>2, <2>3, Unwritten
<1>6. CASE QueryLexical
  <2> DEFINE limit == AtMost(100, request.limit * 4)
  <2>1. UNCHANGED <<rows, request, current, projectHits, userHits, hydrated, result>>
    BY <1>6 DEF QueryLexical, writes
  <2>2. lexicalRecords' = SearchMemory(rows, limit) /\ pc = "querying"
    BY <1>6 DEF QueryLexical, Answered
  <2>3. limit \in Nat
    BY RetrievalAssumption DEF SearchInv, AtMost
  <2>4. IsFiniteSet(LiveRows(rows)) /\ OneById(LiveRows(rows)) /\ \A r \in LiveRows(rows) : IsRow(r)
    BY LiveRowsFinite, LiveRow
  <2> HIDE DEF limit
  <2>5. /\ IsSeq(lexicalRecords')
        /\ \A r \in Elements(lexicalRecords') : r \in LiveRows(rows) /\ InScope(r) /\ InOrg(r)
    BY <2>2, <2>3, <2>4, SearchMemoryFinds DEF OneById
  <2>6. \A r \in Elements(lexicalRecords') : Asked(r)
    BY <2>2, <2>4, <2>5 DEF Asked, SearchInv, Searching
  <2>7. OneById(Elements(lexicalRecords'))
    BY <2>4, <2>5 DEF OneById
  <2> QED
    BY <2>1, <2>5, <2>6, <2>7, Unwritten
<1>7. CASE Hydrate
  <2> DEFINE ids == HitIds(Hits)
             found == {rows[i] : i \in {j \in Elements(ids) : Live(rows[j]) /\ InOrg(rows[j])}}
  <2>1. UNCHANGED <<rows, request, current, projectHits, userHits, lexicalRecords, result>>
    BY <1>7 DEF Hydrate, writes
  <2>2. IsSeq(Hits) /\ Elements(Hits) = Elements(projectHits) \cup Elements(userHits)
    BY ConcatElements DEF Hits
  <2>3. IsSeq(ids) /\ Elements(ids) = {h.record : h \in Elements(Hits)}
    BY <2>2, HitIdsElements
  <2>4. IsSeq(hydrated') /\ Elements(hydrated') = found
    <3>1. hydrated' = RowsByIds(ids)
      BY <1>7 DEF Hydrate
    <3> HIDE DEF ids
    <3> QED
      BY <2>3, <3>1, RowsByIdsElements
  <2>5. \A j \in Elements(ids) : j \in Ids /\ (rows[j] # NoRow => InScope(rows[j]))
    BY <2>2, <2>3 DEF HitInScope
  <2> HIDE DEF ids
  <2>6. \A r \in found : r \in LiveRows(rows) /\ InScope(r) /\ InOrg(r)
    BY <2>5 DEF StoresInv, LiveRows, Live
  <2> HIDE DEF found
  <2>7. \A r \in Elements(hydrated') : Asked(r)
    BY <1>7, <2>4, <2>6, LiveRow DEF Hydrate, Asked, SearchInv, Searching
  <2>8. OneById(Elements(hydrated'))
    BY <2>4, <2>6, LiveRowsFinite DEF OneById
  <2> QED
    BY <2>1, <2>4, <2>7, <2>8, Unwritten
<1>8. CASE Rank
  <2>1. UNCHANGED <<rows, request, current, projectHits, userHits, lexicalRecords, hydrated>>
    BY <1>8 DEF Rank, writes, reads
  <2>2. IsSeq(result') /\ Elements(result') \subseteq FoundRows(hydrated, lexicalRecords)
    BY <1>8, RankedResult
  <2>3. \A r \in Elements(result') : Asked(r)
    BY <2>2 DEF FoundRows
  <2> QED
    BY <2>1, <2>2, <2>3, Unwritten
<1>9. CASE CreateContextPackRun
  BY <1>9, Unwritten DEF CreateContextPackRun, writes, reads
<1>10. CASE FailSearch
  BY <1>10, Unwritten DEF FailSearch, writes, reads
<1>11. CASE \E id \in Ids : \/ ArchiveRow(id) \/ DeletePoints(id) \/ UpsertPoints(id)
                           \/ \E text \in Texts : EditRow(id, text)
  BY <1>1, <1>11, WriterWrites
<1> QED
  BY <1>2, <1>3, <1>4, <1>5, <1>6, <1>7, <1>8, <1>9, <1>10, <1>11 DEF Next

-----------------------------------------------------------------------------
(* What a search cannot miss: how far a record nobody touched has come. *)

Untouched(row) == row \in LiveRows(rows) /\ row.id \notin touched
Sought(row) == Untouched(row) /\ InOrg(row) /\ InScope(row)

Full(row) == Len(HitsOf(row)) = request.limit
Hit(row) == \E h \in Elements(HitsOf(row)) : h.record = row.id

QueryOf(row) == IF row.scopeType = "project" THEN "project" ELSE "user"

FindInv ==
    /\ \A i \in Ids : i \notin touched /\ rows[i] # NoRow => PointsOf(rows[i]) \subseteq points
    /\ \A l \in Elements(lexicalRecords) : l.id \in Ids /\ (l.id \notin touched => l = rows[l.id])
    /\ \A r \in LiveRows(rows) : Sought(r) =>
          /\ pc \notin {"idle", "failed"} => QueryOf(r) \in waiting \/ Full(r) \/ Hit(r)
          /\ pc \in {"ranking", "storing", "done"} => Full(r) \/ r \in Elements(hydrated)
          /\ pc \in {"storing", "done"} =>
                Full(r) \/ Len(result) = request.limit \/ r \in Elements(result)

LEMMA FindInit == Init => FindInv
<1> SUFFICES ASSUME Init  PROVE FindInv
  OBVIOUS
<1>1. PICK corpus \in Corpora :
        /\ rows = [i \in Ids |-> IF \E r \in corpus : r.id = i
                                 THEN CHOOSE r \in corpus : r.id = i ELSE NoRow]
        /\ points = UNION {PointsOf(r) : r \in corpus}
  BY DEF Init
<1>2. \A i \in Ids : rows[i] # NoRow => rows[i] \in corpus
  BY <1>1
<1>3. \A i \in Ids : rows[i] # NoRow => PointsOf(rows[i]) \subseteq points
  BY <1>1, <1>2
<1>4. pc = "idle" /\ Elements(lexicalRecords) = {}
  BY EmptyIsSeq DEF Init
<1> QED
  BY <1>3, <1>4 DEF FindInv

\* A query finds a record that was not touched, or as many hits as it may.
LEMMA QueryFindsSought ==
  ASSUME StoresInv, SearchInv, FindInv, NEW r, Sought(r), NEW filter,
         filter.org \in FilterOrgs,
         \/ /\ r.scopeType = "project" /\ filter.projectKey = request.projectKey
            /\ filter.scopes = {[scopeType |-> "project", scopeId |-> request.projectKey]}
         \/ /\ r.scopeType # "project"
            /\ filter.scopes = {[scopeType |-> "user", scopeId |-> request.userScopeId]}
  PROVE  LET found == Query(points, filter, request.limit)
         IN  Len(found) = request.limit \/ \E h \in Elements(found) : h.record = r.id
<1> DEFINE found == Query(points, filter, request.limit)
<1>1. r.id \in Ids /\ rows[r.id] = r /\ IsRow(r) /\ Live(r) /\ InOrg(r) /\ InScope(r)
  BY LiveRow DEF Sought, Untouched
<1>2. PointsOf(r) \subseteq points
  BY <1>1 DEF FindInv, Sought, Untouched, Live
<1>3. PICK q \in PointsOf(r) : TRUE
  BY <1>1, PointsOfRow
<1>4. q \in points /\ q.record = r.id /\ q.org = r.org /\ Agrees(q, r)
  BY <1>1, <1>2, <1>3, PointsOfRow
<1>5. filter.org # NoOrg => q.org = filter.org
  BY <1>1, <1>4 DEF FilterOrgs, InOrg
<1>6. \A scope \in filter.scopes :
        /\ q.scopeType = scope.scopeType
        /\ scope.scopeType = "project" => q.projectKey = request.projectKey
        /\ q.scopeId = scope.scopeId
  BY <1>1, <1>4 DEF Agrees, InScope
<1>7. Matches(q, filter)
  BY <1>4, <1>5, <1>6 DEF Matches
<1>8. request.limit \in Nat
  BY RetrievalAssumption DEF SearchInv
<1>9. Len(found) # request.limit => Elements(found) = {x \in points : Matches(x, filter)}
  BY <1>8, QueryFinds DEF StoresInv
<1> HIDE DEF found
<1> QED
  BY <1>4, <1>7, <1>9 DEF found

LEMMA FindStep ==
  StoresInv /\ SearchInv /\ ReadsInv /\ FindInv /\ [Next]_vars => FindInv'
<1> SUFFICES ASSUME StoresInv, SearchInv, ReadsInv, FindInv, [Next]_vars  PROVE FindInv'
  OBVIOUS
<1>1. ASSUME NEW id \in Ids, Write(id), RowWritten(id) \/ DeletePoints(id) \/ UpsertPoints(id)
      PROVE  FindInv'
  <2>1. /\ UNCHANGED <<pc, request, waiting, result>> /\ touched' = touched \cup {id}
        /\ UNCHANGED <<projectHits, userHits, lexicalRecords, hydrated>>
    BY <1>1 DEF Write, reads
  <2>2. \A i \in Ids : i # id => rows'[i] = rows[i]
    BY <1>1 DEF RowWritten, DeletePoints, UpsertPoints
  <2>3. \A p \in points : p.record # id => p \in points'
    <3>1. CASE RowWritten(id)
      BY <3>1 DEF RowWritten
    <3>2. CASE DeletePoints(id)
      BY <3>2 DEF DeletePoints, DeleteByRecordIds
    <3>3. CASE UpsertPoints(id)
      <4>1. points' = Upsert(points, PointsOf(rows[id])) /\ Live(rows[id])
        BY <3>3 DEF UpsertPoints
      <4>2. \A q \in PointsOf(rows[id]) : q.record = id
        BY <4>1, PointsOfRow DEF StoresInv, Live
      <4> QED
        BY <4>1, <4>2 DEF Upsert
    <3> QED
      BY <1>1, <3>1, <3>2, <3>3
  <2>4. ASSUME NEW i \in Ids, i \notin touched', rows'[i] # NoRow
        PROVE  PointsOf(rows'[i]) \subseteq points'
    <3>1. i # id /\ rows'[i] = rows[i] /\ i \notin touched
      BY <2>1, <2>2, <2>4
    <3>2. IsRow(rows[i]) /\ rows[i].id = i /\ PointsOf(rows[i]) \subseteq points
      BY <2>4, <3>1 DEF StoresInv, FindInv
    <3>3. \A p \in PointsOf(rows[i]) : p.record = i
      BY <3>2, PointsOfRow
    <3> QED
      BY <2>3, <3>1, <3>2, <3>3
  <2>5. ASSUME NEW l \in Elements(lexicalRecords), l.id \notin touched'
        PROVE  l = rows'[l.id]
    <3>1. l.id \in Ids /\ l.id # id /\ l = rows[l.id]
      BY <2>1, <2>5 DEF FindInv
    <3> QED
      BY <2>2, <3>1
  <2>6. ASSUME NEW r \in LiveRows(rows'), Sought(r)'  PROVE r \in LiveRows(rows) /\ Sought(r)
    <3>1. PICK j \in DOMAIN rows' : r = rows'[j] /\ Live(rows'[j])
      BY DEF LiveRows
    <3>2. StoresInv'
      BY StoresStep
    <3>3. j \in Ids /\ r.id = j
      BY <3>1, <3>2 DEF StoresInv, Live
    <3>4. j # id /\ j \notin touched
      BY <2>1, <2>6, <3>3 DEF Sought, Untouched
    <3>5. rows[j] = r /\ j \in DOMAIN rows
      BY <2>2, <3>1, <3>3, <3>4 DEF StoresInv
    <3>6. r \in LiveRows(rows)
      BY <3>1, <3>5 DEF LiveRows
    <3> QED
      BY <2>1, <2>6, <3>3, <3>4, <3>6 DEF Sought, Untouched, InOrg, InScope
  <2> QED
    BY <2>1, <2>4, <2>5, <2>6 DEF FindInv, Full, Hit, HitsOf, QueryOf
<1>2. CASE UNCHANGED vars
  BY <1>2 DEF vars, writes, reads, FindInv, Sought, Untouched, InOrg, InScope, Full, Hit, HitsOf, QueryOf
<1> USE DEF FindInv
<1>3. ASSUME UNCHANGED <<rows, points, request, touched>>
      PROVE  /\ \A r : Sought(r)' <=> Sought(r)
             /\ \A i \in Ids : i \notin touched' /\ rows'[i] # NoRow => PointsOf(rows'[i]) \subseteq points'
             /\ LiveRows(rows)' = LiveRows(rows)
  BY <1>3 DEF Sought, Untouched, InOrg, InScope, LiveRows
<1>4. CASE BeginSearch
  <2>1. /\ UNCHANGED <<rows, points, request, touched>>
        /\ UNCHANGED <<projectHits, userHits, lexicalRecords, hydrated, result>>
    BY <1>4 DEF BeginSearch, writes, reads
  <2>2. pc' \in {"failed", "querying"}
    BY <1>4 DEF BeginSearch
  <2>3. ASSUME NEW r \in LiveRows(rows), Sought(r), pc' = "querying"  PROVE QueryOf(r) \in waiting'
    <3>1. waiting' = {"project", "lexical"}
                       \cup (IF request.userScopeId = NoUser THEN {} ELSE {"user"})
      BY <1>4, <2>3 DEF BeginSearch
    <3>2. r.scopeId # NoUser /\ InScope(r)
      BY <2>3, LiveRow DEF Sought
    <3> QED
      BY <3>1, <3>2 DEF InScope, QueryOf
  <2> QED
    BY <1>3, <2>1, <2>2, <2>3 DEF QueryOf
<1>5. CASE QueryProject
  <2>1. PICK org \in FilterOrgs :
          projectHits' = Query(points,
            [org |-> org, projectKey |-> request.projectKey,
             scopes |-> {[scopeType |-> "project", scopeId |-> request.projectKey]}],
            request.limit)
    BY <1>5 DEF QueryProject
  <2>2. /\ UNCHANGED <<rows, points, request, touched, userHits, lexicalRecords, hydrated, result>>
        /\ pc = "querying" /\ pc' \in {"querying", "hydrating"} /\ waiting' = waiting \ {"project"}
    BY <1>5 DEF QueryProject, Answered, writes
  <2>3. ASSUME NEW r \in LiveRows(rows), Sought(r)
        PROVE  QueryOf(r) \in waiting' \/ Full(r)' \/ Hit(r)'
    <3>1. CASE r.scopeType = "project"
      <4> DEFINE filter == [org |-> org, projectKey |-> request.projectKey,
                            scopes |-> {[scopeType |-> "project", scopeId |-> request.projectKey]}]
      <4>1. /\ filter.org \in FilterOrgs /\ filter.projectKey = request.projectKey
            /\ filter.scopes = {[scopeType |-> "project", scopeId |-> request.projectKey]}
            /\ projectHits' = Query(points, filter, request.limit)
        BY <2>1
      <4> HIDE DEF filter
      <4>2. \/ Len(projectHits') = request.limit
            \/ \E h \in Elements(projectHits') : h.record = r.id
        BY <2>3, <3>1, <4>1, QueryFindsSought
      <4> QED
        BY <2>2, <3>1, <4>2 DEF Full, Hit, HitsOf
    <3>2. CASE r.scopeType # "project"
      BY <2>2, <2>3, <3>2 DEF Full, Hit, HitsOf, QueryOf
    <3> QED
      BY <3>1, <3>2
  <2> QED
    BY <1>3, <2>2, <2>3 DEF QueryOf
<1>6. CASE QueryUser
  <2>1. PICK org \in FilterOrgs :
          userHits' = Query(points,
            [org |-> org, projectKey |-> NoKey,
             scopes |-> {[scopeType |-> "user", scopeId |-> request.userScopeId]}],
            request.limit)
    BY <1>6 DEF QueryUser
  <2>2. /\ UNCHANGED <<rows, points, request, touched, projectHits, lexicalRecords, hydrated, result>>
        /\ pc = "querying" /\ pc' \in {"querying", "hydrating"} /\ waiting' = waiting \ {"user"}
    BY <1>6 DEF QueryUser, Answered, writes
  <2>3. ASSUME NEW r \in LiveRows(rows), Sought(r)
        PROVE  QueryOf(r) \in waiting' \/ Full(r)' \/ Hit(r)'
    <3>1. CASE r.scopeType # "project"
      <4> DEFINE filter == [org |-> org, projectKey |-> NoKey,
                            scopes |-> {[scopeType |-> "user", scopeId |-> request.userScopeId]}]
      <4>1. /\ filter.org \in FilterOrgs
            /\ filter.scopes = {[scopeType |-> "user", scopeId |-> request.userScopeId]}
            /\ userHits' = Query(points, filter, request.limit)
        BY <2>1
      <4> HIDE DEF filter
      <4>2. \/ Len(userHits') = request.limit
            \/ \E h \in Elements(userHits') : h.record = r.id
        BY <2>3, <3>1, <4>1, QueryFindsSought
      <4> QED
        BY <2>2, <3>1, <4>2 DEF Full, Hit, HitsOf
    <3>2. CASE r.scopeType = "project"
      BY <2>2, <2>3, <3>2 DEF Full, Hit, HitsOf, QueryOf
    <3> QED
      BY <3>1, <3>2
  <2> QED
    BY <1>3, <2>2, <2>3 DEF QueryOf
<1>7. CASE QueryLexical
  <2> DEFINE limit == AtMost(100, request.limit * 4)
  <2>1. /\ UNCHANGED <<rows, points, request, touched, projectHits, userHits, hydrated, result>>
        /\ pc = "querying" /\ pc' \in {"querying", "hydrating"} /\ waiting' = waiting \ {"lexical"}
        /\ lexicalRecords' = SearchMemory(rows, limit)
    BY <1>7 DEF QueryLexical, Answered, writes
  <2>2. limit \in Nat
    BY RetrievalAssumption DEF SearchInv, AtMost
  <2>3. IsFiniteSet(LiveRows(rows)) /\ OneById(LiveRows(rows)) /\ \A r \in LiveRows(rows) : IsRow(r)
    BY LiveRowsFinite, LiveRow
  <2> HIDE DEF limit
  <2>4. \A r \in Elements(lexicalRecords') : r \in LiveRows(rows)
    BY <2>1, <2>2, <2>3, SearchMemoryFinds DEF OneById
  <2>5. \A l \in Elements(lexicalRecords') : l.id \in Ids /\ l = rows[l.id]
    BY <2>4, LiveRow
  <2> QED
    BY <1>3, <2>1, <2>5 DEF Full, Hit, HitsOf, QueryOf
<1>8. CASE Hydrate
  <2>1. /\ UNCHANGED <<rows, points, request, touched, waiting>>
        /\ UNCHANGED <<projectHits, userHits, lexicalRecords, result>>
        /\ pc = "hydrating" /\ pc' = "ranking"
    BY <1>8 DEF Hydrate, writes
  <2>2. ASSUME NEW r \in LiveRows(rows), Sought(r), Hit(r)  PROVE r \in Elements(hydrated')
    <3> DEFINE ids == HitIds(Hits)
    <3>1. IsSeq(Hits) /\ Elements(Hits) = Elements(projectHits) \cup Elements(userHits)
      BY ConcatElements DEF Hits, ReadsInv
    <3>2. IsSeq(ids) /\ Elements(ids) = {h.record : h \in Elements(Hits)}
      BY <3>1, HitIdsElements
    <3>3. r.id \in Elements(ids)
      BY <2>2, <3>1, <3>2 DEF Hit, HitsOf
    <3>4. hydrated' = RowsByIds(ids)
      BY <1>8 DEF Hydrate
    <3> HIDE DEF ids
    <3>5. Elements(hydrated') =
            {rows[i] : i \in {j \in Elements(ids) : Live(rows[j]) /\ InOrg(rows[j])}}
      BY <3>2, <3>4, RowsByIdsElements
    <3>6. rows[r.id] = r /\ Live(r) /\ InOrg(r)
      BY <2>2, LiveRow DEF Sought
    <3> QED
      BY <3>3, <3>5, <3>6
  <2>3. ASSUME NEW r \in LiveRows(rows), Sought(r)  PROVE Full(r) \/ r \in Elements(hydrated')
    BY <2>1, <2>2, <2>3 DEF SearchInv
  <2> QED
    BY <1>3, <2>1, <2>3 DEF Full, Hit, HitsOf
<1>9. CASE Rank
  <2>1. /\ UNCHANGED <<rows, points, request, touched, waiting>>
        /\ UNCHANGED <<projectHits, userHits, lexicalRecords, hydrated>>
        /\ pc = "ranking" /\ pc' \in {"storing", "done"}
    BY <1>9 DEF Rank, writes, reads
  <2>2. Len(result') # request.limit => Elements(result') = FoundRows(hydrated, lexicalRecords)
    BY <1>9, RankedResult
  <2>3. ASSUME NEW r \in LiveRows(rows), Sought(r), r \in Elements(hydrated)
        PROVE  r \in FoundRows(hydrated, lexicalRecords)
    <3>1. CASE \E l \in Elements(lexicalRecords) : l.id = r.id
      <4>1. PICK l \in Elements(lexicalRecords) : l.id = r.id
        BY <3>1
      <4>2. l = rows[r.id] /\ rows[r.id] = r
        BY <2>3, <4>1, LiveRow DEF Sought, Untouched
      <4> QED
        BY <4>2 DEF FoundRows
    <3>2. CASE ~ \E l \in Elements(lexicalRecords) : l.id = r.id
      BY <2>3, <3>2 DEF FoundRows
    <3> QED
      BY <3>1, <3>2
  <2> QED
    BY <1>3, <2>1, <2>2, <2>3 DEF Full, Hit, HitsOf
<1>10. CASE CreateContextPackRun
  BY <1>3, <1>10 DEF CreateContextPackRun, writes, reads, Full, Hit, HitsOf
<1>11. CASE FailSearch
  BY <1>3, <1>11 DEF FailSearch, writes, reads
<1>12. CASE \E id \in Ids : \/ ArchiveRow(id) \/ DeletePoints(id) \/ UpsertPoints(id)
                           \/ \E text \in Texts : EditRow(id, text)
  BY <1>1, <1>12, WriterWrites
<1> QED
  BY <1>2, <1>4, <1>5, <1>6, <1>7, <1>8, <1>9, <1>10, <1>11, <1>12 DEF Next

-----------------------------------------------------------------------------
(***************************************************************************)
(* The order of an answer.  It is the top of the ranking of what was read, *)
(* and of each source no more was read than its limit, so that the share   *)
(* of every rank counts.                                                   *)
(***************************************************************************)
RankInv ==
    /\ Len(projectHits) <= request.limit /\ Len(userHits) <= request.limit
    /\ Len(lexicalRecords) <= 4 * request.limit
    /\ pc \in {"storing", "done"} =>
          result = First(request.limit, Ranked(Hits, hydrated, lexicalRecords))

LEMMA RankInit == Init => RankInv
<1> SUFFICES ASSUME Init  PROVE RankInv
  OBVIOUS
<1>1. request.limit \in Nat
  BY RetrievalAssumption DEF Init
<1>2. Len(<<>>) = 0
  OBVIOUS
<1> QED
  BY <1>1, <1>2 DEF Init, RankInv

LEMMA RankStep == StoresInv /\ SearchInv /\ RankInv /\ [Next]_vars => RankInv'
<1> SUFFICES ASSUME StoresInv, SearchInv, RankInv, [Next]_vars  PROVE RankInv'
  OBVIOUS
<1> USE DEF RankInv, Hits
<1>1. CASE UNCHANGED vars
  BY <1>1 DEF vars, reads
<1>2. CASE BeginSearch
  BY <1>2 DEF BeginSearch, reads
<1>3. CASE QueryProject
  <2>1. PICK org \in FilterOrgs :
          projectHits' = Query(points,
            [org |-> org, projectKey |-> request.projectKey,
             scopes |-> {[scopeType |-> "project", scopeId |-> request.projectKey]}],
            request.limit)
    BY <1>3 DEF QueryProject
  <2>2. Len(projectHits') <= request.limit
    BY <2>1, QueryHits DEF SearchInv
  <2> QED
    BY <1>3, <2>2 DEF QueryProject, Answered
<1>4. CASE QueryUser
  <2>1. PICK org \in FilterOrgs :
          userHits' = Query(points,
            [org |-> org, projectKey |-> NoKey,
             scopes |-> {[scopeType |-> "user", scopeId |-> request.userScopeId]}],
            request.limit)
    BY <1>4 DEF QueryUser
  <2>2. Len(userHits') <= request.limit
    BY <2>1, QueryHits DEF SearchInv
  <2> QED
    BY <1>4, <2>2 DEF QueryUser, Answered
<1>5. CASE QueryLexical
  <2> DEFINE limit == AtMost(100, request.limit * 4)
             found == SearchMemory(rows, limit)
  <2>1. request.limit \in Nat /\ limit \in Nat /\ limit <= 4 * request.limit
    BY RetrievalAssumption DEF SearchInv, AtMost
  <2>2. IsFiniteSet(LiveRows(rows)) /\ OneById(LiveRows(rows)) /\ \A r \in LiveRows(rows) : IsRow(r)
    BY LiveRowsFinite, LiveRow
  <2>3. IsSeq(found) /\ Len(found) <= limit
    <3> HIDE DEF limit
    <3> QED
      BY <2>1, <2>2, SearchMemoryFinds DEF OneById
  <2>4. lexicalRecords' = found
    BY <1>5 DEF QueryLexical
  <2> HIDE DEF limit, found
  <2>5. Len(lexicalRecords') <= 4 * request.limit
    BY <2>1, <2>3, <2>4, SeqOfElements
  <2> QED
    BY <1>5, <2>5 DEF QueryLexical, Answered
<1>6. CASE Hydrate
  BY <1>6 DEF Hydrate
<1>7. CASE Rank
  BY <1>7 DEF Rank, reads
<1>8. CASE CreateContextPackRun
  BY <1>8 DEF CreateContextPackRun, reads
<1>9. CASE FailSearch
  BY <1>9 DEF FailSearch, reads
<1>10. CASE \E id \in Ids : \/ ArchiveRow(id) \/ DeletePoints(id) \/ UpsertPoints(id)
                           \/ \E text \in Texts : EditRow(id, text)
  <2>1. PICK id \in Ids : Write(id)
    BY <1>10, WriterWrites
  <2> QED
    BY <2>1 DEF Write, reads
<1> QED
  BY <1>1, <1>2, <1>3, <1>4, <1>5, <1>6, <1>7, <1>8, <1>9, <1>10 DEF Next

\* A row that dominates another outranks it.
LEMMA DominatesOutranks ==
  ASSUME SearchInv, ReadsInv, RankInv,
         NEW a \in FoundRows(hydrated, lexicalRecords),
         NEW b \in FoundRows(hydrated, lexicalRecords), Dominates(a, b)
  PROVE  Outranks(a, b, FoundRows(hydrated, lexicalRecords), Hits, lexicalRecords)
<1> DEFINE found == FoundRows(hydrated, lexicalRecords)
           newest == NewestUpdatedAt(found)
           hitIds == HitIds(Hits)
           best == BestScore(Hits)
           wordIds == LexicalIds(lexicalRecords)
           match == MatchOf(lexicalRecords)
           total(r) == Total(r, found, Hits, lexicalRecords)
           wa == Weight(a, newest)
           wb == Weight(b, newest)
           va == Fused(hitIds, best, a.id)
           vb == Fused(hitIds, best, b.id)
           la == Fused(wordIds, match, a.id)
           lb == Fused(wordIds, match, b.id)
<1>1. /\ IsSeq(Hits) /\ \A h \in Elements(Hits) : IsPoint(h)
      /\ Len(Hits) = Len(projectHits) + Len(userHits)
  BY ConcatElements DEF Hits, ReadsInv, HitInScope
<1>2. /\ IsFiniteSet(found) /\ \A r \in found : IsRow(r)
      /\ \A r \in Elements(lexicalRecords) : IsRow(r)
  <2>1. IsFiniteSet(Elements(hydrated) \cup Elements(lexicalRecords))
    BY ElementsFinite, FS_Union DEF ReadsInv
  <2>2. found \subseteq Elements(hydrated) \cup Elements(lexicalRecords)
    BY DEF FoundRows
  <2>3. \A r \in Elements(hydrated) \cup Elements(lexicalRecords) : IsRow(r)
    BY DEF ReadsInv, Asked
  <2> HIDE DEF found
  <2> QED
    BY <2>1, <2>2, <2>3, FS_Subset
<1>3. IsRow(a) /\ IsRow(b) /\ newest \in Int
  BY <1>2, NewestCounts
<1>4. /\ total(a) = wa * Scale + 50 * va + 50 * la
      /\ total(b) = wb * Scale + 50 * vb + 50 * lb
  BY <1>1, TotalParts
<1>5. /\ IsSeq(hitIds) /\ Len(hitIds) <= Len(Hits)
      /\ DOMAIN best = Elements(hitIds)
      /\ \A x \in Elements(hitIds) : best[x] \in Int
  <2>1. DOMAIN best = {Hits[i].record : i \in DOMAIN Hits}
    BY DEF BestScore
  <2>2. Elements(hitIds) = {h.record : h \in Elements(Hits)}
    BY <1>1, HitIdsElements
  <2>3. DOMAIN best = Elements(hitIds)
    BY <2>1, <2>2 DEF Elements
  <2> QED
    BY <1>1, <2>3, HitIdsElements, BestScoreCounts
<1>6. /\ IsSeq(wordIds) /\ Len(wordIds) <= Len(lexicalRecords)
      /\ DOMAIN MatchScore = Elements(wordIds)
      /\ \A x \in Elements(wordIds) : match[x] \in Int /\ MatchScore[x] = match[x]
  <2>1. \A x \in Elements(wordIds) : \E r \in Elements(lexicalRecords) : r.id = x
    BY LexicalIdsElements DEF ReadsInv
  <2>2. ASSUME NEW x \in Elements(wordIds)  PROVE match[x] \in Int /\ MatchScore[x] = match[x]
    <3> DEFINE r == CHOOSE y \in Elements(lexicalRecords) : y.id = x
    <3>1. r \in Elements(lexicalRecords)
      BY <2>1
    <3>2. match[x] = LexicalScore(r.text)
      BY <2>1 DEF MatchOf
    <3>3. MatchScore[x] = LexicalScore(r.text)
      BY DEF MatchScore
    <3> HIDE DEF r, match
    <3>4. IsText(r.text)
      BY <1>2, <3>1 DEF IsRow
    <3> QED
      BY <3>2, <3>3, <3>4, LexicalScoreCounts
  <2> QED
    BY <2>2, LexicalIdsElements DEF MatchScore, ReadsInv
<1>7. /\ Scale * 61 >= Unit * (61 + Len(hitIds))
      /\ Scale * 61 >= Unit * (61 + Len(wordIds))
  <2>1. request.limit \in Nat /\ Scale * 61 >= Unit * (61 + 4 * request.limit)
    BY RetrievalAssumption DEF SearchInv
  <2>2. Len(hitIds) \in Nat /\ Len(wordIds) \in Nat
    BY <1>5, <1>6, SeqOfElements
  <2>3. /\ Len(projectHits) \in Nat /\ Len(userHits) \in Nat /\ Len(lexicalRecords) \in Nat
        /\ Len(Hits) <= 4 * request.limit /\ Len(lexicalRecords) <= 4 * request.limit
    BY <1>1, <2>1, SeqOfElements DEF ReadsInv, RankInv
  <2> DEFINE h == Len(hitIds)
             w == Len(wordIds)
             l == request.limit
             s == Scale * 61
  <2>4. h \in Nat /\ w \in Nat /\ h <= 4 * l /\ w <= 4 * l /\ l \in Nat /\ s \in Nat
    BY <1>1, <1>5, <1>6, <2>1, <2>2, <2>3, ScaleAssumption
  <2> HIDE DEF h, w, l, s
  <2>5. s >= Unit * (61 + 4 * l)
    BY <2>1 DEF s, l
  <2>6. s >= Unit * (61 + h) /\ s >= Unit * (61 + w)
    BY <2>4, <2>5 DEF Unit
  <2> QED
    BY <2>6 DEF h, w, s
<1>8. /\ wa \in Nat /\ wb \in Nat
      /\ a.scopeType = "project" => wa >= 1010
      /\ b.scopeType = "user" => wb <= 175
      /\ SameKind(a, b) /\ a.updatedAt >= b.updatedAt => wa >= wb
  <2> HIDE DEF newest
  <2> QED
    BY <1>3, WeightBounds, WeightGrows
<1>9. /\ va \in Nat /\ va <= Scale /\ vb \in Nat /\ vb <= Scale
      /\ BetterIn(best, a.id, b.id) => va >= vb
      /\ ClearlyBetterIn(best, a.id, b.id) => va > vb
  <2> HIDE DEF hitIds, best
  <2> QED
    BY <1>5, <1>7, FusedOrder DEF BetterIn, ClearlyBetterIn
<1>10. /\ la \in Nat /\ la <= Scale /\ lb \in Nat /\ lb <= Scale
       /\ BetterIn(MatchScore, a.id, b.id) => la >= lb
       /\ ClearlyBetterIn(MatchScore, a.id, b.id) => la > lb
  <2> HIDE DEF wordIds, match
  <2>1. /\ BetterIn(MatchScore, a.id, b.id) =>
            \/ a.id \notin Elements(wordIds) /\ b.id \notin Elements(wordIds)
            \/ /\ a.id \in Elements(wordIds)
               /\ b.id \in Elements(wordIds) => match[a.id] > match[b.id]
        /\ ClearlyBetterIn(MatchScore, a.id, b.id) =>
            /\ a.id \in Elements(wordIds) /\ match[a.id] > 0
            /\ b.id \in Elements(wordIds) => match[b.id] < AtMost(Unit, match[a.id])
    BY <1>6 DEF BetterIn, ClearlyBetterIn
  <2> QED
    BY <1>6, <1>7, <2>1, FusedOrder
<1>11. total(a) \in Int /\ total(b) \in Int
  <2> HIDE DEF wa, wb, va, vb, la, lb, total
  <2> QED
    BY <1>4, <1>8, <1>9, <1>10, ScaleAssumption
<1> DEFINE scores == {best, MatchScore}
           sa == wa * Scale + 50 * va + 50 * la
           sb == wb * Scale + 50 * vb + 50 * lb
<1>14. /\ wa >= 1010 /\ wb <= 175 => sa > sb
       /\ wa >= wb /\ va >= vb /\ la >= lb => sa >= sb
       /\ wa >= wb /\ va >= vb /\ la >= lb /\ (va > vb \/ la > lb) => sa > sb
  <2> HIDE DEF wa, wb, va, vb, la, lb
  <2>1. wa \in Nat /\ wb \in Nat /\ va \in Nat /\ la \in Nat /\ vb \in Nat /\ lb \in Nat
    BY <1>8, <1>9, <1>10
  <2>2. vb <= Scale /\ lb <= Scale
    BY <1>9, <1>10
  <2> QED
    BY <2>1, <2>2, SumGrows, Zenon
<1>12. CASE a.scopeType = "project" /\ b.scopeType = "user"
  <2>1. total(a) > total(b)
    <3>1. total(a) = sa /\ total(b) = sb
      BY <1>4
    <3> HIDE DEF wa, wb, va, vb, la, lb, sa, sb, total
    <3> QED
      BY <1>8, <1>12, <1>14, <3>1
  <2> QED
    BY <2>1 DEF Outranks
<1>13. CASE /\ SameKind(a, b) /\ a.updatedAt >= b.updatedAt
            /\ \A score \in scores : BetterIn(score, a.id, b.id)
            /\ \/ a.updatedAt > b.updatedAt
               \/ a.id > b.id
               \/ \E score \in scores : ClearlyBetterIn(score, a.id, b.id)
  <2>1. wa >= wb /\ va >= vb /\ la >= lb
    BY <1>8, <1>9, <1>10, <1>13
  <2>2. total(a) >= total(b) /\ (va > vb \/ la > lb => total(a) > total(b))
    <3>1. total(a) = sa /\ total(b) = sb
      BY <1>4
    <3> HIDE DEF wa, wb, va, vb, la, lb, sa, sb, total
    <3> QED
      BY <1>14, <2>1, <3>1
  <2>3. \/ a.updatedAt > b.updatedAt \/ a.id > b.id \/ va > vb \/ la > lb
    BY <1>9, <1>10, <1>13
  <2>4. a.updatedAt \in Int /\ b.updatedAt \in Int
    BY <1>3 DEF IsRow
  <2>5. \/ total(a) > total(b)
        \/ /\ total(a) = total(b)
           /\ \/ a.updatedAt > b.updatedAt
              \/ a.updatedAt = b.updatedAt /\ a.id > b.id
    <3> HIDE DEF va, vb, la, lb, total
    <3> QED
      BY <1>11, <1>13, <2>2, <2>3, <2>4
  <2> QED
    BY <2>5 DEF Outranks
<1> QED
  BY <1>12, <1>13 DEF Dominates

LEMMA RankGives == SearchInv /\ ReadsInv /\ RankInv => RankedByDominance
<1> SUFFICES ASSUME SearchInv, ReadsInv, RankInv, pc = "done",
                    NEW b \in Elements(result),
                    NEW a \in FoundRows(hydrated, lexicalRecords),
                    Dominates(a, b), a.id # b.id
             PROVE  \E i, j \in DOMAIN result : result[i] = a /\ result[j] = b /\ i < j
  BY DEF RankedByDominance, Answer
<1> DEFINE found == FoundRows(hydrated, lexicalRecords)
           ranked == Ranked(Hits, hydrated, lexicalRecords)
           n == request.limit
<1>1. IsSeq(Hits) /\ \A h \in Elements(Hits) : IsPoint(h)
  BY ConcatElements DEF Hits, ReadsInv, HitInScope
<1>2. \A r \in Elements(hydrated) \cup Elements(lexicalRecords) : IsRow(r)
  BY DEF ReadsInv, Asked
<1>3. \A r, s \in found : r.id = s.id => r = s
  BY DEF FoundRows, ReadsInv, OneById
<1>4. /\ IsSeq(ranked) /\ Elements(ranked) = found
      /\ \A i, j \in DOMAIN ranked :
            Outranks(ranked[i], ranked[j], found, Hits, lexicalRecords) => i < j
  BY <1>1, <1>2, <1>3, RankedFinds DEF ReadsInv
<1>5. n \in Nat /\ result = First(n, ranked)
  BY RetrievalAssumption DEF SearchInv, RankInv
<1> HIDE DEF ranked, n
<1>6. /\ IsSeq(result) /\ Len(result) \in Nat
      /\ DOMAIN result = 1 .. Len(result)
      /\ \A i \in DOMAIN result : i \in DOMAIN ranked /\ result[i] = ranked[i]
      /\ Elements(result) \subseteq found
  BY <1>4, <1>5, FirstKeeps, SeqOfElements
<1>7. PICK j \in DOMAIN result : result[j] = b
  BY DEF Elements
<1>8. PICK i \in DOMAIN ranked : ranked[i] = a
  BY <1>4 DEF Elements
<1>9. i < j
  <2>1. b \in found
    BY <1>6
  <2>2. Outranks(a, b, found, Hits, lexicalRecords)
    BY <2>1, DominatesOutranks
  <2> HIDE DEF found
  <2> QED
    BY <1>4, <1>6, <1>7, <1>8, <2>2
<1>10. i \in DOMAIN result
  <2>1. i \in Nat \ {0} /\ j \in 1 .. Len(result)
    BY <1>4, <1>6, <1>7, <1>8, SeqOfElements
  <2> QED
    BY <1>6, <1>9, <2>1
<1> QED
  BY <1>6, <1>7, <1>8, <1>9, <1>10

-----------------------------------------------------------------------------
(***************************************************************************)
(* Context packs.  The rows are dealt out by a recursive function.  That    *)
(* there is one, and what holds of it at each place, follows as always: of *)
(* the places where it does not, one would be the first.                   *)
(***************************************************************************)
LEMMA NoFirstFailure ==
  ASSUME NEW n \in Nat, NEW K, K \subseteq 0 .. n,
         \A k \in K : \E m \in K : m < k
  PROVE  K = {}
<1>1. K \in SUBSET Int /\ IsFiniteSet(K)
  <2>1. IsFiniteSet(0 .. n)
    BY FS_Interval
  <2>2. IsFiniteSet(K)
    BY <2>1, FS_Subset
  <2>3. K \in SUBSET Int
    OBVIOUS
  <2> QED
    BY <2>2, <2>3
<1>2. K # {} => \E m \in K : \A x \in K : m <= x
  BY <1>1, Greatest
<1> QED
  BY <1>1, <1>2

IsDeal(deal, s, n) ==
    deal = [k \in 0 .. n |-> IF k = 0 THEN EmptyPack ELSE PushSelection(deal[k - 1], s[k])]

LEMMA DealExists ==
  ASSUME NEW s, NEW n \in Nat
  PROVE  \E deal : IsDeal(deal, s, n)
<1> DEFINE K == {k \in 0 .. n : ~ \E deal : IsDeal(deal, s, k)}
<1>1. ASSUME NEW k \in K  PROVE \E m \in K : m < k
  <2>1. k # 0
    <3> DEFINE deal == [i \in 0 .. 0 |-> EmptyPack]
    <3>1. IsDeal(deal, s, 0)
      BY DEF IsDeal
    <3> QED
      BY <3>1
  <2>2. k \in 0 .. n /\ k - 1 \in 0 .. n /\ k - 1 < k
    BY <2>1
  <2>3. ASSUME NEW deal, IsDeal(deal, s, k - 1)  PROVE FALSE
    <3> DEFINE more == [i \in 0 .. k |-> IF i = k THEN PushSelection(deal[k - 1], s[k]) ELSE deal[i]]
    <3>1. more = [i \in 0 .. k |-> IF i = 0 THEN EmptyPack ELSE PushSelection(more[i - 1], s[i])]
      <4>1. ASSUME NEW i \in 0 .. k
            PROVE  more[i] = IF i = 0 THEN EmptyPack ELSE PushSelection(more[i - 1], s[i])
        <5>1. CASE i = k
          <6>1. more[i - 1] = deal[k - 1] /\ more[i] = PushSelection(deal[k - 1], s[k])
            BY <2>1, <2>2, <5>1
          <6> HIDE DEF more
          <6> QED
            BY <2>1, <5>1, <6>1
        <5>2. CASE i # k
          <6>1. i \in 0 .. (k - 1)
            BY <2>2, <5>2
          <6>2. more[i] = deal[i] /\ (i # 0 => more[i - 1] = deal[i - 1])
            BY <2>2, <6>1
          <6>3. deal[i] = IF i = 0 THEN EmptyPack ELSE PushSelection(deal[i - 1], s[i])
            BY <2>3, <6>1 DEF IsDeal
          <6> HIDE DEF more
          <6> QED
            BY <6>2, <6>3
        <5> QED
          BY <5>1, <5>2
      <4>2. more = [i \in 0 .. k |-> more[i]]
        OBVIOUS
      <4> HIDE DEF more
      <4> QED
        BY <4>1, <4>2
    <3> HIDE DEF more
    <3>2. IsDeal(more, s, k)
      BY <3>1 DEF IsDeal
    <3> QED
      BY <3>2
  <2>4. k - 1 \in K
    BY <2>2, <2>3
  <2> QED
    BY <2>2, <2>4
<1>2. K = {}
  <2>1. K \subseteq 0 .. n
    OBVIOUS
  <2> HIDE DEF K
  <2> QED
    BY <1>1, <2>1, NoFirstFailure
<1> QED
  BY <1>2

LEMMA PackIsDealt ==
  ASSUME NEW s, IsSeq(s)
  PROVE  \E deal : IsDeal(deal, s, Len(s)) /\ BuildContextPack(s) = deal[Len(s)]
<1> DEFINE deal == CHOOSE d : d = [k \in 0 .. Len(s) |->
                        IF k = 0 THEN EmptyPack ELSE PushSelection(d[k - 1], s[k])]
<1>1. Len(s) \in Nat
  BY SeqOfElements
<1>2. \E d : d = [k \in 0 .. Len(s) |->
                        IF k = 0 THEN EmptyPack ELSE PushSelection(d[k - 1], s[k])]
  BY <1>1, DealExists DEF IsDeal
<1>3. IsDeal(deal, s, Len(s))
  BY <1>2 DEF IsDeal
<1>4. BuildContextPack(s) = deal[Len(s)]
  BY DEF BuildContextPack
<1> QED
  BY <1>3, <1>4

LEMMA AppendAdds ==
  ASSUME NEW s, IsSeq(s), NEW x
  PROVE  LET t == Append(s, x) IN
         /\ IsSeq(t) /\ Len(t) = Len(s) + 1
         /\ t[Len(s) + 1] = x /\ \A i \in DOMAIN s : t[i] = s[i]
         /\ Elements(t) = Elements(s) \cup {x}
<1> DEFINE S == Elements(s) \cup {x}
           t == Append(s, x)
           n == Len(s)
<1>1. s \in Seq(Elements(s)) /\ n \in Nat /\ DOMAIN s = 1 .. n
  BY SeqOfElements
<1>2. s \in Seq(S) /\ x \in S
  BY <1>1, SeqMonotonic
<1>3. /\ t \in Seq(S) /\ Len(t) = n + 1 /\ t[n + 1] = x
      /\ \A i \in 1 .. n : t[i] = s[i]
  BY <1>2, AppendProperties
<1> HIDE DEF t
<1>4. t \in [1 .. (n + 1) -> S] /\ DOMAIN t = 1 .. (n + 1)
  BY <1>3, LenProperties
<1>5. IsSeq(t)
  <2>1. n + 1 \in Nat
    BY <1>1
  <2> HIDE DEF n, S
  <2> QED
    BY <1>4, <2>1 DEF IsSeq
<1>6. Elements(t) \subseteq S
  BY <1>4 DEF Elements
<1>7. Elements(s) \subseteq Elements(t)
  BY <1>1, <1>3, <1>4 DEF Elements
<1>8. x \in Elements(t)
  <2>1. n + 1 \in 1 .. (n + 1)
    BY <1>1
  <2> QED
    BY <1>3, <1>4, <2>1 DEF Elements
<1> QED
  BY <1>1, <1>3, <1>5, <1>6, <1>7, <1>8 DEF t

\* What the first n rows leave in a pack.
Overflowed(pack, s, k) ==
    LET section == SectionOf(s[k])
    IN  /\ Len(pack.sections[section]) = SectionLimit(section)
        /\ \A r \in Elements(pack.sections[section]) : \E l \in 1 .. k - 1 : s[l] = r

IsPackOf(pack, s, n) ==
    /\ pack = [sections |-> pack.sections, selected |-> pack.selected]
    /\ pack.sections = [section \in SectionNames |-> pack.sections[section]]
    /\ \A section \in SectionNames :
        /\ IsSeq(pack.sections[section])
        /\ Len(pack.sections[section]) <= SectionLimit(section)
        /\ \A r \in Elements(pack.sections[section]) : \E l \in 1 .. n : s[l] = r
    /\ IsSeq(pack.selected)
    /\ \A i \in DOMAIN pack.selected : \E k \in 1 .. n : s[k].id = pack.selected[i]
    /\ \A i, j \in DOMAIN pack.selected : i < j =>
        \E k, l \in 1 .. n :
            k < l /\ s[k].id = pack.selected[i] /\ s[l].id = pack.selected[j]
    /\ \A k \in 1 .. n : s[k].id \in Elements(pack.selected) \/ Overflowed(pack, s, k)

LEMMA SectionsNamed ==
  ASSUME NEW row
  PROVE  SectionOf(row) \in SectionNames /\ SectionLimit(SectionOf(row)) \in Nat
BY DEF SectionOf, SectionNames, SectionLimit

LEMMA EmptyPackOf ==
  ASSUME NEW s
  PROVE  IsPackOf(EmptyPack, s, 0)
<1>1. IsSeq(<<>>) /\ Elements(<<>>) = {} /\ Len(<<>>) = 0 /\ DOMAIN <<>> = {}
  BY EmptyIsSeq
<1>2. \A section \in SectionNames : 0 <= SectionLimit(section)
  BY DEF SectionLimit
<1>3. 1 .. 0 = {}
  OBVIOUS
<1>4. /\ EmptyPack = [sections |-> EmptyPack.sections, selected |-> EmptyPack.selected]
      /\ EmptyPack.sections = [section \in SectionNames |-> EmptyPack.sections[section]]
      /\ \A section \in SectionNames : EmptyPack.sections[section] = <<>>
      /\ EmptyPack.selected = <<>>
  BY DEF EmptyPack
<1> QED
  BY <1>1, <1>2, <1>3, <1>4 DEF IsPackOf

LEMMA PushKeeps ==
  ASSUME NEW s, NEW n \in Nat, NEW pack, IsPackOf(pack, s, n)
  PROVE  IsPackOf(PushSelection(pack, s[n + 1]), s, n + 1)
<1> DEFINE row == s[n + 1]
           t == SectionOf(row)
           old == pack.sections[t]
           new == PushSelection(pack, row)
<1>1. t \in SectionNames /\ SectionLimit(t) \in Nat
  BY SectionsNamed
<1>2. /\ IsSeq(old) /\ Len(old) \in Nat /\ Len(old) <= SectionLimit(t)
      /\ IsSeq(pack.selected) /\ Len(pack.selected) \in Nat
      /\ DOMAIN pack.selected = 1 .. Len(pack.selected)
  <2>1. IsSeq(old) /\ Len(old) <= SectionLimit(t) /\ IsSeq(pack.selected)
    BY <1>1 DEF IsPackOf
  <2> HIDE DEF old
  <2> QED
    BY <2>1, SeqOfElements
<1>3. \A k \in 1 .. n : k \in 1 .. (n + 1)
  OBVIOUS
<1>4. n + 1 \in 1 .. (n + 1) /\ \A k \in 1 .. (n + 1) : k \in 1 .. n \/ k = n + 1
  OBVIOUS
<1>5. CASE Len(old) >= SectionLimit(t)
  <2>1. new = pack
    BY <1>5 DEF PushSelection
  <2>2. Overflowed(pack, s, n + 1)
    <3>1. Len(old) = SectionLimit(t)
      BY <1>1, <1>2, <1>5
    <3>2. \A r \in Elements(old) : \E l \in 1 .. n : s[l] = r
      BY <1>1 DEF IsPackOf
    <3>3. n + 1 - 1 = n
      OBVIOUS
    <3> QED
      BY <3>1, <3>2, <3>3 DEF Overflowed
  <2> HIDE DEF new, row, t, old
  <2>3. IsPackOf(pack, s, n + 1)
    <3>1. \A i, j \in DOMAIN pack.selected : i < j =>
            \E k, l \in 1 .. (n + 1) :
                k < l /\ s[k].id = pack.selected[i] /\ s[l].id = pack.selected[j]
      BY <1>3 DEF IsPackOf
    <3> QED
      BY <1>3, <1>4, <2>2, <3>1 DEF IsPackOf
  <2> QED
    BY <2>1, <2>3 DEF new, row
<1>6. CASE Len(old) < SectionLimit(t)
  <2> DEFINE sections == [pack.sections EXCEPT ![t] = Append(old, row)]
             selected == Append(pack.selected, row.id)
             m == Len(pack.selected)
  <2>1. new = [sections |-> sections, selected |-> selected]
    <3>1. ~ (Len(old) >= SectionLimit(t))
      BY <1>1, <1>2, <1>6
    <3> QED
      BY <3>1 DEF PushSelection
  <2> HIDE DEF new, old
  <2>2. /\ IsSeq(Append(old, row)) /\ Len(Append(old, row)) <= SectionLimit(t)
        /\ Elements(Append(old, row)) = Elements(old) \cup {row}
    <3> HIDE DEF t, row
    <3> QED
      BY <1>1, <1>2, <1>6, AppendAdds
  <2>3. /\ IsSeq(selected) /\ Len(selected) = m + 1
        /\ selected[m + 1] = row.id /\ \A i \in 1 .. m : selected[i] = pack.selected[i]
        /\ Elements(selected) = Elements(pack.selected) \cup {row.id}
        /\ DOMAIN selected = 1 .. (m + 1)
    <3>1. /\ IsSeq(selected) /\ Len(selected) = m + 1
          /\ selected[m + 1] = row.id /\ \A i \in 1 .. m : selected[i] = pack.selected[i]
          /\ Elements(selected) = Elements(pack.selected) \cup {row.id}
      <4> HIDE DEF row
      <4> QED
        BY <1>2, AppendAdds
    <3> HIDE DEF selected, m
    <3> QED
      BY <3>1, SeqOfElements
  <2>4. /\ sections = [section \in SectionNames |-> sections[section]]
        /\ sections[t] = Append(old, row)
        /\ \A section \in SectionNames : section # t => sections[section] = pack.sections[section]
    <3>1. pack.sections = [section \in SectionNames |-> pack.sections[section]]
      BY DEF IsPackOf
    <3> HIDE DEF t, row
    <3> QED
      BY <1>1, <3>1
  <2> HIDE DEF sections, selected, m
  <2>5. /\ new = [sections |-> new.sections, selected |-> new.selected]
        /\ new.sections = sections /\ new.selected = selected
    BY <2>1
  <2>6. ASSUME NEW section \in SectionNames
        PROVE  /\ IsSeq(sections[section])
               /\ Len(sections[section]) <= SectionLimit(section)
               /\ \A r \in Elements(sections[section]) : \E l \in 1 .. (n + 1) : s[l] = r
    <3>1. \A r \in Elements(pack.sections[section]) : \E l \in 1 .. (n + 1) : s[l] = r
      BY <1>3 DEF IsPackOf
    <3>2. CASE section = t
      <4>1. \A r \in Elements(old) \cup {row} : \E l \in 1 .. (n + 1) : s[l] = r
        BY <1>4, <3>1, <3>2 DEF old
      <4> HIDE DEF t, row
      <4> QED
        BY <2>2, <2>4, <3>2, <4>1
    <3>3. CASE section # t
      BY <2>4, <3>1, <3>3 DEF IsPackOf
    <3> QED
      BY <3>2, <3>3
  <2>7. \A i \in 1 .. (m + 1) : i \in 1 .. m \/ i = m + 1
    BY <1>2 DEF m
  <2>8. ASSUME NEW i \in DOMAIN selected  PROVE \E k \in 1 .. (n + 1) : s[k].id = selected[i]
    <3>1. CASE i \in 1 .. m
      BY <1>2, <1>3, <2>3, <3>1 DEF IsPackOf, m
    <3>2. CASE i = m + 1
      BY <1>4, <2>3, <3>2
    <3> QED
      BY <2>3, <2>7, <3>1, <3>2
  <2>9. ASSUME NEW i \in DOMAIN selected, NEW j \in DOMAIN selected, i < j
        PROVE  \E k, l \in 1 .. (n + 1) :
                  k < l /\ s[k].id = selected[i] /\ s[l].id = selected[j]
    <3>1. i \in 1 .. m
      BY <1>2, <2>3, <2>9 DEF m
    <3>2. CASE j \in 1 .. m
      <4>1. \E k, l \in 1 .. n :
              k < l /\ s[k].id = pack.selected[i] /\ s[l].id = pack.selected[j]
        BY <1>2, <2>9, <3>1, <3>2 DEF IsPackOf, m
      <4> QED
        BY <1>3, <2>3, <3>1, <3>2, <4>1
    <3>3. CASE j = m + 1
      <4>1. PICK k \in 1 .. n : s[k].id = pack.selected[i]
        BY <1>2, <3>1 DEF IsPackOf, m
      <4>2. k \in 1 .. (n + 1) /\ k < n + 1 /\ s[k].id = selected[i]
        BY <2>3, <3>1, <4>1
      <4> QED
        BY <1>4, <2>3, <3>3, <4>2
    <3> QED
      BY <2>3, <2>7, <3>2, <3>3
  <2>10. ASSUME NEW k \in 1 .. (n + 1)
         PROVE  s[k].id \in Elements(selected) \/ Overflowed(new, s, k)
    <3>1. CASE k = n + 1
      BY <2>3, <3>1
    <3>2. CASE k \in 1 .. n /\ s[k].id \in Elements(pack.selected)
      BY <2>3, <3>2
    <3>3. CASE k \in 1 .. n /\ Overflowed(pack, s, k)
      <4>1. SectionOf(s[k]) # t
        BY <1>1, <1>2, <1>6, <3>3 DEF Overflowed, old
      <4>2. SectionOf(s[k]) \in SectionNames
        BY SectionsNamed
      <4>3. new.sections[SectionOf(s[k])] = pack.sections[SectionOf(s[k])]
        BY <2>4, <2>5, <4>1, <4>2
      <4> HIDE DEF t, row
      <4> QED
        BY <3>3, <4>3 DEF Overflowed
    <3> QED
      BY <1>4, <3>1, <3>2, <3>3 DEF IsPackOf
  <2> HIDE DEF t, row
  <2>11. IsPackOf(new, s, n + 1)
    BY <2>3, <2>4, <2>5, <2>6, <2>8, <2>9, <2>10 DEF IsPackOf
  <2> QED
    BY <2>11 DEF new, row
<1>7. Len(old) >= SectionLimit(t) \/ Len(old) < SectionLimit(t)
  BY <1>1, <1>2
<1> QED
  BY <1>5, <1>6, <1>7

LEMMA DealtPacks ==
  ASSUME NEW s, NEW n \in Nat, NEW deal, IsDeal(deal, s, n)
  PROVE  \A k \in 0 .. n : IsPackOf(deal[k], s, k)
<1> DEFINE K == {k \in 0 .. n : ~ IsPackOf(deal[k], s, k)}
<1>1. \A k \in 0 .. n : deal[k] = IF k = 0 THEN EmptyPack ELSE PushSelection(deal[k - 1], s[k])
  BY DEF IsDeal
<1>2. ASSUME NEW k \in K  PROVE \E m \in K : m < k
  <2>1. k # 0
    BY <1>1, EmptyPackOf
  <2>2. k \in 0 .. n /\ k - 1 \in 0 .. n /\ k - 1 < k /\ k - 1 \in Nat /\ (k - 1) + 1 = k
    BY <2>1
  <2>3. deal[k] = PushSelection(deal[k - 1], s[k])
    BY <1>1, <2>1
  <2>4. IsPackOf(deal[k - 1], s, k - 1) => IsPackOf(deal[k], s, k)
    <3> DEFINE m == k - 1
    <3>1. m \in Nat /\ m + 1 = k
      BY <2>2
    <3> HIDE DEF m
    <3>2. IsPackOf(deal[m], s, m) => IsPackOf(PushSelection(deal[m], s[m + 1]), s, m + 1)
      BY <3>1, PushKeeps
    <3> QED
      BY <2>3, <3>1, <3>2 DEF m
  <2> QED
    BY <2>2, <2>4
<1>3. K = {}
  <2>1. K \subseteq 0 .. n
    OBVIOUS
  <2> HIDE DEF K
  <2> QED
    BY <1>2, <2>1, NoFirstFailure
<1> QED
  BY <1>3

\* Rendering puts the rows of a section in another order.
LEMMA RenderKeeps ==
  ASSUME NEW s, IsSeq(s)
  PROVE  Len(RenderSection(s)) = Len(s) /\ Elements(RenderSection(s)) = Elements(s)
<1> DEFINE K == {k \in DOMAIN s : s[k].scopeType = "project"}
           L == {k \in DOMAIN s : ~ (s[k].scopeType = "project")}
           t == [k \in DOMAIN InOrder(K) |-> s[InOrder(K)[k]]]
           u == [k \in DOMAIN InOrder(L) |-> s[InOrder(L)[k]]]
<1>1. RenderSection(s) = t \o u
  BY DEF RenderSection, Selected
<1>2. DOMAIN s = 1 .. Len(s) /\ Len(s) \in Nat
  BY SeqOfElements
<1>3. /\ K \in SUBSET DOMAIN s /\ L \in SUBSET DOMAIN s
      /\ K \cup L = DOMAIN s /\ K \cap L = {}
  OBVIOUS
<1> HIDE DEF K, L
<1>4. /\ IsSeq(t) /\ Elements(t) = {s[i] : i \in K} /\ Len(t) = Cardinality(K)
      /\ IsSeq(u) /\ Elements(u) = {s[i] : i \in L} /\ Len(u) = Cardinality(L)
  BY <1>3, Picked
<1> HIDE DEF t, u
<1>5. Cardinality(K) + Cardinality(L) = Len(s)
  <2>1. IsFiniteSet(K) /\ IsFiniteSet(L)
    BY <1>2, <1>3, PlacesFinite
  <2>2. Cardinality(K \cup L) = Cardinality(K) + Cardinality(L) - Cardinality(K \cap L)
    BY <2>1, FS_Union
  <2>3. Cardinality(K \cap L) = 0
    BY <1>3, FS_EmptySet
  <2>4. Cardinality(1 .. Len(s)) = Len(s)
    <3>1. Cardinality(1 .. Len(s)) = IF 1 > Len(s) THEN 0 ELSE Len(s) - 1 + 1
      BY <1>2, FS_Interval
    <3> QED
      BY <1>2, <3>1
  <2>5. Cardinality(K) \in Nat /\ Cardinality(L) \in Nat
    BY <2>1, FS_CardinalityType
  <2>6. Cardinality(K \cup L) = Len(s)
    BY <1>2, <1>3, <2>4
  <2> QED
    BY <1>2, <2>2, <2>3, <2>5, <2>6
<1>6. Elements(t) \cup Elements(u) = Elements(s)
  BY <1>3, <1>4 DEF Elements
<1> QED
  BY <1>1, <1>4, <1>5, <1>6, ConcatElements

\* What a pack of a list of rows may say of them.
PackFits(selected, markdown, s) ==
    /\ \A i, j \in DOMAIN selected : i < j =>
        \E k, l \in DOMAIN s : k < l /\ s[k].id = selected[i] /\ s[l].id = selected[j]
    /\ \A k \in DOMAIN s : s[k].id \notin Elements(selected) =>
        /\ Len(markdown[SectionOf(s[k])]) = SectionLimit(SectionOf(s[k]))
        /\ \A r \in Elements(markdown[SectionOf(s[k])]) : \E l \in 1 .. k - 1 : s[l] = r

LEMMA PackOfRows ==
  ASSUME NEW s, IsSeq(s), NEW selected, NEW markdown,
         selected = BuildContextPack(s).selected,
         markdown = [section \in SectionNames |->
                        RenderSection(BuildContextPack(s).sections[section])]
  PROVE  PackFits(selected, markdown, s)
<1> DEFINE pack == BuildContextPack(s)
<1>1. Len(s) \in Nat /\ DOMAIN s = 1 .. Len(s)
  BY SeqOfElements
<1>2. PICK deal : IsDeal(deal, s, Len(s)) /\ pack = deal[Len(s)]
  BY PackIsDealt
<1> HIDE DEF pack
<1>3. IsPackOf(pack, s, Len(s))
  <2>1. \A k \in 0 .. Len(s) : IsPackOf(deal[k], s, k)
    BY <1>1, <1>2, DealtPacks
  <2>2. Len(s) \in 0 .. Len(s)
    BY <1>1
  <2> QED
    BY <1>2, <2>1, <2>2
<1>4. \A i, j \in DOMAIN pack.selected : i < j =>
        \E k, l \in DOMAIN s :
            k < l /\ s[k].id = pack.selected[i] /\ s[l].id = pack.selected[j]
  BY <1>1, <1>3 DEF IsPackOf
<1>5. ASSUME NEW k \in DOMAIN s, s[k].id \notin Elements(pack.selected)
      PROVE  /\ Len(markdown[SectionOf(s[k])]) = SectionLimit(SectionOf(s[k]))
             /\ \A r \in Elements(markdown[SectionOf(s[k])]) : \E l \in 1 .. k - 1 : s[l] = r
  <2> DEFINE section == SectionOf(s[k])
             kept == pack.sections[section]
  <2>1. section \in SectionNames
    BY SectionsNamed
  <2>2. IsSeq(kept)
    BY <1>3, <2>1 DEF IsPackOf
  <2>3. Overflowed(pack, s, k)
    BY <1>1, <1>3, <1>5 DEF IsPackOf
  <2>4. /\ Len(kept) = SectionLimit(section)
        /\ \A r \in Elements(kept) : \E l \in 1 .. k - 1 : s[l] = r
    BY <2>3 DEF Overflowed
  <2>5. markdown[section] = RenderSection(kept)
    BY <2>1 DEF pack
  <2> HIDE DEF kept, section
  <2>6. Len(RenderSection(kept)) = Len(kept) /\ Elements(RenderSection(kept)) = Elements(kept)
    BY <2>2, RenderKeeps
  <2>7. /\ Len(markdown[section]) = SectionLimit(section)
        /\ \A r \in Elements(markdown[section]) : \E l \in 1 .. k - 1 : s[l] = r
    BY <2>4, <2>5, <2>6
  <2> QED
    BY <2>7 DEF section
<1>6. selected = pack.selected
  BY DEF pack
<1>7. \A k \in DOMAIN s : s[k].id \notin Elements(pack.selected) =>
        /\ Len(markdown[SectionOf(s[k])]) = SectionLimit(SectionOf(s[k]))
        /\ \A r \in Elements(markdown[SectionOf(s[k])]) : \E l \in 1 .. k - 1 : s[l] = r
  BY <1>5, Zenon
<1>8. PackFits(pack.selected, markdown, s)
  BY <1>4, <1>7, Zenon DEF PackFits
<1> QED
  BY <1>6, <1>8

\* A search that has not ended has stored no pack.
PackInv ==
    /\ pc # "done" => packRuns = {}
    /\ PackLosesOnlyOverflow

LEMMA PackInit == Init => PackInv
BY DEF Init, PackInv, PackLosesOnlyOverflow

LEMMA PackStep == StoresInv /\ ReadsInv /\ PackInv /\ [Next]_vars => PackInv'
<1> SUFFICES ASSUME StoresInv, ReadsInv, PackInv, [Next]_vars  PROVE PackInv'
  OBVIOUS
<1>1. CASE UNCHANGED <<packRuns, result, pc>>
  BY <1>1 DEF PackInv, PackLosesOnlyOverflow
<1>2. CASE packRuns' = packRuns /\ pc # "done" /\ pc' # "done"
  BY <1>2 DEF PackInv, PackLosesOnlyOverflow
<1>3. CASE Rank
  <2>1. packRuns' = packRuns /\ packRuns = {}
    BY <1>3 DEF Rank, PackInv
  <2> QED
    BY <2>1 DEF PackInv, PackLosesOnlyOverflow
<1>4. CASE CreateContextPackRun
  <2> DEFINE pack == BuildContextPack(result)
             markdown == [s \in SectionNames |-> RenderSection(pack.sections[s])]
             run == [org |-> request.org, projectKey |-> request.projectKey,
                     selected |-> pack.selected, markdown |-> markdown]
  <2>1. packRuns' = {run} /\ result' = result /\ pc' = "done"
    BY <1>4 DEF CreateContextPackRun, PackInv, reads
  <2>2. run.selected = pack.selected /\ run.markdown = markdown
    OBVIOUS
  <2>3. IsSeq(result)
    BY DEF ReadsInv
  <2> HIDE DEF run
  <2>4. PackFits(run.selected, run.markdown, result)
    BY <2>2, <2>3, PackOfRows
  <2> QED
    BY <2>1, <2>4 DEF PackInv, PackLosesOnlyOverflow, PackFits
<1>5. CASE BeginSearch \/ QueryProject \/ QueryUser \/ QueryLexical \/ Hydrate \/ FailSearch
  BY <1>2, <1>5 DEF BeginSearch, QueryProject, QueryUser, QueryLexical, Answered, Hydrate,
                    FailSearch, writes, reads
<1>6. CASE \E id \in Ids : \/ ArchiveRow(id) \/ DeletePoints(id) \/ UpsertPoints(id)
                           \/ \E text \in Texts : EditRow(id, text)
  <2>1. PICK id \in Ids : Write(id)
    BY <1>6, WriterWrites
  <2> QED
    BY <1>1, <2>1 DEF Write, reads
<1> QED
  BY <1>1, <1>3, <1>4, <1>5, <1>6 DEF Next, vars, reads

-----------------------------------------------------------------------------
(* What a search returns *)

RetrievalInv == StoresInv /\ SearchInv /\ ReadsInv /\ FindInv /\ RankInv /\ PackInv

LEMMA RetrievalInductive == Spec => []RetrievalInv
<1>1. Init => RetrievalInv
  BY StoresInit, ReadsInit, FindInit, RankInit, PackInit DEF RetrievalInv
<1>2. RetrievalInv /\ [Next]_vars => RetrievalInv'
  BY StoresStep, SearchStep, ReadsStep, FindStep, RankStep, PackStep DEF RetrievalInv
<1> QED
  BY <1>1, <1>2, PTL DEF Spec

(* Whatever the stores hold, whatever their filters let through and whoever
   writes meanwhile, every row that search_memory returns is of the
   organization and of a scope that was asked for. *)
THEOREM AnswersInScope == Spec => []ReturnsOnlyAsked
<1>1. RetrievalInv => ReturnsOnlyAsked
  BY DEF RetrievalInv, ReadsInv, Asked, ReturnsOnlyAsked, Answer
<1> QED
  BY <1>1, RetrievalInductive, PTL

(* Every row of an answer was in the table, committed and not archived, at
   some moment of the search: no stale point and no pair of reads bring back
   an older version or an archived record. *)
THEOREM AnswersCommitted == Spec => []ReturnsCommittedRows
<1>1. RetrievalInv => ReturnsCommittedRows
  BY DEF RetrievalInv, ReadsInv, Asked, ReturnsCommittedRows, Answer
<1> QED
  BY <1>1, RetrievalInductive, PTL

(* A record that is indexed, and that nothing touched during the search, is
   missing from the answer only when the answer, or the hits of its scope,
   are as many as the request allows. *)
THEOREM FindsUntouched == Spec => []FindsIndexed
<1>1. RetrievalInv => FindsIndexed
  BY DEF RetrievalInv, FindInv, Sought, Untouched, Full, FindsIndexed, Answer
<1> QED
  BY <1>1, RetrievalInductive, PTL

(* A row that no reader would put behind another, at least as good in every
   respect and better in one, is never returned behind it, and is returned when
   the other is: ranks, clamps and rounding do not turn a clear order around. *)
THEOREM RanksFairly == Spec => []RankedByDominance
<1>1. RetrievalInv => RankedByDominance
  BY RankGives DEF RetrievalInv
<1> QED
  BY <1>1, RetrievalInductive, PTL

(* A context pack lists what it selected in the order of the ranking, and
   leaves a row out only when the section the row belongs to is full of rows
   ranked before it. *)
THEOREM PacksInOrder == Spec => []PackLosesOnlyOverflow
<1>1. RetrievalInv => PackLosesOnlyOverflow
  BY DEF RetrievalInv, PackInv
<1> QED
  BY <1>1, RetrievalInductive, PTL

=============================================================================
