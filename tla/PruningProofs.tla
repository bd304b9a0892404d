---------------------------- MODULE PruningProofs ----------------------------
(* What Without keeps: type, order, distinctness and the entries that stay.    *)
(* The library's induction theorems take an operator and cannot be used; the   *)
(* facts rest on the least-number principle instead (WFMin for < on Nat),      *)
(* whose parameters are sets.                                                  *)
EXTENDS Pruning, FiniteSetTheorems, NaturalsInduction, WellFoundedInduction, TLAPS

\* A set of naturals that is not empty has a least member.
LEMMA LeastNumber ==
    ASSUME NEW T, T \subseteq Nat, T # {}
    PROVE  \E x \in T : \A y \in T : x <= y
<1>1. PICK x \in T : \A y \in T : ~(<<y, x>> \in OpToRel(<, Nat))
  BY NatLessThanWellFounded, WFMin
<1>2. \A y \in T : ~(y < x)
  BY <1>1 DEF OpToRel
<1> QED BY <1>2

\* The indices of a list of m entries.
LEMMA IndexCount ==
    ASSUME NEW m \in Nat
    PROVE  IsFiniteSet(1..m) /\ Cardinality(1..m) = m
BY FS_Interval

\* A set of indices is a finite set of naturals.
LEMMA IndicesFinite ==
    ASSUME NEW m \in Nat, NEW K, K \subseteq 1..m
    PROVE  IsFiniteSet(K) /\ K \subseteq Nat /\ Cardinality(K) \in Nat /\ Cardinality(K) <= m
<1>1. \A k \in K : k \in 1..m
  OBVIOUS
<1>2. \A k \in K : k \in Nat
  BY <1>1
<1>3. K \in SUBSET (1..m) /\ IsFiniteSet(1..m) /\ Cardinality(1..m) = m
  BY FS_Interval
<1>4. IsFiniteSet(K) /\ Cardinality(K) <= m
  BY <1>3, FS_Subset
<1> QED BY <1>2, <1>4, FS_CardinalityType

\* Places count from 1 to the number of members.
LEMMA PlaceRange ==
    ASSUME NEW K, IsFiniteSet(K), K \subseteq Nat, NEW i
    PROVE  /\ Place(K, i) \in Nat
           /\ Place(K, i) <= Cardinality(K)
           /\ i \in K => Place(K, i) >= 1
<1> DEFINE U == {j \in K : j <= i}
<1>1. U \in SUBSET K
  OBVIOUS
<1>2. IsFiniteSet(U) /\ Cardinality(U) \in Nat /\ Cardinality(U) <= Cardinality(K)
  BY <1>1, FS_Subset, FS_CardinalityType
<1>3. ASSUME i \in K PROVE Cardinality(U) >= 1
  <2>1. i \in U
    BY <1>3
  <2>2. Cardinality(U) # 0
    BY <1>2, <2>1, FS_EmptySet
  <2> QED BY <1>2, <2>2
<1> QED BY <1>2, <1>3 DEF Place

\* A later member has a higher place.
LEMMA PlaceGrows ==
    ASSUME NEW K, IsFiniteSet(K), K \subseteq Nat, NEW i \in K, NEW j \in K, i < j
    PROVE  Place(K, i) < Place(K, j)
<1> DEFINE U == {k \in K : k <= i}
           V == {k \in K : k <= j}
<1>0. \A k \in K : k \in Nat
  OBVIOUS
<1>1. U \in SUBSET K /\ V \in SUBSET K /\ U \in SUBSET V /\ j \in V /\ j \notin U
  <2>1. \A k \in K : k <= i => k <= j
    BY <1>0
  <2>2. j <= j /\ ~(j <= i)
    BY <1>0
  <2> QED BY <2>1, <2>2, Zenon
<1>2. IsFiniteSet(U) /\ IsFiniteSet(V) /\ Cardinality(U) \in Nat /\ Cardinality(V) \in Nat
  BY <1>1, FS_Subset, FS_CardinalityType
<1>3. Cardinality(U) <= Cardinality(V) /\ Cardinality(U) # Cardinality(V)
  BY <1>1, <1>2, FS_Subset
<1> QED BY <1>2, <1>3 DEF Place

\* Different members have different places.
LEMMA PlaceInjective ==
    ASSUME NEW K, IsFiniteSet(K), K \subseteq Nat, NEW i \in K, NEW j \in K,
           Place(K, i) = Place(K, j)
    PROVE  i = j
<1>1. i \in Nat /\ j \in Nat /\ Place(K, i) \in Nat /\ Place(K, j) \in Nat
  BY PlaceRange
<1>2. ~(i < j)
  <2> SUFFICES ASSUME i < j PROVE FALSE
    OBVIOUS
  <2>1. Place(K, i) < Place(K, j)
    BY PlaceGrows
  <2> QED BY <1>1, <2>1
<1>3. ~(j < i)
  <2> SUFFICES ASSUME j < i PROVE FALSE
    OBVIOUS
  <2>1. Place(K, j) < Place(K, i)
    BY PlaceGrows
  <2> QED BY <1>1, <2>1
<1> QED BY <1>1, <1>2, <1>3

\* One step further adds a place exactly for a member.
LEMMA PlaceStep ==
    ASSUME NEW K, IsFiniteSet(K), K \subseteq Nat, NEW i \in Nat
    PROVE  Place(K, i + 1) = IF i + 1 \in K THEN Place(K, i) + 1 ELSE Place(K, i)
<1> DEFINE U == {k \in K : k <= i}
           V == {k \in K : k <= i + 1}
<1>0. \A k \in K : k \in Nat /\ (k <= i + 1 <=> k <= i \/ k = i + 1)
  <2>1. \A k \in K : k \in Nat
    OBVIOUS
  <2> QED BY <2>1
<1>1. U \in SUBSET K
  OBVIOUS
<1>2. IsFiniteSet(U)
  BY <1>1, FS_Subset
<1>3. CASE i + 1 \in K
  <2>1. V = U \cup {i + 1} /\ i + 1 \notin U
    <3>1. ~(i + 1 <= i)
      OBVIOUS
    <3> QED BY <1>0, <1>3, <3>1, Zenon
  <2>2. Cardinality(V) = Cardinality(U) + 1
    BY <1>2, <2>1, FS_AddElement
  <2> QED BY <1>3, <2>2 DEF Place
<1>4. CASE i + 1 \notin K
  <2>1. V = U
    BY <1>0, <1>4, Zenon
  <2> QED BY <1>4, <2>1 DEF Place
<1> QED BY <1>3, <1>4

\* Every place is taken.
LEMMA PlaceTaken ==
    ASSUME NEW m \in Nat, NEW K, K \subseteq 1..m, NEW n \in 1..Cardinality(K)
    PROVE  \E i \in K : Place(K, i) = n
<1> DEFINE T == {i \in 0..m : Place(K, i) >= n}
<1>a. \A k \in K : k \in Nat /\ k <= m /\ ~(k <= 0)
  <2>1. \A k \in K : k \in 1..m
    OBVIOUS
  <2> QED BY <2>1
<1>0. IsFiniteSet(K) /\ K \subseteq Nat /\ Cardinality(K) \in Nat
  BY IndicesFinite
<1>1. Place(K, m) = Cardinality(K)
  <2>1. {j \in K : j <= m} = K
    BY <1>a, Zenon
  <2> QED BY <2>1 DEF Place
<1>2. Place(K, 0) = 0
  <2>1. {j \in K : j <= 0} = {}
    BY <1>a, Zenon
  <2> QED BY <2>1, FS_EmptySet DEF Place
<1>3. m \in T /\ T \subseteq Nat
  BY <1>0, <1>1
<1>4. PICK x \in T : \A y \in T : x <= y
  BY <1>3, LeastNumber
<1>5. x \in 1..m
  BY <1>2, <1>4
<1>6. x - 1 \in 0..m /\ x - 1 \in Nat /\ x = (x - 1) + 1
  BY <1>5
<1>7. Place(K, x - 1) \in Nat /\ Place(K, x - 1) < n
  <2>1. Place(K, x - 1) \in Nat
    BY <1>0, PlaceRange
  <2>2. x - 1 \notin T
    BY <1>4, <1>5
  <2> QED BY <2>1, <2>2, <1>6
<1>8. Place(K, (x - 1) + 1) = IF (x - 1) + 1 \in K THEN Place(K, x - 1) + 1 ELSE Place(K, x - 1)
  BY <1>0, <1>6, PlaceStep
<1>9. Place(K, x) >= n
  BY <1>4
<1>10. x \in K
  BY <1>6, <1>7, <1>8, <1>9
<1>11. Place(K, x) = n
  BY <1>6, <1>7, <1>8, <1>9, <1>10
<1> QED BY <1>10, <1>11

\* Without lists the kept entries, each once and in the order they had.
LEMMA WithoutEnumerates ==
    ASSUME NEW S, NEW s \in Seq(S), NEW gone
    PROVE  LET K == KeptIndices(s, gone)
               w == Without(s, gone)
           IN  /\ w \in Seq(S)
               /\ Len(w) = Cardinality(K)
               /\ Len(w) \in Nat
               /\ \E at \in [1..Len(w) -> K] :
                    /\ \A n \in 1..Len(w) : w[n] = s[at[n]] /\ Place(K, at[n]) = n
                    /\ \A i \in K : \E n \in 1..Len(w) : at[n] = i
<1> DEFINE K  == KeptIndices(s, gone)
           w  == Without(s, gone)
           N  == Cardinality(K)
           at == [n \in 1..N |-> CHOOSE i \in K : Place(K, i) = n]
<1>1. K \subseteq 1..Len(s) /\ Len(s) \in Nat /\ \A i \in K : s[i] \in S
  BY DEF KeptIndices
<1>2. IsFiniteSet(K) /\ K \subseteq Nat /\ N \in Nat
  BY <1>1, IndicesFinite
<1>3. \A n \in 1..N : at[n] \in K /\ Place(K, at[n]) = n
  <2> TAKE n \in 1..N
  <2>1. \E i \in K : Place(K, i) = n
    BY <1>1, PlaceTaken
  <2>2. at[n] = CHOOSE i \in K : Place(K, i) = n
    OBVIOUS
  <2> HIDE DEF K, at
  <2> QED BY <2>1, <2>2
<1>4. w = [n \in 1..N |-> s[at[n]]]
  BY DEF Without
<1>5. \A i \in K : Place(K, i) \in 1..N /\ at[Place(K, i)] = i
  <2> SUFFICES ASSUME NEW i \in K PROVE Place(K, i) \in 1..N /\ at[Place(K, i)] = i
    OBVIOUS
  <2>1. Place(K, i) \in 1..N
    BY <1>2, PlaceRange
  <2> DEFINE j == at[Place(K, i)]
  <2>2. j \in K /\ Place(K, j) = Place(K, i)
    BY <2>1, <1>3
  <2>3. j = i
    <3> HIDE DEF K, j
    <3> QED BY <1>2, <2>2, PlaceInjective
  <2> QED BY <2>1, <2>3
<1> HIDE DEF K, at, N
<1>6. w \in [1..N -> S]
  BY <1>1, <1>3, <1>4
<1>7. w \in Seq(S) /\ Len(w) = N
  BY <1>2, <1>6
<1>8. at \in [1..N -> K]
  BY <1>3 DEF at
<1>9. \A n \in 1..N : w[n] = s[at[n]] /\ Place(K, at[n]) = n
  BY <1>3, <1>4
<1>10. \A i \in K : \E n \in 1..N : at[n] = i
  BY <1>5
<1> QED BY <1>2, <1>7, <1>8, <1>9, <1>10 DEF K, N

\* A pruned list is a list of the same kind and no longer than it was.
LEMMA WithoutType ==
    ASSUME NEW S, NEW s \in Seq(S), NEW gone
    PROVE  /\ Without(s, gone) \in Seq(S)
           /\ Len(Without(s, gone)) \in Nat
           /\ Len(Without(s, gone)) <= Len(s)
<1>1. KeptIndices(s, gone) \subseteq 1..Len(s) /\ Len(s) \in Nat
  BY DEF KeptIndices
<1>2. Cardinality(KeptIndices(s, gone)) <= Len(s)
  BY <1>1, IndicesFinite
<1> QED BY <1>2, WithoutEnumerates

\* Exactly the entries outside gone stay.
LEMMA WithoutListed ==
    ASSUME NEW S, NEW s \in Seq(S), NEW gone, NEW k
    PROVE  Listed(k, Without(s, gone)) <=> Listed(k, s) /\ k \notin gone
<1> DEFINE K == KeptIndices(s, gone)
           w == Without(s, gone)
<1>1. /\ w \in Seq(S)
      /\ \E at \in [1..Len(w) -> K] :
            /\ \A n \in 1..Len(w) : w[n] = s[at[n]] /\ Place(K, at[n]) = n
            /\ \A i \in K : \E n \in 1..Len(w) : at[n] = i
  BY WithoutEnumerates
<1>2. DOMAIN w = 1..Len(w)
  BY <1>1
<1> HIDE DEF w
<1>3. PICK at \in [1..Len(w) -> K] :
            /\ \A n \in 1..Len(w) : w[n] = s[at[n]]
            /\ \A i \in K : \E n \in 1..Len(w) : at[n] = i
  BY <1>1, Zenon
<1>4. ASSUME Listed(k, w) PROVE Listed(k, s) /\ k \notin gone
  <2>1. PICK n \in 1..Len(w) : w[n] = k
    BY <1>2, <1>4 DEF Listed
  <2>2. at[n] \in K /\ s[at[n]] = k
    BY <1>3, <2>1
  <2> QED BY <2>2 DEF KeptIndices, Listed
<1>5. ASSUME Listed(k, s), k \notin gone PROVE Listed(k, w)
  <2>1. PICK i \in K : s[i] = k
    BY <1>5 DEF KeptIndices, Listed
  <2>2. PICK n \in 1..Len(w) : at[n] = i
    BY <1>3
  <2> QED BY <1>2, <1>3, <2>1, <2>2 DEF Listed
<1> QED BY <1>4, <1>5 DEF w

\* The entries that stay keep their order.
LEMMA WithoutOrder ==
    ASSUME NEW S, NEW s \in Seq(S), NEW gone,
           NEW m \in DOMAIN Without(s, gone), NEW n \in DOMAIN Without(s, gone), m < n
    PROVE  \E i, j \in DOMAIN s :
              i < j /\ Without(s, gone)[m] = s[i] /\ Without(s, gone)[n] = s[j]
<1> DEFINE K == KeptIndices(s, gone)
           w == Without(s, gone)
<1>1. /\ w \in Seq(S)
      /\ \E at \in [1..Len(w) -> K] :
            /\ \A l \in 1..Len(w) : w[l] = s[at[l]] /\ Place(K, at[l]) = l
            /\ \A i \in K : \E l \in 1..Len(w) : at[l] = i
  BY WithoutEnumerates
<1>2. DOMAIN w = 1..Len(w) /\ m \in 1..Len(w) /\ n \in 1..Len(w)
  BY <1>1
<1>3. K \subseteq 1..Len(s) /\ Len(s) \in Nat /\ DOMAIN s = 1..Len(s)
  BY DEF KeptIndices
<1>4. IsFiniteSet(K) /\ K \subseteq Nat
  BY <1>3, IndicesFinite
<1> HIDE DEF w, K
<1>5. PICK at \in [1..Len(w) -> K] :
            \A l \in 1..Len(w) : w[l] = s[at[l]] /\ Place(K, at[l]) = l
  BY <1>1, Zenon
<1> DEFINE i == at[m]
           j == at[n]
<1>6. i \in K /\ j \in K /\ w[m] = s[i] /\ w[n] = s[j] /\ Place(K, i) = m /\ Place(K, j) = n
  BY <1>2, <1>5
<1>7. i < j
  <2> HIDE DEF i, j
  <2>1. i \in Nat /\ j \in Nat /\ m \in Nat /\ n \in Nat
    BY <1>2, <1>4, <1>6
  <2>2. i # j
    BY <1>6, <2>1
  <2>3. ~(j < i)
    <3> SUFFICES ASSUME j < i PROVE FALSE
      OBVIOUS
    <3>1. Place(K, j) < Place(K, i)
      BY <1>4, <1>6, PlaceGrows
    <3> QED BY <1>6, <2>1, <3>1
  <2> QED BY <2>1, <2>2, <2>3
<1>8. i \in DOMAIN s /\ j \in DOMAIN s
  BY <1>3, <1>6
<1> QED BY <1>6, <1>7, <1>8 DEF w

\* Pruning makes no entry appear twice.
LEMMA WithoutDistinct ==
    ASSUME NEW S, NEW s \in Seq(S), NEW gone, Distinct(s)
    PROVE  Distinct(Without(s, gone))
<1> DEFINE w == Without(s, gone)
<1>1. \A m, n \in DOMAIN w : m < n => w[m] # w[n]
  <2> SUFFICES ASSUME NEW m \in DOMAIN w, NEW n \in DOMAIN w, m < n PROVE w[m] # w[n]
    OBVIOUS
  <2>1. PICK i \in DOMAIN s, j \in DOMAIN s : i < j /\ w[m] = s[i] /\ w[n] = s[j]
    BY WithoutOrder
  <2>2. i # j
    <3>1. i \in Nat
      OBVIOUS
    <3> QED BY <2>1, <3>1
  <2> QED BY <2>1, <2>2 DEF Distinct
<1>2. \A m, n \in DOMAIN w : m # n => m < n \/ n < m
  <2>1. DOMAIN w = 1..Len(w) /\ Len(w) \in Nat
    BY WithoutType
  <2> QED BY <2>1
<1> QED BY <1>1, <1>2 DEF Distinct

\* A new key at the end.
LEMMA AppendKey ==
    ASSUME NEW S, NEW s \in Seq(S), NEW k \in S
    PROVE  /\ \A x : Listed(x, Append(s, k)) <=> Listed(x, s) \/ x = k
           /\ Distinct(s) /\ ~Listed(k, s) => Distinct(Append(s, k))
<1> DEFINE a == Append(s, k)
<1>1. /\ DOMAIN s = 1..Len(s) /\ DOMAIN a = 1..(Len(s) + 1) /\ Len(s) \in Nat
      /\ \A i \in 1..Len(s) : a[i] = s[i]
      /\ a[Len(s) + 1] = k
  OBVIOUS
<1>2. \A i \in DOMAIN a : i \in DOMAIN s \/ i = Len(s) + 1
  BY <1>1
<1>3. \A i \in DOMAIN s : i \in DOMAIN a /\ i # Len(s) + 1
  BY <1>1
<1>4. Len(s) + 1 \in DOMAIN a
  BY <1>1
<1> HIDE DEF a
<1>5. \A x : Listed(x, a) <=> Listed(x, s) \/ x = k
  BY <1>1, <1>2, <1>3, <1>4 DEF Listed
<1>6. Distinct(s) /\ ~Listed(k, s) => Distinct(a)
  BY <1>1, <1>2, <1>3 DEF Listed, Distinct
<1> QED BY <1>5, <1>6 DEF a

\* The first entry goes.
LEMMA TailKey ==
    ASSUME NEW S, NEW s \in Seq(S), s # <<>>
    PROVE  /\ Head(s) \in S /\ Tail(s) \in Seq(S) /\ Len(Tail(s)) = Len(s) - 1
           /\ Distinct(s) => Distinct(Tail(s))
           /\ \A x : Listed(x, s) => x = Head(s) \/ Listed(x, Tail(s))
<1>1. /\ Len(s) \in Nat /\ Len(s) >= 1 /\ DOMAIN s = 1..Len(s)
      /\ Head(s) = s[1] /\ Tail(s) \in Seq(S)
      /\ Len(Tail(s)) = Len(s) - 1 /\ DOMAIN Tail(s) = 1..(Len(s) - 1)
      /\ \A i \in 1..(Len(s) - 1) : Tail(s)[i] = s[i + 1]
  OBVIOUS
<1>2. Head(s) \in S
  BY <1>1
<1>3. ASSUME Distinct(s) PROVE Distinct(Tail(s))
  <2> SUFFICES ASSUME NEW i \in DOMAIN Tail(s), NEW j \in DOMAIN Tail(s), i # j
               PROVE  Tail(s)[i] # Tail(s)[j]
    BY DEF Distinct
  <2>1. i + 1 \in DOMAIN s /\ j + 1 \in DOMAIN s /\ i + 1 # j + 1
    BY <1>1
  <2>2. Tail(s)[i] = s[i + 1] /\ Tail(s)[j] = s[j + 1]
    BY <1>1
  <2> QED BY <1>3, <2>1, <2>2 DEF Distinct
<1>4. ASSUME NEW x, Listed(x, s), x # Head(s) PROVE Listed(x, Tail(s))
  <2>1. PICK i \in DOMAIN s : s[i] = x
    BY <1>4 DEF Listed
  <2>2. i - 1 \in DOMAIN Tail(s) /\ (i - 1) + 1 = i
    BY <1>1, <1>4, <2>1
  <2>3. Tail(s)[i - 1] = x
    BY <1>1, <2>1, <2>2
  <2> QED BY <2>2, <2>3 DEF Listed
<1> QED BY <1>1, <1>2, <1>3, <1>4
=============================================================================
