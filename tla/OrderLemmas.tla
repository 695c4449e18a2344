---------------------------- MODULE OrderLemmas ----------------------------
(***************************************************************************)
(* Facts about smallest and largest numbers, and about sorting a finite    *)
(* set by a strict order, that the proofs about the components share.      *)
(***************************************************************************)
EXTENDS FiniteSetsExt, Ordering, FiniteSetTheorems, TLAPS

-----------------------------------------------------------------------------
(* Smallest and largest. *)

\* The smaller of two naturals.
LEMMA MinOfTwo ==
    ASSUME NEW m \in Nat, NEW n \in Nat
    PROVE  Min({m, n}) = IF n <= m THEN n ELSE m
<1>1. CASE n <= m
  <2>1. n \in {m, n} /\ \A y \in {m, n} : n =< y
    BY <1>1
  <2>2. \A x \in {m, n} : (\A y \in {m, n} : x =< y) => x = n
    BY <1>1
  <2> QED
    BY <1>1, <2>1, <2>2 DEF Min
<1>2. CASE ~(n <= m)
  <2>1. m \in {m, n} /\ \A y \in {m, n} : m =< y
    BY <1>2
  <2>2. \A x \in {m, n} : (\A y \in {m, n} : x =< y) => x = m
    BY <1>2
  <2> QED
    BY <1>2, <2>1, <2>2 DEF Min
<1> QED
  BY <1>1, <1>2

\* A set of naturals that is not empty has a least element.
LEMMA LeastNatural ==
    ASSUME NEW S \in SUBSET Nat, S # {}
    PROVE  \E n \in S : \A m \in S : n <= m
<1> DEFINE R == OpToRel(<, Nat)
<1>1. IsWellFoundedOn(R, Nat)
  BY NatLessThanWellFounded
<1>2. \A m, n \in Nat : m < n => << m, n >> \in R
  BY DEF OpToRel
<1> HIDE DEF R
<1>3. PICK n \in S : \A m \in S : << m, n >> \notin R
  BY <1>1, WFMin
<1>4. ASSUME NEW m \in S PROVE n <= m
  <2>1. m \in Nat /\ n \in Nat /\ ~(m < n)
    BY <1>2, <1>3
  <2> QED
    BY <2>1
<1> QED
  BY <1>4

\* A set of naturals that is bounded and not empty has a largest element.
LEMMA MaxOfBounded ==
    ASSUME NEW S \in SUBSET Nat, S # {}, NEW b \in Nat, \A x \in S : x <= b
    PROVE  Max(S) \in S /\ \A x \in S : x <= Max(S)
<1> DEFINE Bounds == {m \in Nat : \A x \in S : x <= m}
<1>1. PICK n \in Bounds : \A m \in Bounds : n <= m
  <2>1. b \in Bounds /\ Bounds \in SUBSET Nat
    OBVIOUS
  <2> QED
    BY <2>1, LeastNatural
<1>2. n \in S
  <2> SUFFICES ASSUME n \notin S PROVE FALSE
    OBVIOUS
  <2>1. \A x \in S : x <= n - 1
    BY <1>1
  <2>2. n - 1 \in Nat
    <3>1. PICK x \in S : x \in Nat
      OBVIOUS
    <3>2. x <= n - 1 /\ n \in Nat
      BY <1>1, <2>1, <3>1
    <3> QED
      BY <3>1, <3>2
  <2> QED
    BY <1>1, <2>1, <2>2
<1>3. \E x \in S : \A y \in S : x >= y
  BY <1>1, <1>2
<1> QED
  BY <1>3 DEF Max

\* The least element of a set of naturals.
LEMMA MinOfNaturals ==
    ASSUME NEW S \in SUBSET Nat, S # {}
    PROVE  Min(S) \in S /\ \A x \in S : Min(S) <= x
<1>1. \E x \in S : \A y \in S : x =< y
  BY LeastNatural
<1> QED
  BY <1>1 DEF Min


-----------------------------------------------------------------------------
(* Sorting. *)

\* R is a strict total order on S.
IsStrictOrder(R, S) ==
    /\ \A x \in S : << x, x >> \notin R
    /\ \A x, y, z \in S : << x, y >> \in R /\ << y, z >> \in R => << x, z >> \in R
    /\ \A x, y \in S : x = y \/ << x, y >> \in R \/ << y, x >> \in R

\* s lists the members of S in the order R.
IsSorting(s, S, R) ==
    /\ s \in [1 .. Cardinality(S) -> S]
    /\ \A i, j \in DOMAIN s : i < j => << s[i], s[j] >> \in R

\* t is a subsequence of s.
IsWithin(t, s) ==
    \E at \in [DOMAIN t -> DOMAIN s] :
        /\ \A i, j \in DOMAIN at : i < j => at[i] < at[j]
        /\ \A i \in DOMAIN at : t[i] = s[at[i]]

\* A finite set with a strict total order can be sorted: every member has its own
\* rank, one more than the number of those before it.
LEMMA SortingExists ==
    ASSUME NEW S, IsFiniteSet(S), NEW R, IsStrictOrder(R, S)
    PROVE  \E s : IsSorting(s, S, R)
<1> DEFINE n == Cardinality(S)
           Before(x) == {y \in S : << y, x >> \in R}
           rank == [x \in S |-> Cardinality(Before(x)) + 1]
           s == [k \in 1 .. n |-> CHOOSE x \in S : rank[x] = k]
<1>1. n \in Nat
  BY FS_CardinalityType
<1>2. ASSUME NEW x \in S
      PROVE  /\ IsFiniteSet(Before(x)) /\ Cardinality(Before(x)) \in Nat
             /\ Cardinality(Before(x)) < n
  <2>1. Before(x) \in SUBSET S /\ x \notin Before(x)
    BY DEF IsStrictOrder
  <2>2. IsFiniteSet(Before(x)) /\ Cardinality(Before(x)) <= n /\ Cardinality(Before(x)) # n
    BY <2>1, FS_Subset
  <2>3. Cardinality(Before(x)) \in Nat
    BY <2>2, FS_CardinalityType
  <2> QED
    BY <1>1, <2>2, <2>3
<1>3. ASSUME NEW x \in S, NEW y \in S, << x, y >> \in R
      PROVE  Cardinality(Before(x)) < Cardinality(Before(y))
  <2>1. Before(x) \in SUBSET Before(y) /\ Before(x) # Before(y)
    <3>1. Before(x) \in SUBSET Before(y)
      BY <1>3 DEF IsStrictOrder
    <3>2. x \in Before(y) /\ x \notin Before(x)
      BY <1>3 DEF IsStrictOrder
    <3> QED
      BY <3>1, <3>2
  <2>2. IsFiniteSet(Before(y))
    BY <1>2
  <2>3. Cardinality(Before(x)) <= Cardinality(Before(y))
        /\ Cardinality(Before(x)) # Cardinality(Before(y))
    BY <2>1, <2>2, FS_Subset
  <2>4. Cardinality(Before(x)) \in Nat /\ Cardinality(Before(y)) \in Nat
    BY <1>2
  <2> QED
    BY <2>3, <2>4
<1> HIDE DEF Before, n
<1>4. rank \in [S -> 1 .. n] /\ \A x \in S : rank[x] = Cardinality(Before(x)) + 1
  BY <1>1, <1>2
<1>5. \A x, y \in S : << x, y >> \in R => rank[x] < rank[y]
  BY <1>2, <1>3, <1>4
<1> HIDE DEF rank
<1>6. ASSUME NEW x \in S, NEW y \in S, rank[x] = rank[y]
      PROVE  x = y
  <2>1. rank[x] \in 1 .. n /\ rank[y] \in 1 .. n
    BY <1>4
  <2>2. << x, y >> \notin R /\ << y, x >> \notin R
    BY <1>1, <1>5, <1>6, <2>1
  <2> QED
    BY <2>2 DEF IsStrictOrder
<1>7. \A k \in 1 .. n : \E x \in S : rank[x] = k
  <2>1. rank \in Injection(S, 1 .. n)
    BY <1>4, <1>6 DEF Injection, IsInjective
  <2>2. IsFiniteSet(1 .. n) /\ Cardinality(1 .. n) = n
    BY <1>1, FS_Interval
  <2>3. rank \in Surjection(S, 1 .. n)
    BY <2>1, <2>2, FS_Injection DEF n
  <2> QED
    BY <2>3 DEF Surjection
<1>8. \A k \in 1 .. n : s[k] \in S /\ rank[s[k]] = k
  BY <1>7
<1>9. DOMAIN s = 1 .. n /\ s \in [1 .. n -> S]
  BY <1>8
<1> HIDE DEF s
<1>10. ASSUME NEW i \in 1 .. n, NEW j \in 1 .. n, i < j
       PROVE  << s[i], s[j] >> \in R
  <2>1. rank[s[i]] = i /\ rank[s[j]] = j /\ s[i] \in S /\ s[j] \in S
    BY <1>8
  <2>2. s[i] # s[j] /\ << s[j], s[i] >> \notin R
    BY <1>5, <1>10, <2>1
  <2> QED
    BY <2>1, <2>2 DEF IsStrictOrder
<1> QED
  BY <1>9, <1>10 DEF IsSorting, n

\* A sorting of S lists every member of S.
LEMMA SortingIsOnto ==
    ASSUME NEW S, IsFiniteSet(S), NEW R, IsStrictOrder(R, S), NEW s, IsSorting(s, S, R)
    PROVE  \A x \in S : \E i \in DOMAIN s : s[i] = x
<1>1. Cardinality(S) \in Nat
  BY FS_CardinalityType
<1>2. s \in [1 .. Cardinality(S) -> S]
  BY DEF IsSorting
<1>3. ASSUME NEW i \in DOMAIN s, NEW j \in DOMAIN s, s[i] = s[j]
      PROVE  i = j
  <2>1. i \in Nat /\ j \in Nat /\ s[i] \in S
    BY <1>1, <1>2
  <2>2. << s[i], s[j] >> \notin R /\ << s[j], s[i] >> \notin R
    BY <1>3, <2>1 DEF IsStrictOrder
  <2>3. ~(i < j) /\ ~(j < i)
    BY <2>2 DEF IsSorting
  <2> QED
    BY <2>1, <2>3
<1>4. s \in Injection(1 .. Cardinality(S), S)
  BY <1>2, <1>3 DEF Injection, IsInjective
<1>5. IsFiniteSet(1 .. Cardinality(S)) /\ Cardinality(1 .. Cardinality(S)) = Cardinality(S)
  BY <1>1, FS_Interval
<1>6. s \in Surjection(1 .. Cardinality(S), S)
  BY <1>4, <1>5, FS_Injection
<1> QED
  BY <1>2, <1>6 DEF Surjection

\* The sorting of a subset is a subsequence of the sorting of the set.
LEMMA SortingOfSubset ==
    ASSUME NEW S, IsFiniteSet(S), NEW R, IsStrictOrder(R, S), NEW T \in SUBSET S,
           NEW s, IsSorting(s, S, R), NEW t, IsSorting(t, T, R)
    PROVE  IsWithin(t, s)
<1> DEFINE at == [i \in DOMAIN t |-> CHOOSE k \in DOMAIN s : s[k] = t[i]]
<1>1. /\ DOMAIN s = 1 .. Cardinality(S) /\ DOMAIN t = 1 .. Cardinality(T)
      /\ \A i \in DOMAIN t : t[i] \in T
      /\ \A k \in DOMAIN s : s[k] \in S
  BY DEF IsSorting
<1>2. Cardinality(S) \in Nat /\ Cardinality(T) \in Nat
  BY FS_CardinalityType, FS_Subset
<1>3. \A i \in DOMAIN t : \E k \in DOMAIN s : s[k] = t[i]
  <2>1. \A x \in S : \E k \in DOMAIN s : s[k] = x
    BY SortingIsOnto
  <2>2. \A i \in DOMAIN t : t[i] \in S
    BY <1>1
  <2> QED
    BY <2>1, <2>2
<1>4. \A i \in DOMAIN t : at[i] \in DOMAIN s /\ s[at[i]] = t[i]
  BY <1>3
<1>5. at \in [DOMAIN t -> DOMAIN s]
  BY <1>4
<1> HIDE DEF at
<1>6. ASSUME NEW i \in DOMAIN t, NEW j \in DOMAIN t, i < j
      PROVE  at[i] < at[j]
  <2>1. << s[at[i]], s[at[j]] >> \in R
    BY <1>4, <1>6 DEF IsSorting
  <2>2. at[i] # at[j]
    BY <1>1, <1>4, <2>1 DEF IsStrictOrder
  <2>3. ~(at[j] < at[i])
    <3> SUFFICES ASSUME at[j] < at[i] PROVE FALSE
      OBVIOUS
    <3>1. << s[at[j]], s[at[i]] >> \in R
      BY <1>4 DEF IsSorting
    <3> QED
      BY <1>1, <1>4, <2>1, <3>1 DEF IsStrictOrder
  <2>4. at[i] \in Nat /\ at[j] \in Nat
    BY <1>1, <1>2, <1>4
  <2> QED
    BY <2>2, <2>3, <2>4
<1> QED
  BY <1>4, <1>5, <1>6 DEF IsWithin

-----------------------------------------------------------------------------
(* Sorting by InOrder. *)

\* A part of a strict order is one of the part of the set.
LEMMA StrictOrderOfSubset ==
    ASSUME NEW S, NEW R, IsStrictOrder(R, S), NEW T \in SUBSET S
    PROVE  IsStrictOrder(R, T)
  BY DEF IsStrictOrder

\* InOrder is a sorting ...
LEMMA InOrderSorts ==
    ASSUME NEW S, IsFiniteSet(S), NEW R, IsStrictOrder(R, S)
    PROVE  IsSorting(InOrder(S, R), S, R)
<1>1. PICK s : IsSorting(s, S, R)
  BY SortingExists
<1> QED
  BY <1>1 DEF IsSorting, InOrder

\* ... and there is only one: with a second one, neither is ahead of the other.
LEMMA SortingIsUnique ==
    ASSUME NEW S, IsFiniteSet(S), NEW R, IsStrictOrder(R, S),
           NEW s, IsSorting(s, S, R), NEW t, IsSorting(t, S, R)
    PROVE  s = t
<1> DEFINE n == Cardinality(S)
<1>1. n \in Nat
  BY FS_CardinalityType
<1>2. /\ s \in [1 .. n -> S] /\ \A i, j \in 1 .. n : i < j => << s[i], s[j] >> \in R
      /\ t \in [1 .. n -> S] /\ \A i, j \in 1 .. n : i < j => << t[i], t[j] >> \in R
  BY DEF IsSorting
<1>3. /\ \A x \in S : \E i \in 1 .. n : s[i] = x
      /\ \A x \in S : \E i \in 1 .. n : t[i] = x
  <2>1. \A x \in S : \E i \in DOMAIN s : s[i] = x
    BY SortingIsOnto
  <2>2. \A x \in S : \E i \in DOMAIN t : t[i] = x
    BY SortingIsOnto
  <2> QED
    BY <1>2, <2>1, <2>2
<1> HIDE DEF n
<1>4. SUFFICES ASSUME s # t PROVE FALSE
  OBVIOUS
<1> DEFINE Differ == {i \in 1 .. n : s[i] # t[i]}
<1>5. PICK d \in Differ : \A i \in Differ : d <= i
  <2>1. (\A i \in 1 .. n : s[i] = t[i]) => s = t
    <3> HIDE DEF Differ
    <3>1. s = [i \in 1 .. n |-> s[i]] /\ t = [i \in 1 .. n |-> t[i]]
      BY <1>2
    <3> QED
      BY <3>1, Zenon
  <2>2. Differ # {}
    BY <1>4, <2>1
  <2>3. Differ \in SUBSET Nat
    OBVIOUS
  <2> QED
    BY <2>2, <2>3, LeastNatural
<1>6. d \in 1 .. n /\ s[d] # t[d] /\ \A i \in 1 .. n : i < d => s[i] = t[i]
  BY <1>1, <1>5
<1> HIDE DEF Differ
<1>7. PICK i \in 1 .. n : s[i] = t[d]
  BY <1>2, <1>3, <1>6
<1>8. PICK j \in 1 .. n : t[j] = s[d]
  BY <1>2, <1>3, <1>6
<1>9. /\ s[d] \in S /\ t[d] \in S
      /\ ~(<< s[d], t[d] >> \in R /\ << t[d], s[d] >> \in R)
  <2>1. s[d] \in S /\ t[d] \in S
    BY <1>2, <1>6
  <2> QED
    BY <2>1 DEF IsStrictOrder
<1>10. i > d
  <2>1. i # d
    BY <1>6, <1>7
  <2>2. ~(i < d)
    <3> SUFFICES ASSUME i < d PROVE FALSE
      OBVIOUS
    <3>1. t[i] = t[d] /\ << t[i], t[d] >> \in R
      BY <1>2, <1>6, <1>7
    <3>2. << t[d], t[d] >> \notin R
      BY <1>9 DEF IsStrictOrder
    <3> QED
      BY <3>1, <3>2
  <2> QED
    BY <1>1, <1>6, <2>1, <2>2
<1>11. j > d
  <2>1. j # d
    BY <1>6, <1>8
  <2>2. ~(j < d)
    <3> SUFFICES ASSUME j < d PROVE FALSE
      OBVIOUS
    <3>1. s[j] = s[d] /\ << s[j], s[d] >> \in R
      BY <1>2, <1>6, <1>8
    <3>2. << s[d], s[d] >> \notin R
      BY <1>9 DEF IsStrictOrder
    <3> QED
      BY <3>1, <3>2
  <2> QED
    BY <1>1, <1>6, <2>1, <2>2
<1>12. << s[d], t[d] >> \in R /\ << t[d], s[d] >> \in R
  BY <1>2, <1>6, <1>7, <1>8, <1>10, <1>11
<1> QED
  BY <1>9, <1>12

\* A sequence that is in order and has every member is what InOrder chooses.
LEMMA InOrderIs ==
    ASSUME NEW S, NEW R, IsStrictOrder(R, S), NEW m \in Nat, NEW s \in [1 .. m -> S],
           \A x \in S : \E i \in 1 .. m : s[i] = x,
           \A i, j \in 1 .. m : i < j => << s[i], s[j] >> \in R
    PROVE  IsFiniteSet(S) /\ Cardinality(S) = m /\ InOrder(S, R) = s
<1>1. ASSUME NEW i \in 1 .. m, NEW j \in 1 .. m, s[i] = s[j]
      PROVE  i = j
  <2>1. s[i] \in S /\ << s[i], s[i] >> \notin R
    BY DEF IsStrictOrder
  <2>2. ~(i < j) /\ ~(j < i)
    BY <1>1, <2>1
  <2> QED
    BY <2>2
<1>2. s \in Bijection(1 .. m, S)
  BY <1>1 DEF Bijection, Injection, IsInjective, Surjection
<1>3. ExistsBijection(1 .. m, S)
  BY <1>2 DEF ExistsBijection
<1>4. IsFiniteSet(S) /\ Cardinality(S) = m
  BY <1>3, FS_NatBijection, FS_CountingElements
<1>5. IsSorting(s, S, R)
  BY <1>4 DEF IsSorting
<1>6. IsSorting(InOrder(S, R), S, R)
  BY <1>4, InOrderSorts
<1> QED
  BY <1>4, <1>5, <1>6, SortingIsUnique

LEMMA IncreasingIsStrictOrder ==
    ASSUME NEW S \in SUBSET Nat
    PROVE  IsStrictOrder(Increasing(S), S)
<1>1. \A m, n \in S : << m, n >> \in Increasing(S) <=> m < n
  BY DEF Increasing
<1> QED
  BY <1>1 DEF IsStrictOrder

LEMMA LexicographicIsStrictOrder ==
    ASSUME NEW S \in SUBSET (Nat \X Nat)
    PROVE  IsStrictOrder(Lexicographic(S), S)
<1>1. \A x, y \in S : << x, y >> \in Lexicographic(S)
                        <=> (x[1] < y[1] \/ (x[1] = y[1] /\ x[2] < y[2]))
  BY DEF Lexicographic
<1>2. \A x \in S : x[1] \in Nat /\ x[2] \in Nat /\ x = << x[1], x[2] >>
  OBVIOUS
<1>3. \A x \in S : << x, x >> \notin Lexicographic(S)
  BY <1>1, <1>2
<1>4. ASSUME NEW x \in S, NEW y \in S, NEW z \in S,
             << x, y >> \in Lexicographic(S), << y, z >> \in Lexicographic(S)
      PROVE  << x, z >> \in Lexicographic(S)
  BY <1>1, <1>2, <1>4
<1>5. ASSUME NEW x \in S, NEW y \in S
      PROVE  x = y \/ << x, y >> \in Lexicographic(S) \/ << y, x >> \in Lexicographic(S)
  BY <1>1, <1>2
<1> QED
  BY <1>3, <1>4, <1>5 DEF IsStrictOrder

\* A finite set of naturals, smallest first.
LEMMA AscendingSorts ==
    ASSUME NEW S \in SUBSET Nat, IsFiniteSet(S)
    PROVE  /\ Cardinality(S) \in Nat
           /\ Ascending(S) \in [1 .. Cardinality(S) -> S]
           /\ \A i, j \in 1 .. Cardinality(S) : i < j => Ascending(S)[i] < Ascending(S)[j]
           /\ \A x \in S : \E i \in 1 .. Cardinality(S) : Ascending(S)[i] = x
<1> DEFINE R == Increasing(S)
           s == Ascending(S)
<1>1. IsStrictOrder(R, S)
  BY IncreasingIsStrictOrder
<1>2. IsSorting(s, S, R)
  BY <1>1, InOrderSorts DEF Ascending
<1>3. s \in [1 .. Cardinality(S) -> S] /\ DOMAIN s = 1 .. Cardinality(S)
      /\ \A i, j \in DOMAIN s : i < j => << s[i], s[j] >> \in R
  BY <1>2 DEF IsSorting
<1>4. \A i, j \in DOMAIN s : i < j => s[i] < s[j]
  BY <1>3 DEF Increasing
<1>5. \A x \in S : \E i \in DOMAIN s : s[i] = x
  BY <1>1, <1>2, SortingIsOnto
<1> QED
  BY <1>3, <1>4, <1>5, FS_CardinalityType

\* The index set of a sequence is finite.
LEMMA IndicesAreFinite ==
    ASSUME NEW n \in Nat
    PROVE  IsFiniteSet(1 .. n)
  BY FS_Interval
=============================================================================
