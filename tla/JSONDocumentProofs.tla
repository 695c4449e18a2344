------------------------- MODULE JSONDocumentProofs -------------------------
(***************************************************************************)
(* Lemmas about positions and about ReplaceJSON on which the proofs about  *)
(* redaction rest: documents of any size and depth, any set of rules.      *)
(***************************************************************************)
EXTENDS JSONDocument, OrderLemmas, SequenceTheorems

Positions == Seq(Seq(STRING))

-----------------------------------------------------------------------------
(* Sequences. *)

\* A set that has the empty sequence and every extension of its members has all
\* sequences.
LEMMA SequenceInduction ==
    ASSUME NEW X, NEW T, << >> \in T,
           \A s \in Seq(X), e \in X : s \in T => Append(s, e) \in T
    PROVE  \A s \in Seq(X) : s \in T
<1> SUFFICES ASSUME NEW u \in Seq(X), u \notin T PROVE FALSE
  OBVIOUS
<1> DEFINE Lengths == {n \in Nat : \E s \in Seq(X) : Len(s) = n /\ s \notin T}
<1>1. Len(u) \in Lengths
  BY LenProperties
<1>2. PICK n \in Lengths : \A m \in Lengths : n <= m
  BY <1>1, LeastNatural
<1>3. PICK s \in Seq(X) : Len(s) = n /\ s \notin T
  BY <1>2
<1>4. PICK t \in Seq(X), e \in X : s = Append(t, e)
  BY <1>3, SequenceEmptyOrAppend
<1>5. Len(t) \in Nat /\ Len(s) = Len(t) + 1
  BY <1>4, AppendProperties, LenProperties
<1>6. t \notin T
  BY <1>3, <1>4
<1>7. Len(t) \in Lengths
  BY <1>5, <1>6
<1> QED
  BY <1>2, <1>3, <1>5, <1>7

\* What a concatenation of sequences is, one at a time.
Flattens(s, f) ==
    f = [i \in 1 .. Len(s) |-> IF i = 1 THEN s[i] ELSE f[i - 1] \o s[i]]

LEMMA FlattenExists ==
    ASSUME NEW X
    PROVE  \A s \in Seq(X) : \E f : Flattens(s, f)
<1> DEFINE T == {s \in Seq(X) : \E f : Flattens(s, f)}
<1>1. << >> \in T
  <2> DEFINE f == << >>
  <2>1. Flattens(<< >>, [i \in 1 .. 0 |-> 0])
    BY DEF Flattens
  <2> QED
    BY <2>1, EmptySeq
<1>2. ASSUME NEW s \in Seq(X), NEW e \in X, s \in T PROVE Append(s, e) \in T
  <2>1. PICK f : Flattens(s, f)
    BY <1>2
  <2> DEFINE n == Len(s)
             a == Append(s, e)
             g == [i \in 1 .. n + 1 |-> IF i = n + 1 THEN IF n = 0 THEN e ELSE f[n] \o e ELSE f[i]]
  <2>2. n \in Nat /\ a \in Seq(X) /\ Len(a) = n + 1 /\ a[n + 1] = e
        /\ \A i \in 1 .. n : a[i] = s[i]
    BY AppendProperties, LenProperties
  <2>3. \A i \in 1 .. n : f[i] = IF i = 1 THEN s[i] ELSE f[i - 1] \o s[i]
    BY <2>1 DEF Flattens
  <2> HIDE DEF a, n
  <2>4. ASSUME NEW i \in 1 .. n + 1
        PROVE  g[i] = IF i = 1 THEN a[i] ELSE g[i - 1] \o a[i]
    <3>1. CASE i = n + 1
      <4>1. i # 1 => i - 1 \in 1 .. n + 1 /\ i - 1 # n + 1 /\ n # 0 /\ i - 1 = n
        BY <2>2, <3>1
      <4> QED
        BY <2>2, <3>1, <4>1
    <3>2. CASE i # n + 1
      <4>1. i \in 1 .. n
        BY <2>2, <3>2
      <4>2. i # 1 => i - 1 \in 1 .. n + 1 /\ i - 1 # n + 1
        BY <2>2, <4>1
      <4> QED
        BY <2>2, <2>3, <3>2, <4>1, <4>2
    <3> QED
      BY <3>1, <3>2
  <2>5. g = [i \in 1 .. n + 1 |-> IF i = 1 THEN a[i] ELSE g[i - 1] \o a[i]]
    <3> DEFINE h == [i \in 1 .. n + 1 |-> IF i = 1 THEN a[i] ELSE g[i - 1] \o a[i]]
    <3>1. g = [i \in 1 .. n + 1 |-> g[i]]
      OBVIOUS
    <3> HIDE DEF g
    <3> QED
      BY <2>4, <3>1
  <2>6. Flattens(a, g)
    <3> HIDE DEF g
    <3> QED
      BY <2>2, <2>5 DEF Flattens
  <2> QED
    BY <2>2, <2>6 DEF a
<1> HIDE DEF T
<1>3. \A s \in Seq(X) : s \in T
  BY <1>1, <1>2, SequenceInduction
<1> QED
  BY <1>3 DEF T

LEMMA FlattenIs ==
    ASSUME NEW X, NEW s \in Seq(X)
    PROVE  \E f : Flattens(s, f) /\ (Len(s) # 0 => FlattenSeq(s) = f[Len(s)])
<1> DEFINE f == CHOOSE f : Flattens(s, f)
<1>1. Flattens(s, f)
  BY FlattenExists
<1>2. ASSUME Len(s) # 0 PROVE FlattenSeq(s) = f[Len(s)]
  BY <1>2 DEF FlattenSeq, Flattens
<1> QED
  BY <1>1, <1>2

\* FlattenSeq puts the sequences one behind the other.
LEMMA FlattenEmpty == FlattenSeq(<< >>) = << >>
<1>1. Len(<< >>) = 0
  BY EmptySeq
<1> QED
  BY <1>1 DEF FlattenSeq

LEMMA FlattenAppend ==
    ASSUME NEW Y, NEW s \in Seq(Seq(Y)), NEW x \in Seq(Y)
    PROVE  FlattenSeq(Append(s, x)) = FlattenSeq(s) \o x
<1> DEFINE n == Len(s)
           a == Append(s, x)
<1>1. n \in Nat /\ a \in Seq(Seq(Y)) /\ Len(a) = n + 1 /\ a[n + 1] = x
      /\ \A i \in 1 .. n : a[i] = s[i]
  BY AppendProperties, LenProperties
<1>2. PICK f : Flattens(s, f) /\ (n # 0 => FlattenSeq(s) = f[n])
  BY FlattenIs
<1>3. PICK g : Flattens(a, g) /\ (Len(a) # 0 => FlattenSeq(a) = g[Len(a)])
  BY <1>1, FlattenIs
<1>4. \A i \in 1 .. n : f[i] = IF i = 1 THEN s[i] ELSE f[i - 1] \o s[i]
  BY <1>2 DEF Flattens
<1>5. \A i \in 1 .. n + 1 : g[i] = IF i = 1 THEN a[i] ELSE g[i - 1] \o a[i]
  BY <1>1, <1>3 DEF Flattens
<1>6. FlattenSeq(a) = g[n + 1]
  BY <1>1, <1>3
<1> HIDE DEF a, n
<1>7. CASE n = 0
  <2>1. s = << >>
    BY <1>7, EmptySeq DEF n
  <2>2. FlattenSeq(s) \o x = x
    BY <2>1, FlattenEmpty, ConcatEmptySeq
  <2>3. g[1] = x
    BY <1>1, <1>5, <1>7
  <2> QED
    BY <1>6, <1>7, <2>2, <2>3 DEF a
<1>8. CASE n # 0
  <2> DEFINE Differ == {i \in 1 .. n : f[i] # g[i]}
  <2>1. Differ = {}
    <3> SUFFICES ASSUME Differ # {} PROVE FALSE
      OBVIOUS
    <3>1. Differ \in SUBSET Nat
      BY <1>1
    <3>2. PICK i \in Differ : \A j \in Differ : i <= j
      BY <3>1, LeastNatural
    <3>3. i \in 1 .. n /\ f[i] # g[i] /\ a[i] = s[i] /\ i \in 1 .. n + 1
      BY <1>1, <3>2
    <3>4. i # 1
      BY <1>4, <1>5, <3>3
    <3>5. i - 1 \in 1 .. n /\ i - 1 < i
      BY <1>1, <3>3, <3>4
    <3>6. f[i - 1] = g[i - 1]
      BY <3>2, <3>5
    <3> QED
      BY <1>4, <1>5, <3>3, <3>4, <3>6
  <2>2. n \in 1 .. n /\ n + 1 \in 1 .. n + 1 /\ n + 1 # 1 /\ (n + 1) - 1 = n
    BY <1>1, <1>8
  <2>3. f[n] = g[n]
    BY <2>1, <2>2
  <2>4. g[n + 1] = g[n] \o x
    BY <1>1, <1>5, <2>2
  <2> QED
    BY <1>2, <1>6, <1>8, <2>3, <2>4 DEF a
<1> QED
  BY <1>7, <1>8

LEMMA FlattenType ==
    ASSUME NEW Y
    PROVE  \A s \in Seq(Seq(Y)) : FlattenSeq(s) \in Seq(Y)
<1> DEFINE T == {s \in Seq(Seq(Y)) : FlattenSeq(s) \in Seq(Y)}
<1>1. << >> \in T
  BY EmptySeq, FlattenEmpty
<1>2. ASSUME NEW s \in Seq(Seq(Y)), NEW e \in Seq(Y), s \in T PROVE Append(s, e) \in T
  BY <1>2, FlattenAppend, ConcatProperties, AppendProperties
<1> HIDE DEF T
<1>3. \A s \in Seq(Seq(Y)) : s \in T
  BY <1>1, <1>2, SequenceInduction
<1> QED
  BY <1>3 DEF T

\* What is made of each element of a longer sequence.
LEMMA MapAppend ==
    ASSUME NEW X, NEW s \in Seq(X), NEW e \in X, NEW Y, NEW f, NEW g, NEW z \in Y,
           DOMAIN f = DOMAIN s, \A i \in DOMAIN s : f[i] \in Y,
           f = [i \in DOMAIN f |-> f[i]],
           g = [i \in DOMAIN g |-> g[i]],
           DOMAIN g = DOMAIN Append(s, e), \A i \in DOMAIN s : g[i] = f[i],
           g[Len(s) + 1] = z
    PROVE  f \in Seq(Y) /\ g = Append(f, z)
<1> DEFINE n == Len(s)
<1>1. n \in Nat /\ DOMAIN s = 1 .. n /\ DOMAIN Append(s, e) = 1 .. n + 1
  BY AppendProperties, LenProperties
<1>2. f \in Seq(Y) /\ Len(f) = n
  <2>1. f \in [1 .. n -> Y]
    BY <1>1
  <2>2. f \in Seq(Y)
    BY <1>1, <2>1, SeqDef
  <2> HIDE DEF n
  <2>3. Len(f) = n
    BY <1>1, <2>1, <2>2, LenProperties
  <2> QED
    BY <2>2, <2>3
<1>3. \A i \in 1 .. n + 1 : g[i] = Append(f, z)[i]
  <2>1. \A i \in 1 .. n + 1 : i \in 1 .. n \/ i = n + 1
    BY <1>1
  <2> HIDE DEF n
  <2> QED
    BY <1>1, <1>2, <2>1, AppendProperties DEF n
<1>4. Append(f, z) \in Seq(Y) /\ Len(Append(f, z)) = n + 1
  BY <1>2, AppendProperties
<1>5. g \in Seq(Y) /\ Len(g) = n + 1
  <2>1. \A i \in 1 .. n + 1 : g[i] \in Y
    BY <1>1, <1>3, <1>4, ElementOfSeq
  <2>2. g \in [1 .. n + 1 -> Y]
    BY <1>1, <2>1
  <2>3. g \in Seq(Y)
    <3>1. n + 1 \in Nat
      BY <1>1
    <3> QED
      BY <2>2, <3>1, SeqDef
  <2> HIDE DEF n
  <2>4. Len(g) = n + 1
    BY <1>1, <2>2, <2>3, LenProperties
  <2> QED
    BY <2>3, <2>4
<1> QED
  BY <1>2, <1>3, <1>4, <1>5, SeqEqual

\* Two elements, one behind the other.
LEMMA ConcatPair == ASSUME NEW X, NEW a \in X, NEW b \in X PROVE << a >> \o << b >> = << a, b >>
<1> DEFINE x == << a >>
           y == << b >>
           z == << a, b >>
<1>1. x \in Seq(X) /\ y \in Seq(X) /\ Len(x) = 1 /\ Len(y) = 1 /\ x[1] = a /\ y[1] = b
  OBVIOUS
<1>2. z \in Seq(X) /\ Len(z) = 2 /\ z[1] = a /\ z[2] = b
  OBVIOUS
<1> HIDE DEF x, y, z
<1>3. x \in Seq(X) /\ y \in Seq(X)
  BY <1>1
<1>4. /\ x \o y \in Seq(X) /\ Len(x \o y) = Len(x) + Len(y)
      /\ \A i \in 1 .. Len(x) + Len(y) : (x \o y)[i] = IF i <= Len(x) THEN x[i] ELSE y[i - Len(x)]
  BY <1>3, ConcatProperties
<1>5. Len(x \o y) = 2 /\ (x \o y)[1] = a /\ (x \o y)[2] = b
  BY <1>1, <1>4
<1>6. \A i \in 1 .. 2 : i = 1 \/ i = 2
  OBVIOUS
<1>7. \A i \in 1 .. Len(z) : z[i] = (x \o y)[i]
  BY <1>2, <1>5, <1>6
<1>8. x \o y = z
  BY <1>2, <1>4, <1>5, <1>7, SeqEqual
<1> QED
  BY <1>8 DEF x, y, z

-----------------------------------------------------------------------------
(* Prefixes. *)

\* A sequence is a prefix if it is not longer and agrees as far as it goes.
LEMMA PrefixMeans ==
    ASSUME NEW X, NEW p \in Seq(X), NEW Y, NEW q \in Seq(Y)
    PROVE  IsPrefix(p, q) <=> Len(p) <= Len(q) /\ \A i \in 1 .. Len(p) : p[i] = q[i]
<1>1. Len(p) \in Nat /\ Len(q) \in Nat
  BY LenProperties
<1>2. SubSeq(p, 1, Len(p)) = p
  BY SubSeqFull
<1>3. ASSUME Len(p) <= Len(q)
      PROVE  SubSeq(q, 1, Len(p)) = p <=> \A i \in 1 .. Len(p) : p[i] = q[i]
  <2>1. \A i \in 1 .. Len(p) : q[i] \in Y
    BY <1>1, <1>3, ElementOfSeq
  <2>2. /\ SubSeq(q, 1, Len(p)) \in Seq(Y)
        /\ Len(SubSeq(q, 1, Len(p))) = Len(p)
        /\ \A i \in 1 .. Len(p) : SubSeq(q, 1, Len(p))[i] = q[i]
    BY <1>1, <2>1, SubSeqProperties
  <2> DEFINE s == SubSeq(q, 1, Len(p))
  <2> HIDE DEF s
  <2>3. s \in Seq(X \cup Y) /\ p \in Seq(X \cup Y)
    BY <2>2, SeqMonotonic DEF s
  <2>4. Len(s) = Len(p) /\ \A i \in 1 .. Len(p) : s[i] = q[i]
    BY <2>2 DEF s
  <2>5. ASSUME \A i \in 1 .. Len(p) : p[i] = q[i] PROVE s = p
    <3>1. \A i \in 1 .. Len(s) : s[i] = p[i]
      BY <2>4, <2>5
    <3> QED
      BY <2>3, <2>4, <3>1, SeqEqual
  <2>6. ASSUME s = p PROVE \A i \in 1 .. Len(p) : p[i] = q[i]
    BY <2>4, <2>6
  <2> QED
    BY <2>5, <2>6 DEF s
<1> QED
  BY <1>2, <1>3 DEF IsPrefix

\* A prefix of a prefix is one ...
LEMMA PrefixTransitive ==
    ASSUME NEW X, NEW p \in Seq(X), NEW Y, NEW q \in Seq(Y), NEW Z, NEW r \in Seq(Z),
           IsPrefix(p, q), IsPrefix(q, r)
    PROVE  IsPrefix(p, r)
<1>1. Len(p) \in Nat /\ Len(q) \in Nat /\ Len(r) \in Nat
  BY LenProperties
<1>2. Len(p) <= Len(q) /\ \A i \in 1 .. Len(p) : p[i] = q[i]
  BY PrefixMeans
<1>3. Len(q) <= Len(r) /\ \A i \in 1 .. Len(q) : q[i] = r[i]
  BY PrefixMeans
<1>4. Len(p) <= Len(r) /\ \A i \in 1 .. Len(p) : p[i] = r[i]
  BY <1>1, <1>2, <1>3
<1> QED
  BY <1>4, PrefixMeans

\* ... and of two prefixes of the same sequence, one is a prefix of the other.
LEMMA PrefixesNest ==
    ASSUME NEW X, NEW p \in Seq(X), NEW Y, NEW q \in Seq(Y), NEW Z, NEW r \in Seq(Z),
           IsPrefix(p, r), IsPrefix(q, r), Len(p) <= Len(q)
    PROVE  IsPrefix(p, q)
<1>1. Len(p) \in Nat /\ Len(q) \in Nat
  BY LenProperties
<1>2. (\A i \in 1 .. Len(p) : p[i] = r[i]) /\ (\A i \in 1 .. Len(q) : q[i] = r[i])
  BY PrefixMeans
<1>3. \A i \in 1 .. Len(p) : p[i] = q[i]
  BY <1>1, <1>2
<1> QED
  BY <1>3, PrefixMeans

\* A prefix of the same length is the sequence itself.
LEMMA PrefixOfSameLength ==
    ASSUME NEW X, NEW p \in Seq(X), NEW Y, NEW q \in Seq(Y), IsPrefix(p, q), Len(q) <= Len(p)
    PROVE  p = q
<1>1. Len(p) \in Nat /\ Len(q) \in Nat
  BY LenProperties
<1>2. Len(p) = Len(q) /\ \A i \in 1 .. Len(p) : p[i] = q[i]
  BY <1>1, PrefixMeans
<1>3. p \in Seq(X \cup Y) /\ q \in Seq(X \cup Y)
  BY SeqMonotonic
<1> QED
  BY <1>2, <1>3, SeqEqual

\* Every sequence is a prefix of itself.
LEMMA PrefixReflexive ==
    ASSUME NEW X, NEW p \in Seq(X)
    PROVE  IsPrefix(p, p)
  BY PrefixMeans, LenProperties

\* A strict prefix is shorter.
LEMMA StrictPrefixShorter ==
    ASSUME NEW X, NEW p \in Seq(X), NEW Y, NEW q \in Seq(Y), IsStrictPrefix(p, q)
    PROVE  Len(p) < Len(q)
<1>1. Len(p) \in Nat /\ Len(q) \in Nat
  BY LenProperties
<1>2. IsPrefix(p, q) /\ p # q
  BY DEF IsStrictPrefix
<1>3. Len(p) <= Len(q)
  BY <1>2, PrefixMeans
<1>4. ~(Len(q) <= Len(p))
  BY <1>2, PrefixOfSameLength
<1> QED
  BY <1>1, <1>3, <1>4

\* Nothing comes before itself, and strictly before goes on through prefixes.
LEMMA StrictPrefixTransitive ==
    ASSUME NEW X, NEW p \in Seq(X), NEW Y, NEW q \in Seq(Y), NEW Z, NEW r \in Seq(Z),
           \/ IsStrictPrefix(p, q) /\ IsPrefix(q, r)
           \/ IsPrefix(p, q) /\ IsStrictPrefix(q, r)
    PROVE  IsStrictPrefix(p, r)
<1>1. Len(p) \in Nat /\ Len(q) \in Nat /\ Len(r) \in Nat
  BY LenProperties
<1>2. IsPrefix(p, q) /\ IsPrefix(q, r)
  BY DEF IsStrictPrefix
<1>3. IsPrefix(p, r)
  BY <1>2, PrefixTransitive
<1>4. Len(p) <= Len(q) /\ Len(q) <= Len(r)
  BY <1>2, PrefixMeans
<1>5. Len(p) < Len(q) \/ Len(q) < Len(r)
  BY StrictPrefixShorter
<1>6. p # r
  BY <1>1, <1>4, <1>5
<1> QED
  BY <1>3, <1>6 DEF IsStrictPrefix

-----------------------------------------------------------------------------
(* Pointers. *)

\* A pointer that sanitize.Pointer accepts names a position other than the root.
LEMMA PointerNamesPosition ==
    ASSUME NEW X, NEW r \in Seq(X)
    PROVE  /\ Position(r) \in Seq(Range(Position(r)))
           /\ r # << >> /\ r[1] = "/" => Position(r) # Root
<1> DEFINE slashes == {i \in DOMAIN r : r[i] = "/"}
           s == Ascending(slashes)
           end(k) == IF k < Len(s) THEN s[k + 1] - 1 ELSE Len(r)
<1>1. Len(r) \in Nat /\ DOMAIN r = 1 .. Len(r)
  BY LenProperties
<1>2. IsFiniteSet(slashes) /\ slashes \in SUBSET Nat
  <2>1. IsFiniteSet(1 .. Len(r))
    BY <1>1, FS_Interval
  <2>2. slashes \in SUBSET (1 .. Len(r))
    BY <1>1
  <2>3. IsFiniteSet(slashes)
    BY <2>1, <2>2, FS_Subset
  <2> QED
    BY <1>1, <2>3
<1>3. Cardinality(slashes) \in Nat /\ DOMAIN s = 1 .. Cardinality(slashes)
  BY <1>2, AscendingSorts
<1>4. Position(r) = [k \in DOMAIN s |-> Unescape(SubSeq(r, s[k] + 1, end(k)))]
  BY DEF Position
<1>5. DOMAIN Position(r) = 1 .. Cardinality(slashes)
  BY <1>3, <1>4
<1>6. Position(r) \in [1 .. Cardinality(slashes) -> Range(Position(r))]
  <2> HIDE DEF slashes
  <2>1. Position(r) = [k \in 1 .. Cardinality(slashes) |-> Position(r)[k]]
    BY <1>3, <1>4
  <2>2. \A k \in 1 .. Cardinality(slashes) : Position(r)[k] \in Range(Position(r))
    BY <1>5 DEF Range
  <2> QED
    BY <2>1, <2>2
<1>7. Position(r) \in Seq(Range(Position(r)))
  BY <1>3, <1>6, SeqDef
<1>8. ASSUME r # << >>, r[1] = "/" PROVE Position(r) # Root
  <2>1. Len(r) # 0
    BY <1>8, EmptySeq
  <2>2. 1 \in slashes
    BY <1>1, <1>8, <2>1
  <2>3. Cardinality(slashes) # 0
    BY <1>2, <2>2, FS_EmptySet
  <2>4. 1 \in DOMAIN Position(r)
    BY <1>3, <1>5, <2>3
  <2>5. DOMAIN Root = {}
    BY DEF Root
  <2> QED
    BY <2>4, <2>5
<1> QED
  BY <1>7, <1>8

\* A character of a text.  STRING has them all; the provers are told of the four
\* that escaping is about.
Char == STRING \cup {"/", "~", "0", "1"}

LEMMA EscapeCharactersDiffer ==
    /\ "/" # "~" /\ "0" # "~" /\ "1" # "~" /\ "0" # "/" /\ "1" # "/" /\ "0" # "1"
    /\ {"/", "~", "0", "1"} \subseteq Char
  BY DEF Char

LEMMA SubstituteEmpty == ASSUME NEW char, NEW by PROVE Substitute(<< >>, char, by) = << >>
<1> DEFINE f == [i \in DOMAIN << >> |-> IF << >>[i] = char THEN by ELSE << << >>[i] >>]
<1>1. f = << >>
  OBVIOUS
<1>2. FlattenSeq(f) = << >>
  BY <1>1, FlattenEmpty
<1> QED
  BY <1>2 DEF Substitute

LEMMA SubstituteAppend ==
    ASSUME NEW t \in Seq(Char), NEW c \in Char, NEW char, NEW by \in Seq(Char)
    PROVE  Substitute(Append(t, c), char, by)
              = Substitute(t, char, by) \o (IF c = char THEN by ELSE << c >>)
<1> DEFINE parts(s) == [i \in DOMAIN s |-> IF s[i] = char THEN by ELSE << s[i] >>]
           a == Append(t, c)
           z == IF c = char THEN by ELSE << c >>
<1>1. /\ Len(t) \in Nat /\ DOMAIN t = 1 .. Len(t) /\ DOMAIN a = 1 .. Len(t) + 1
      /\ (\A i \in DOMAIN t : a[i] = t[i] /\ i \in DOMAIN a /\ t[i] \in Char)
      /\ a[Len(t) + 1] = c /\ Len(t) + 1 \in DOMAIN a
  BY AppendProperties, LenProperties, ElementOfSeq
<1>2. z \in Seq(Char)
  OBVIOUS
<1> HIDE DEF a, z
<1>3. \A i \in DOMAIN t : parts(t)[i] \in Seq(Char) /\ parts(a)[i] = parts(t)[i]
  BY <1>1
<1>4. parts(a)[Len(t) + 1] = z
  BY <1>1 DEF z
<1>5. DOMAIN parts(t) = DOMAIN t /\ DOMAIN parts(a) = DOMAIN Append(t, c)
      /\ parts(t) = [i \in DOMAIN parts(t) |-> parts(t)[i]]
      /\ parts(a) = [i \in DOMAIN parts(a) |-> parts(a)[i]]
  BY DEF a
<1>6. Substitute(t, char, by) = FlattenSeq(parts(t)) /\ Substitute(a, char, by) = FlattenSeq(parts(a))
  BY DEF Substitute
<1> DEFINE f == parts(t)
           g == parts(a)
<1> HIDE DEF f, g
<1>7. f \in Seq(Seq(Char)) /\ g = Append(f, z)
  <2>1. DOMAIN f = DOMAIN t /\ (\A i \in DOMAIN t : f[i] \in Seq(Char))
    BY <1>3, <1>5 DEF f
  <2>2. f = [i \in DOMAIN f |-> f[i]] /\ g = [i \in DOMAIN g |-> g[i]]
        /\ DOMAIN g = DOMAIN Append(t, c)
    BY <1>5 DEF f, g
  <2>3. (\A i \in DOMAIN t : g[i] = f[i]) /\ g[Len(t) + 1] = z
    BY <1>3, <1>4 DEF f, g
  <2> QED
    BY <1>2, <2>1, <2>2, <2>3, MapAppend
<1>8. FlattenSeq(g) = FlattenSeq(f) \o z
  BY <1>2, <1>7, FlattenAppend
<1> QED
  BY <1>6, <1>8 DEF f, g, a, z

LEMMA SubstituteType ==
    ASSUME NEW char, NEW by \in Seq(Char)
    PROVE  \A t \in Seq(Char) : Substitute(t, char, by) \in Seq(Char)
<1> DEFINE T == {t \in Seq(Char) : Substitute(t, char, by) \in Seq(Char)}
<1>1. << >> \in T
  BY EmptySeq, SubstituteEmpty
<1>2. ASSUME NEW t \in Seq(Char), NEW c \in Char, t \in T PROVE Append(t, c) \in T
  <2> DEFINE z == IF c = char THEN by ELSE << c >>
             u == Substitute(t, char, by)
  <2>1. z \in Seq(Char) /\ u \in Seq(Char)
    BY <1>2
  <2>2. Substitute(Append(t, c), char, by) = u \o z
    BY SubstituteAppend
  <2> HIDE DEF z, u
  <2>3. u \o z \in Seq(Char)
    BY <2>1, ConcatProperties
  <2>4. Append(t, c) \in Seq(Char)
    BY AppendProperties
  <2> QED
    BY <2>2, <2>3, <2>4
<1> HIDE DEF T
<1>3. \A t \in Seq(Char) : t \in T
  BY <1>1, <1>2, SequenceInduction
<1> QED
  BY <1>3 DEF T

\* Escape, character by character: neither of its passes undoes or repeats the
\* other's work.
EscapeOf(c) == IF c = "~" THEN <<"~", "0">> ELSE IF c = "/" THEN <<"~", "1">> ELSE << c >>

LEMMA EscapeOfType == ASSUME NEW c \in Char PROVE EscapeOf(c) \in Seq(Char)
  BY EscapeCharactersDiffer DEF EscapeOf

LEMMA EscapeAppend ==
    ASSUME NEW t \in Seq(Char), NEW c \in Char
    PROVE  Escape(Append(t, c)) = Escape(t) \o EscapeOf(c)
<1> DEFINE one == <<"~", "1">>
           zero == <<"~", "0">>
           s == Substitute(t, "~", zero)
<1>1. one \in Seq(Char) /\ zero \in Seq(Char) /\ "~" \in Char /\ "0" \in Char
  BY EscapeCharactersDiffer
<1> HIDE DEF one, zero
<1>2. s \in Seq(Char) /\ Substitute(s, "/", one) \in Seq(Char)
  BY <1>1, SubstituteType
<1>3. Substitute(Append(t, c), "~", zero) = s \o (IF c = "~" THEN zero ELSE << c >>)
  <2>1. zero \in Seq(Char)
    BY <1>1
  <2> QED
    BY <2>1, SubstituteAppend
<1>4. Escape(t) = Substitute(s, "/", one)
      /\ Escape(Append(t, c)) = Substitute(Substitute(Append(t, c), "~", zero), "/", one)
  BY DEF Escape, one, zero
<1> HIDE DEF s
<1>5. CASE c = "~"
  <2>1. s \o zero = Append(Append(s, "~"), "0")
    BY <1>1, <1>2 DEF zero
  <2>2. Substitute(Append(s, "~"), "/", one) = Substitute(s, "/", one) \o <<"~">>
    BY <1>1, <1>2, SubstituteAppend, EscapeCharactersDiffer
  <2>3. Append(s, "~") \in Seq(Char)
    BY <1>1, <1>2, AppendProperties
  <2> DEFINE u == Append(s, "~")
             v == Substitute(s, "/", one)
  <2>4. Substitute(Append(u, "0"), "/", one) = Substitute(u, "/", one) \o <<"0">>
    <3>1. u \in Seq(Char) /\ "0" \in Char /\ "0" # "/" /\ one \in Seq(Char)
      BY <1>1, <2>3, EscapeCharactersDiffer
    <3> HIDE DEF u
    <3> QED
      BY <3>1, SubstituteAppend
  <2>5. <<"~">> \in Seq(Char) /\ <<"0">> \in Seq(Char)
    BY <1>1
  <2>6. <<"~">> \o <<"0">> = zero
    BY <1>1, ConcatPair DEF zero
  <2>7. (v \o <<"~">>) \o <<"0">> = v \o zero
    <3>1. v \in Seq(Char)
      BY <1>2
    <3> DEFINE x == <<"~">>
               y == <<"0">>
    <3>2. x \in Seq(Char) /\ y \in Seq(Char) /\ x \o y = zero
      BY <2>5, <2>6
    <3> HIDE DEF v, x, y
    <3>3. \A q, r, w \in Seq(Char) : (q \o r) \o w = q \o (r \o w)
      BY ConcatAssociative
    <3>4. (v \o x) \o y = v \o zero
      BY <3>1, <3>2, <3>3
    <3> QED
      BY <3>4 DEF x, y
  <2> QED
    BY <1>3, <1>4, <1>5, <2>1, <2>2, <2>4, <2>7 DEF EscapeOf, zero
<1>6. CASE c # "~"
  <2>1. s \o << c >> = Append(s, c)
    BY <1>2
  <2>2. Substitute(Append(s, c), "/", one) = Substitute(s, "/", one) \o (IF c = "/" THEN one ELSE << c >>)
    BY <1>1, <1>2, SubstituteAppend
  <2> QED
    BY <1>3, <1>4, <1>6, <2>1, <2>2 DEF EscapeOf, one
<1> QED
  BY <1>5, <1>6

LEMMA EscapeEmpty == Escape(<< >>) = << >>
  BY SubstituteEmpty DEF Escape

LEMMA EscapeType ==
    ASSUME NEW t \in Seq(Char) PROVE Escape(t) \in Seq(Char)
<1>1. <<"~", "1">> \in Seq(Char) /\ <<"~", "0">> \in Seq(Char)
  BY EscapeCharactersDiffer
<1> QED
  BY <1>1, SubstituteType DEF Escape

\* A character that is escaped is one that is put behind what there is.
LEMMA EscapeAppends ==
    ASSUME NEW t \in Seq(Char), NEW c \in Char
    PROVE  /\ Escape(t) \in Seq(Char)
           /\ c = "~" => Escape(Append(t, c)) = Append(Append(Escape(t), "~"), "0")
           /\ c = "/" => Escape(Append(t, c)) = Append(Append(Escape(t), "~"), "1")
           /\ c # "~" /\ c # "/" => Escape(Append(t, c)) = Append(Escape(t), c)
<1> DEFINE e == Escape(t)
<1>1. e \in Seq(Char)
  BY EscapeType
<1>2. Escape(Append(t, c)) = e \o EscapeOf(c)
  BY EscapeAppend
<1> HIDE DEF e
<1>3. "~" \in Char /\ "0" \in Char /\ "1" \in Char
  BY EscapeCharactersDiffer
<1>4. /\ e \o <<"~", "0">> = Append(Append(e, "~"), "0")
      /\ e \o <<"~", "1">> = Append(Append(e, "~"), "1")
      /\ e \o << c >> = Append(e, c)
  BY <1>1, <1>3
<1>5. "/" # "~"
  BY EscapeCharactersDiffer
<1> QED
  BY <1>1, <1>2, <1>4, <1>5 DEF EscapeOf, e

\* Texts in which every "~" begins an escape are made of characters and escapes.
LEMMA EscapedAppends ==
    ASSUME NEW e \in Seq(Char), IsEscaped(e)
    PROVE  /\ \A c \in Char : c # "~" => IsEscaped(Append(e, c))
           /\ \A d \in {"0", "1"} : IsEscaped(Append(Append(e, "~"), d))
<1>1. Len(e) \in Nat /\ DOMAIN e = 1 .. Len(e)
  BY LenProperties
<1>2. ASSUME NEW c \in Char, c # "~" PROVE IsEscaped(Append(e, c))
  <2> DEFINE a == Append(e, c)
  <2>1. /\ Len(a) = Len(e) + 1 /\ DOMAIN a = 1 .. Len(e) + 1 /\ a[Len(e) + 1] = c
        /\ \A i \in 1 .. Len(e) : a[i] = e[i]
    BY <1>1, AppendProperties, LenProperties
  <2> HIDE DEF a
  <2>2. ASSUME NEW i \in DOMAIN a, a[i] = "~" PROVE i < Len(a) /\ a[i + 1] \in {"0", "1"}
    <3>1. i \in 1 .. Len(e) /\ e[i] = "~"
      BY <1>1, <1>2, <2>1, <2>2
    <3>2. i < Len(e) /\ e[i + 1] \in {"0", "1"}
      BY <1>1, <3>1 DEF IsEscaped
    <3>3. i + 1 \in 1 .. Len(e)
      BY <1>1, <3>1, <3>2
    <3> QED
      BY <1>1, <2>1, <3>1, <3>2, <3>3
  <2> QED
    BY <2>2 DEF IsEscaped, a
<1>3. ASSUME NEW d \in {"0", "1"} PROVE IsEscaped(Append(Append(e, "~"), d))
  <2> DEFINE b == Append(e, "~")
             a == Append(b, d)
  <2>1. "~" \in Char /\ d \in Char /\ d # "~"
    BY EscapeCharactersDiffer
  <2>2. /\ b \in Seq(Char) /\ Len(b) = Len(e) + 1 /\ b[Len(e) + 1] = "~"
        /\ \A i \in 1 .. Len(e) : b[i] = e[i]
    BY <1>1, <2>1, AppendProperties
  <2> HIDE DEF b
  <2>3. /\ a \in Seq(Char) /\ Len(a) = Len(b) + 1 /\ a[Len(b) + 1] = d
        /\ \A i \in 1 .. Len(b) : a[i] = b[i]
    BY <2>1, <2>2, AppendProperties
  <2>4. DOMAIN a = 1 .. Len(a)
    BY <2>3, LenProperties
  <2> HIDE DEF a
  <2>5. /\ Len(a) = Len(e) + 2 /\ a[Len(e) + 1] = "~" /\ a[Len(e) + 2] = d
        /\ \A i \in 1 .. Len(e) : a[i] = e[i]
    BY <1>1, <2>2, <2>3
  <2>6. ASSUME NEW i \in DOMAIN a, a[i] = "~" PROVE i < Len(a) /\ a[i + 1] \in {"0", "1"}
    <3>1. i \in 1 .. Len(e) \/ i = Len(e) + 1
      BY <1>1, <2>1, <2>4, <2>5, <2>6
    <3>2. CASE i = Len(e) + 1
      BY <1>1, <1>3, <2>5, <3>2
    <3>3. CASE i \in 1 .. Len(e)
      <4>1. e[i] = "~"
        BY <2>5, <2>6, <3>3
      <4>2. i < Len(e) /\ e[i + 1] \in {"0", "1"}
        BY <1>1, <3>3, <4>1 DEF IsEscaped
      <4>3. i + 1 \in 1 .. Len(e)
        BY <1>1, <3>3, <4>2
      <4> QED
        BY <1>1, <2>5, <3>3, <4>2, <4>3
    <3> QED
      BY <3>1, <3>2, <3>3
  <2> QED
    BY <2>6 DEF IsEscaped, a, b
<1> QED
  BY <1>2, <1>3

LEMMA EscapedInduction ==
    ASSUME NEW T, << >> \in T,
           \A e \in Seq(Char), c \in Char :
              e \in T /\ IsEscaped(e) /\ c # "~" => Append(e, c) \in T,
           \A e \in Seq(Char), d \in {"0", "1"} :
              e \in T /\ IsEscaped(e) => Append(Append(e, "~"), d) \in T
    PROVE  \A e \in Seq(Char) : IsEscaped(e) => e \in T
<1> SUFFICES ASSUME NEW u \in Seq(Char), IsEscaped(u), u \notin T PROVE FALSE
  OBVIOUS
<1> DEFINE Lengths == {n \in Nat : \E s \in Seq(Char) : Len(s) = n /\ IsEscaped(s) /\ s \notin T}
<1>1. Len(u) \in Lengths
  BY LenProperties
<1>2. PICK n \in Lengths : \A m \in Lengths : n <= m
  BY <1>1, LeastNatural
<1>3. PICK s \in Seq(Char) : Len(s) = n /\ IsEscaped(s) /\ s \notin T
  BY <1>2
<1>4. \A t \in Seq(Char) : Len(t) < n /\ IsEscaped(t) => t \in T
  BY <1>2, LenProperties
<1> HIDE DEF Lengths
<1>5. PICK t \in Seq(Char), c \in Char : s = Append(t, c)
  BY <1>3, SequenceEmptyOrAppend
<1>6. /\ Len(t) \in Nat /\ n = Len(t) + 1 /\ s[n] = c
      /\ \A i \in 1 .. Len(t) : s[i] = t[i]
      /\ DOMAIN s = 1 .. n /\ DOMAIN t = 1 .. Len(t) /\ Len(s) = n /\ n \in Nat
  BY <1>3, <1>5, AppendProperties, LenProperties
<1>7. \A i \in 1 .. n : s[i] = "~" => i < n /\ s[i + 1] \in {"0", "1"}
  BY <1>3, <1>6 DEF IsEscaped
<1>70. c # "~"
  <2>1. n \in 1 .. n /\ ~(n < n)
    BY <1>6
  <2> QED
    BY <1>6, <1>7, <2>1
<1>8. CASE IsEscaped(t)
  BY <1>3, <1>4, <1>5, <1>6, <1>70, <1>8
<1>9. CASE ~IsEscaped(t)
  <2>1. PICK i \in 1 .. Len(t) : t[i] = "~" /\ ~(i < Len(t) /\ t[i + 1] \in {"0", "1"})
    BY <1>6, <1>9 DEF IsEscaped
  <2>2. s[i] = "~" /\ i < n /\ s[i + 1] \in {"0", "1"}
    <3>1. i \in 1 .. n /\ s[i] = t[i]
      BY <1>6, <2>1
    <3> QED
      BY <1>7, <2>1, <3>1
  <2>3. i = Len(t)
    <3>1. ASSUME i < Len(t) PROVE FALSE
      <4>1. i + 1 \in 1 .. Len(t)
        BY <1>6, <2>1, <3>1
      <4> QED
        BY <1>6, <2>1, <2>2, <3>1, <4>1
    <3>2. Len(t) \in Nat /\ i \in 1 .. Len(t)
      BY <1>6, <2>1
    <3>3. i < Len(t) \/ i = Len(t)
      BY <3>2
    <3> QED
      BY <3>1, <3>3
  <2>4. c \in {"0", "1"}
    BY <1>6, <2>2, <2>3
  <2>5. t # << >>
    BY <1>6, <2>1
  <2>6. PICK e \in Seq(Char), b \in Char : t = Append(e, b)
    BY <2>5, SequenceEmptyOrAppend
  <2>7. /\ Len(e) \in Nat /\ Len(t) = Len(e) + 1 /\ t[Len(t)] = b
        /\ (\A j \in 1 .. Len(e) : t[j] = e[j]) /\ DOMAIN e = 1 .. Len(e)
    BY <2>6, AppendProperties, LenProperties
  <2>8. b = "~"
    BY <2>1, <2>3, <2>7
  <2>9. IsEscaped(e)
    <3> SUFFICES ASSUME NEW j \in 1 .. Len(e), e[j] = "~"
                 PROVE  j < Len(e) /\ e[j + 1] \in {"0", "1"}
      BY <2>7 DEF IsEscaped
    <3>1. j \in 1 .. Len(t) /\ j \in 1 .. n /\ s[j] = "~"
      BY <1>6, <2>7
    <3>2. s[j + 1] \in {"0", "1"}
      BY <1>7, <3>1
    <3>3. j + 1 \in 1 .. Len(t)
      BY <2>7
    <3>4. t[j + 1] \in {"0", "1"}
      BY <1>6, <3>2, <3>3
    <3>5. j # Len(e)
      BY <2>7, <2>8, <3>4, EscapeCharactersDiffer
    <3>6. j + 1 \in 1 .. Len(e) /\ j < Len(e)
      <4>1. j \in Nat /\ 1 <= j /\ j <= Len(e) /\ Len(e) \in Nat
        BY <2>7
      <4> QED
        BY <3>5, <4>1
    <3> QED
      BY <2>7, <3>4, <3>6
  <2>10. e \in T
    BY <1>4, <1>6, <2>7, <2>9
  <2> QED
    BY <1>3, <1>5, <2>4, <2>6, <2>8, <2>9, <2>10
<1> QED
  BY <1>8, <1>9

\* What Unescape makes of each character.
UnescapeParts(token) ==
    [i \in DOMAIN token |->
        IF token[i] = "~" THEN << IF token[i + 1] = "1" THEN "/" ELSE "~" >>
        ELSE IF i > 1 /\ token[i - 1] = "~" THEN << >>
        ELSE << token[i] >>]

LEMMA UnescapePartsType ==
    ASSUME NEW e \in Seq(Char)
    PROVE  /\ UnescapeParts(e) \in Seq(Seq(Char)) /\ Len(UnescapeParts(e)) = Len(e)
           /\ \A i \in 1 .. Len(e) : UnescapeParts(e)[i] =
                IF e[i] = "~" THEN << IF e[i + 1] = "1" THEN "/" ELSE "~" >>
                ELSE IF i > 1 /\ e[i - 1] = "~" THEN << >>
                ELSE << e[i] >>
<1> DEFINE f == UnescapeParts(e)
<1>1. Len(e) \in Nat /\ DOMAIN e = 1 .. Len(e)
  BY LenProperties
<1>2. DOMAIN f = 1 .. Len(e) /\ f = [i \in 1 .. Len(e) |-> f[i]]
      /\ \A i \in 1 .. Len(e) : f[i] =
            IF e[i] = "~" THEN << IF e[i + 1] = "1" THEN "/" ELSE "~" >>
            ELSE IF i > 1 /\ e[i - 1] = "~" THEN << >>
            ELSE << e[i] >>
  BY <1>1 DEF UnescapeParts
<1> HIDE DEF f
<1>3. ASSUME NEW i \in 1 .. Len(e) PROVE f[i] \in Seq(Char)
  <2>1. e[i] \in Char
    BY <1>1, ElementOfSeq
  <2>2. (IF e[i + 1] = "1" THEN "/" ELSE "~") \in Char
    BY EscapeCharactersDiffer
  <2>3. /\ << e[i] >> \in Seq(Char) /\ << >> \in Seq(Char)
        /\ << IF e[i + 1] = "1" THEN "/" ELSE "~" >> \in Seq(Char)
    BY <2>1, <2>2
  <2> QED
    BY <1>2, <2>3
<1>4. f \in [1 .. Len(e) -> Seq(Char)]
  BY <1>2, <1>3
<1>5. f \in Seq(Seq(Char))
  BY <1>1, <1>4, SeqDef
<1>6. Len(f) = Len(e)
  BY <1>1, <1>2, <1>5, LenProperties
<1> QED
  BY <1>2, <1>5, <1>6 DEF f

LEMMA UnescapeFlattens ==
    ASSUME NEW e
    PROVE  Unescape(e) = FlattenSeq(UnescapeParts(e))
  BY DEF Unescape, UnescapeParts

LEMMA UnescapeEmpty == Unescape(<< >>) = << >>
<1> DEFINE f == UnescapeParts(<< >>)
<1>1. f \in Seq(Seq(Char)) /\ Len(f) = 0
  BY EmptySeq, UnescapePartsType
<1> HIDE DEF f
<1>2. f = << >>
  BY <1>1, EmptySeq
<1>3. Unescape(<< >>) = FlattenSeq(f)
  BY UnescapeFlattens DEF f
<1> QED
  BY <1>2, <1>3, FlattenEmpty

LEMMA UnescapeCharacter ==
    ASSUME NEW e \in Seq(Char), IsEscaped(e), NEW c \in Char, c # "~", Unescape(e) \in Seq(Char)
    PROVE  Unescape(Append(e, c)) = Append(Unescape(e), c)
<1> DEFINE n == Len(e)
           a == Append(e, c)
           f == UnescapeParts(e)
           g == UnescapeParts(a)
           h == Append(f, << c >>)
<1>1. /\ n \in Nat /\ a \in Seq(Char) /\ Len(a) = n + 1 /\ a[n + 1] = c
      /\ \A i \in 1 .. n : a[i] = e[i]
  BY AppendProperties, LenProperties
<1>2. \A i \in 1 .. n : e[i] = "~" => i < n /\ i + 1 \in 1 .. n
  <2>1. DOMAIN e = 1 .. n
    BY LenProperties
  <2>2. \A i \in 1 .. n : e[i] = "~" => i < n
    BY <2>1 DEF IsEscaped
  <2> HIDE DEF n
  <2> QED
    BY <1>1, <2>2
<1>3. /\ f \in Seq(Seq(Char)) /\ Len(f) = n
      /\ \A i \in 1 .. n : f[i] =
                IF e[i] = "~" THEN << IF e[i + 1] = "1" THEN "/" ELSE "~" >>
                ELSE IF i > 1 /\ e[i - 1] = "~" THEN << >>
                ELSE << e[i] >>
  BY UnescapePartsType
<1>4. /\ g \in Seq(Seq(Char)) /\ Len(g) = n + 1
      /\ \A i \in 1 .. n + 1 : g[i] =
                IF a[i] = "~" THEN << IF a[i + 1] = "1" THEN "/" ELSE "~" >>
                ELSE IF i > 1 /\ a[i - 1] = "~" THEN << >>
                ELSE << a[i] >>
  <2> HIDE DEF a
  <2> QED
    BY <1>1, UnescapePartsType
<1>5. /\ h \in Seq(Seq(Char)) /\ Len(h) = n + 1 /\ h[n + 1] = << c >>
      /\ \A i \in 1 .. n : h[i] = f[i]
  <2>1. << c >> \in Seq(Char)
    OBVIOUS
  <2> HIDE DEF f
  <2> QED
    BY <1>3, <2>1, AppendProperties
<1> HIDE DEF n, a, f, g, h
<1>6. ASSUME NEW i \in 1 .. n + 1 PROVE g[i] = h[i]
  <2>1. CASE i \in 1 .. n
    <3>1. i > 1 => i - 1 \in 1 .. n
      BY <1>1, <2>1
    <3>2. a[i] = e[i] /\ (a[i] = "~" => a[i + 1] = e[i + 1]) /\ (i > 1 => a[i - 1] = e[i - 1])
      BY <1>1, <1>2, <2>1, <3>1
    <3> QED
      BY <1>3, <1>4, <1>5, <1>6, <2>1, <3>2
  <2>2. CASE i \notin 1 .. n
    <3>1. i = n + 1
      BY <1>1, <2>2
    <3>2. ~(i > 1 /\ a[i - 1] = "~")
      <4>1. i > 1 => n \in 1 .. n /\ i - 1 = n
        BY <1>1, <3>1
      <4> QED
        BY <1>1, <1>2, <4>1
    <3> QED
      BY <1>1, <1>4, <1>5, <3>1, <3>2
  <2> QED
    BY <2>1, <2>2
<1>7. g = h
  BY <1>4, <1>5, <1>6, SeqEqual
<1>8. FlattenSeq(Append(f, << c >>)) = FlattenSeq(f) \o << c >>
  <2>1. << c >> \in Seq(Char)
    OBVIOUS
  <2> QED
    BY <1>3, <2>1, FlattenAppend
<1>9. Unescape(e) = FlattenSeq(f) /\ Unescape(Append(e, c)) = FlattenSeq(h)
  BY <1>7, UnescapeFlattens DEF f, g, a
<1>10. Unescape(Append(e, c)) = Unescape(e) \o << c >>
  BY <1>8, <1>9 DEF h
<1> QED
  BY <1>10, AppendIsConcat

LEMMA UnescapeEscape ==
    ASSUME NEW e \in Seq(Char), IsEscaped(e), NEW d \in {"0", "1"}, Unescape(e) \in Seq(Char)
    PROVE  Unescape(Append(Append(e, "~"), d)) = Append(Unescape(e), IF d = "1" THEN "/" ELSE "~")
<1> DEFINE n == Len(e)
           b == Append(e, "~")
           a == Append(b, d)
           c == IF d = "1" THEN "/" ELSE "~"
           f == UnescapeParts(e)
           g == UnescapeParts(a)
           k == Append(f, << c >>)
           h == Append(k, << >>)
<1>1. /\ n \in Nat /\ a \in Seq(Char) /\ Len(a) = n + 2 /\ a[n + 1] = "~" /\ a[n + 2] = d
      /\ \A i \in 1 .. n : a[i] = e[i]
  <2>1. "~" \in Char /\ d \in Char /\ n \in Nat
    BY EscapeCharactersDiffer, LenProperties
  <2>2. b \in Seq(Char) /\ Len(b) = n + 1 /\ b[n + 1] = "~" /\ \A i \in 1 .. n : b[i] = e[i]
    BY <2>1, AppendProperties
  <2> HIDE DEF b
  <2>3. a \in Seq(Char) /\ Len(a) = Len(b) + 1 /\ a[Len(b) + 1] = d
        /\ \A i \in 1 .. Len(b) : a[i] = b[i]
    BY <2>1, <2>2, AppendProperties
  <2> HIDE DEF a, n
  <2> QED
    BY <2>1, <2>2, <2>3
<1>2. \A i \in 1 .. n : e[i] = "~" => i < n /\ i + 1 \in 1 .. n
  <2>1. DOMAIN e = 1 .. n
    BY LenProperties
  <2>2. \A i \in 1 .. n : e[i] = "~" => i < n
    BY <2>1 DEF IsEscaped
  <2> HIDE DEF n
  <2> QED
    BY <1>1, <2>2
<1>3. /\ f \in Seq(Seq(Char)) /\ Len(f) = n
      /\ \A i \in 1 .. n : f[i] =
                IF e[i] = "~" THEN << IF e[i + 1] = "1" THEN "/" ELSE "~" >>
                ELSE IF i > 1 /\ e[i - 1] = "~" THEN << >>
                ELSE << e[i] >>
  BY UnescapePartsType
<1>4. /\ g \in Seq(Seq(Char)) /\ Len(g) = n + 2
      /\ \A i \in 1 .. n + 2 : g[i] =
                IF a[i] = "~" THEN << IF a[i + 1] = "1" THEN "/" ELSE "~" >>
                ELSE IF i > 1 /\ a[i - 1] = "~" THEN << >>
                ELSE << a[i] >>
  <2> HIDE DEF a
  <2> QED
    BY <1>1, UnescapePartsType
<1>5. c \in Char /\ << c >> \in Seq(Char) /\ << >> \in Seq(Char)
  <2>1. c \in Char
    BY EscapeCharactersDiffer
  <2> HIDE DEF c
  <2> QED
    BY <2>1
<1> HIDE DEF c
<1>6. /\ k \in Seq(Seq(Char)) /\ h \in Seq(Seq(Char)) /\ Len(h) = n + 2
      /\ h[n + 1] = << c >> /\ h[n + 2] = << >>
      /\ \A i \in 1 .. n : h[i] = f[i]
  <2> HIDE DEF f
  <2>1. /\ k \in Seq(Seq(Char)) /\ Len(k) = n + 1 /\ k[n + 1] = << c >>
        /\ \A i \in 1 .. n : k[i] = f[i]
    BY <1>3, <1>5, AppendProperties
  <2> HIDE DEF k
  <2>2. /\ h \in Seq(Seq(Char)) /\ Len(h) = Len(k) + 1 /\ h[Len(k) + 1] = << >>
        /\ \A i \in 1 .. Len(k) : h[i] = k[i]
    BY <1>5, <2>1, AppendProperties
  <2> HIDE DEF h, n
  <2> QED
    BY <1>1, <2>1, <2>2
<1> HIDE DEF n, b, a, f, g, h, k
<1>7. ASSUME NEW i \in 1 .. n + 2 PROVE g[i] = h[i]
  <2>1. CASE i \in 1 .. n
    <3>1. i > 1 => i - 1 \in 1 .. n
      BY <1>1, <2>1
    <3>2. a[i] = e[i] /\ (a[i] = "~" => a[i + 1] = e[i + 1]) /\ (i > 1 => a[i - 1] = e[i - 1])
      BY <1>1, <1>2, <2>1, <3>1
    <3> QED
      BY <1>3, <1>4, <1>6, <1>7, <2>1, <3>2
  <2>2. CASE i = n + 1
    <3>1. n + 1 \in 1 .. n + 2 /\ (n + 1) + 1 = n + 2
      BY <1>1
    <3>2. g[n + 1] = << IF d = "1" THEN "/" ELSE "~" >>
      BY <1>1, <1>4, <3>1
    <3> QED
      BY <1>6, <2>2, <3>2 DEF c
  <2>3. CASE i = n + 2
    <3>1. n + 2 \in 1 .. n + 2 /\ (n + 2) - 1 = n + 1 /\ n + 2 > 1
      BY <1>1
    <3>2. d # "~"
      BY EscapeCharactersDiffer
    <3> QED
      BY <1>1, <1>4, <1>6, <2>3, <3>1, <3>2
  <2>4. i \in 1 .. n \/ i = n + 1 \/ i = n + 2
    BY <1>1
  <2> QED
    BY <2>1, <2>2, <2>3, <2>4
<1>8. g = h
  <2>1. Len(g) = Len(h) /\ \A i \in 1 .. Len(g) : g[i] = h[i]
    BY <1>4, <1>6, <1>7
  <2>2. g \in Seq(Seq(Char)) /\ h \in Seq(Seq(Char))
    BY <1>4, <1>6
  <2> QED
    BY <2>1, <2>2, SeqEqual
<1>9. FlattenSeq(h) = FlattenSeq(k) \o << >> /\ FlattenSeq(k) = FlattenSeq(f) \o << c >>
  BY <1>3, <1>5, <1>6, FlattenAppend DEF h, k
<1>10. Unescape(e) = FlattenSeq(f) /\ Unescape(Append(Append(e, "~"), d)) = FlattenSeq(h)
  BY <1>8, UnescapeFlattens DEF f, g, a, b
<1>11. FlattenSeq(k) = Append(Unescape(e), c) /\ FlattenSeq(k) \in Seq(Char)
  BY <1>5, <1>9, <1>10, AppendIsConcat, AppendProperties
<1> QED
  BY <1>9, <1>10, <1>11, ConcatEmptySeq DEF c

\* Escape(token) has no "/", and every "~" in it begins an escape; Unescape gives
\* the token back.
LEMMA UnescapeUndoesEscape ==
    ASSUME NEW t \in Seq(Char)
    PROVE  /\ Escape(t) \in Seq(Char) /\ IsEscaped(Escape(t))
           /\ \A i \in DOMAIN Escape(t) : Escape(t)[i] # "/"
           /\ Unescape(Escape(t)) = t
<1> DEFINE Plain(e) == \A i \in DOMAIN e : e[i] # "/"
           T == {s \in Seq(Char) : /\ Escape(s) \in Seq(Char) /\ IsEscaped(Escape(s))
                                   /\ Plain(Escape(s)) /\ Unescape(Escape(s)) = s}
<1>1. << >> \in T
  <2>1. << >> \in Seq(Char) /\ DOMAIN << >> = {}
    BY EmptySeq
  <2>2. IsEscaped(<< >>) /\ Plain(<< >>)
    BY <2>1 DEF IsEscaped
  <2> HIDE DEF Plain
  <2> QED
    BY <2>1, <2>2, EscapeEmpty, UnescapeEmpty
<1>2. ASSUME NEW e \in Seq(Char), Plain(e), NEW c \in Char, c # "/" PROVE Plain(Append(e, c))
  <2>1. /\ Len(e) \in Nat /\ DOMAIN e = 1 .. Len(e) /\ DOMAIN Append(e, c) = 1 .. Len(e) + 1
        /\ Append(e, c)[Len(e) + 1] = c /\ \A i \in 1 .. Len(e) : Append(e, c)[i] = e[i]
    BY AppendProperties, LenProperties
  <2>2. \A i \in 1 .. Len(e) + 1 : i \in 1 .. Len(e) \/ i = Len(e) + 1
    BY <2>1
  <2> QED
    BY <1>2, <2>1, <2>2
<1> HIDE DEF Plain
<1>3. ASSUME NEW s \in Seq(Char), NEW c \in Char, s \in T PROVE Append(s, c) \in T
  <2> DEFINE e == Escape(s)
             a == Append(s, c)
  <2>1. e \in Seq(Char) /\ IsEscaped(e) /\ Plain(e) /\ Unescape(e) = s /\ Unescape(e) \in Seq(Char)
    BY <1>3
  <2>2. /\ a \in Seq(Char)
        /\ c = "~" => Escape(a) = Append(Append(e, "~"), "0")
        /\ c = "/" => Escape(a) = Append(Append(e, "~"), "1")
        /\ c # "~" /\ c # "/" => Escape(a) = Append(e, c)
    BY EscapeAppends, AppendProperties
  <2>3. SUFFICES Escape(a) \in Seq(Char) /\ IsEscaped(Escape(a)) /\ Plain(Escape(a))
                 /\ Unescape(Escape(a)) = a
    BY <2>2
  <2>4. /\ Append(e, "~") \in Seq(Char) /\ Plain(Append(e, "~"))
        /\ "~" \in Char /\ "0" \in Char /\ "1" \in Char
    <3>1. "~" \in Char /\ "0" \in Char /\ "1" \in Char /\ "~" # "/"
      BY EscapeCharactersDiffer
    <3> HIDE DEF e
    <3> QED
      BY <1>2, <2>1, <3>1, AppendProperties
  <2> DEFINE b == Append(e, "~")
  <2>5. ASSUME NEW d \in {"0", "1"}
        PROVE  /\ Append(b, d) \in Seq(Char) /\ Plain(Append(b, d)) /\ IsEscaped(Append(b, d))
               /\ Unescape(Append(b, d)) = Append(s, IF d = "1" THEN "/" ELSE "~")
    <3>1. IsEscaped(Append(b, d))
      <4> HIDE DEF e
      <4> QED
        BY <2>1, <2>5, EscapedAppends
    <3>2. d \in Char /\ d # "/"
      BY <2>4, EscapeCharactersDiffer
    <3>3. Unescape(Append(b, d)) = Append(Unescape(e), IF d = "1" THEN "/" ELSE "~")
      <4> HIDE DEF e
      <4> QED
        BY <2>1, <2>5, UnescapeEscape
    <3>4. Append(b, d) \in Seq(Char) /\ Plain(Append(b, d))
      <4> HIDE DEF b
      <4> QED
        BY <1>2, <2>4, <3>2, AppendProperties DEF b
    <3> QED
      BY <2>1, <3>1, <3>3, <3>4
  <2>6. CASE c = "~"
    <3>1. "0" \in {"0", "1"} /\ "0" # "1"
      BY EscapeCharactersDiffer
    <3>2. Escape(a) = Append(b, "0")
      BY <2>2, <2>6
    <3> HIDE DEF b, a
    <3>3. /\ Append(b, "0") \in Seq(Char) /\ Plain(Append(b, "0")) /\ IsEscaped(Append(b, "0"))
          /\ Unescape(Append(b, "0")) = Append(s, "~")
      BY <2>5, <3>1
    <3> QED
      BY <2>6, <3>2, <3>3 DEF a
  <2>7. CASE c = "/"
    <3>1. c # "~"
      BY <2>7, EscapeCharactersDiffer
    <3>2. Escape(a) = Append(b, "1")
      BY <2>2, <2>7
    <3> HIDE DEF b, a
    <3>3. /\ Append(b, "1") \in Seq(Char) /\ Plain(Append(b, "1")) /\ IsEscaped(Append(b, "1"))
          /\ Unescape(Append(b, "1")) = Append(s, "/")
      BY <2>5
    <3> QED
      BY <2>7, <3>2, <3>3 DEF a
  <2>8. CASE c # "~" /\ c # "/"
    <3>1. Escape(a) = Append(e, c)
      BY <2>2, <2>8
    <3> HIDE DEF a, e
    <3>2. Append(e, c) \in Seq(Char) /\ Plain(Append(e, c)) /\ IsEscaped(Append(e, c))
      BY <1>2, <2>1, <2>8, AppendProperties, EscapedAppends
    <3>3. Unescape(Append(e, c)) = Append(Unescape(e), c)
      BY <2>1, <2>8, UnescapeCharacter
    <3> QED
      BY <2>1, <3>1, <3>2, <3>3 DEF a
  <2> QED
    BY <2>6, <2>7, <2>8
<1> HIDE DEF T
<1>4. \A s \in Seq(Char) : s \in T
  BY <1>1, <1>3, SequenceInduction
<1>5. t \in T
  BY <1>4
<1> QED
  BY <1>5 DEF T, Plain

\* ... and the other way round, for what an escaped token can be.
LEMMA EscapeUndoesUnescape ==
    ASSUME NEW e \in Seq(Char), IsEscaped(e), \A i \in DOMAIN e : e[i] # "/"
    PROVE  Unescape(e) \in Seq(Char) /\ Escape(Unescape(e)) = e
<1> DEFINE Plain(s) == \A i \in DOMAIN s : s[i] # "/"
           T == {s \in Seq(Char) : Unescape(s) \in Seq(Char)
                                   /\ (Plain(s) => Escape(Unescape(s)) = s)}
<1>1. << >> \in T
  BY EmptySeq, EscapeEmpty, UnescapeEmpty
<1>2. ASSUME NEW s \in Seq(Char), NEW c \in Char, Plain(Append(s, c)) PROVE Plain(s) /\ c # "/"
  <2>1. /\ Len(s) \in Nat /\ DOMAIN s = 1 .. Len(s) /\ DOMAIN Append(s, c) = 1 .. Len(s) + 1
        /\ Append(s, c)[Len(s) + 1] = c /\ \A i \in 1 .. Len(s) : Append(s, c)[i] = s[i]
    BY AppendProperties, LenProperties
  <2>2. Len(s) + 1 \in 1 .. Len(s) + 1 /\ \A i \in 1 .. Len(s) : i \in 1 .. Len(s) + 1
    BY <2>1
  <2> QED
    BY <1>2, <2>1, <2>2
<1> HIDE DEF Plain
<1>3. ASSUME NEW s \in Seq(Char), NEW c \in Char, s \in T, IsEscaped(s), c # "~"
      PROVE  Append(s, c) \in T
  <2> DEFINE u == Unescape(s)
  <2>1. u \in Seq(Char) /\ (Plain(s) => Escape(u) = s)
    BY <1>3
  <2>2. Unescape(Append(s, c)) = Append(u, c)
    BY <1>3, <2>1, UnescapeCharacter
  <2> HIDE DEF u
  <2>3. Append(u, c) \in Seq(Char) /\ Append(s, c) \in Seq(Char)
    BY <2>1, AppendProperties
  <2>4. ASSUME Plain(Append(s, c)) PROVE Escape(Append(u, c)) = Append(s, c)
    BY <1>2, <1>3, <2>1, <2>4, EscapeAppends
  <2> QED
    BY <2>2, <2>3, <2>4
<1>4. ASSUME NEW s \in Seq(Char), NEW d \in {"0", "1"}, s \in T, IsEscaped(s)
      PROVE  Append(Append(s, "~"), d) \in T
  <2> DEFINE u == Unescape(s)
             b == Append(s, "~")
             c == IF d = "1" THEN "/" ELSE "~"
  <2>1. u \in Seq(Char) /\ (Plain(s) => Escape(u) = s)
    BY <1>4
  <2>2. Unescape(Append(b, d)) = Append(u, c)
    BY <1>4, <2>1, UnescapeEscape
  <2>3. c \in Char /\ "~" \in Char /\ d \in Char
    BY EscapeCharactersDiffer
  <2> HIDE DEF u
  <2>4. b \in Seq(Char) /\ Append(u, c) \in Seq(Char)
    BY <2>1, <2>3, AppendProperties
  <2>5. Append(b, d) \in Seq(Char)
    BY <2>3, <2>4, AppendProperties
  <2>6. ASSUME Plain(Append(b, d)) PROVE Escape(Append(u, c)) = Append(b, d)
    <3>1. Plain(s)
      BY <1>2, <2>3, <2>4, <2>6
    <3>2. /\ c = "~" => Escape(Append(u, c)) = Append(Append(s, "~"), "0")
          /\ c = "/" => Escape(Append(u, c)) = Append(Append(s, "~"), "1")
      BY <2>1, <2>3, <3>1, EscapeAppends
    <3>3. (d = "1" /\ c = "/") \/ (d = "0" /\ c = "~")
      OBVIOUS
    <3> QED
      BY <3>2, <3>3
  <2> QED
    BY <2>2, <2>4, <2>5, <2>6
<1> HIDE DEF T
<1>5. \A s \in Seq(Char) : IsEscaped(s) => s \in T
  BY <1>1, <1>3, <1>4, EscapedInduction
<1>6. e \in T
  BY <1>5
<1> QED
  BY <1>6 DEF T, Plain

LEMMA UnescapeType ==
    ASSUME NEW e \in Seq(Char) PROVE Unescape(e) \in Seq(Char)
  BY UnescapePartsType, UnescapeFlattens, FlattenType

LEMMA ToPointerEmpty == ToPointer(<< >>) = << >>
<1> DEFINE f == [k \in DOMAIN << >> |-> <<"/">> \o Escape(<< >>[k])]
<1>1. f = << >>
  OBVIOUS
<1>2. FlattenSeq(f) = << >>
  BY <1>1, FlattenEmpty
<1> QED
  BY <1>2 DEF ToPointer

LEMMA ToPointerAppend ==
    ASSUME NEW p \in Seq(Seq(Char)), NEW t \in Seq(Char)
    PROVE  ToPointer(Append(p, t)) = ToPointer(p) \o (<<"/">> \o Escape(t))
<1> DEFINE parts(s) == [k \in DOMAIN s |-> <<"/">> \o Escape(s[k])]
           a == Append(p, t)
           z == <<"/">> \o Escape(t)
<1>0. ASSUME NEW s \in Seq(Char) PROVE <<"/">> \o Escape(s) \in Seq(Char)
  <2>1. <<"/">> \in Seq(Char) /\ Escape(s) \in Seq(Char)
    BY EscapeType, EscapeCharactersDiffer
  <2> DEFINE e == Escape(s)
             x == <<"/">>
  <2> HIDE DEF e, x
  <2>2. x \o e \in Seq(Char)
    BY <2>1, ConcatProperties DEF e, x
  <2> QED
    BY <2>2 DEF e, x
<1>1. /\ Len(p) \in Nat /\ DOMAIN p = 1 .. Len(p) /\ DOMAIN a = 1 .. Len(p) + 1
      /\ (\A i \in DOMAIN p : a[i] = p[i] /\ i \in DOMAIN a /\ p[i] \in Seq(Char))
      /\ a[Len(p) + 1] = t /\ Len(p) + 1 \in DOMAIN a
  BY AppendProperties, LenProperties, ElementOfSeq
<1>2. z \in Seq(Char)
  BY <1>0
<1> HIDE DEF a, z
<1>3. \A i \in DOMAIN p : parts(p)[i] \in Seq(Char) /\ parts(a)[i] = parts(p)[i]
  BY <1>0, <1>1
<1>4. parts(a)[Len(p) + 1] = z
  BY <1>1 DEF z
<1>5. DOMAIN parts(p) = DOMAIN p /\ DOMAIN parts(a) = DOMAIN Append(p, t)
      /\ parts(p) = [i \in DOMAIN parts(p) |-> parts(p)[i]]
      /\ parts(a) = [i \in DOMAIN parts(a) |-> parts(a)[i]]
  BY DEF a
<1>6. ToPointer(p) = FlattenSeq(parts(p)) /\ ToPointer(a) = FlattenSeq(parts(a))
  BY DEF ToPointer
<1> DEFINE f == parts(p)
           g == parts(a)
<1> HIDE DEF f, g
<1>7. f \in Seq(Seq(Char)) /\ g = Append(f, z)
  <2>1. DOMAIN f = DOMAIN p /\ (\A i \in DOMAIN p : f[i] \in Seq(Char))
    BY <1>3, <1>5 DEF f
  <2>2. f = [i \in DOMAIN f |-> f[i]] /\ g = [i \in DOMAIN g |-> g[i]]
        /\ DOMAIN g = DOMAIN Append(p, t)
    BY <1>5 DEF f, g
  <2>3. (\A i \in DOMAIN p : g[i] = f[i]) /\ g[Len(p) + 1] = z
    BY <1>3, <1>4 DEF f, g
  <2> QED
    BY <1>2, <2>1, <2>2, <2>3, MapAppend
<1>8. FlattenSeq(g) = FlattenSeq(f) \o z
  BY <1>2, <1>7, FlattenAppend
<1> QED
  BY <1>6, <1>8 DEF f, g, a, z

\* One more token of a pointer is one more element of the position.
LEMMA PositionAppend ==
    ASSUME NEW t \in Seq(Char), NEW e \in Seq(Char), \A i \in DOMAIN e : e[i] # "/"
    PROVE  LET r == t \o (<<"/">> \o e)
           IN  /\ r \in Seq(Char) /\ Len(r) = Len(t) + 1 + Len(e) /\ r[Len(t) + 1] = "/"
               /\ \A i \in 1 .. Len(t) : r[i] = t[i]
               /\ \A i \in 1 .. Len(e) : r[Len(t) + 1 + i] = e[i]
               /\ Position(r) = Append(Position(t), Unescape(e))
<1> DEFINE r == t \o (<<"/">> \o e)
           n == Len(t)
           slashes(s) == {i \in DOMAIN s : s[i] = "/"}
           S == slashes(t)
           a == Ascending(S)
           m == Cardinality(S)
           b == Append(a, n + 1)
<1>1. n \in Nat /\ Len(e) \in Nat /\ DOMAIN t = 1 .. n /\ DOMAIN e = 1 .. Len(e)
  BY LenProperties
<1>2. /\ r \in Seq(Char) /\ Len(r) = n + 1 + Len(e) /\ DOMAIN r = 1 .. n + 1 + Len(e)
      /\ r[n + 1] = "/"
      /\ \A i \in 1 .. n : r[i] = t[i]
      /\ \A i \in 1 .. Len(e) : r[n + 1 + i] = e[i]
  <2> DEFINE x == <<"/">>
             y == x \o e
  <2>1. x \in Seq(Char) /\ Len(x) = 1 /\ x[1] = "/"
    BY EscapeCharactersDiffer
  <2> HIDE DEF x
  <2>2. /\ y \in Seq(Char) /\ Len(y) = Len(x) + Len(e)
        /\ \A i \in 1 .. Len(x) + Len(e) : y[i] = IF i <= Len(x) THEN x[i] ELSE e[i - Len(x)]
    <3>1. x \in Seq(Char)
      BY <2>1
    <3> QED
      BY <3>1, ConcatProperties
  <2> HIDE DEF y
  <2>3. Len(y) = 1 + Len(e) /\ y[1] = "/" /\ \A i \in 1 .. Len(e) : y[i + 1] = e[i]
    <3>1. \A i \in 1 .. Len(e) : i + 1 \in 1 .. 1 + Len(e) /\ ~(i + 1 <= 1) /\ (i + 1) - 1 = i
      BY <1>1
    <3>2. 1 \in 1 .. 1 + Len(e) /\ 1 <= 1
      BY <1>1
    <3> QED
      BY <2>1, <2>2, <3>1, <3>2
  <2>4. /\ t \o y \in Seq(Char) /\ Len(t \o y) = Len(t) + Len(y)
        /\ \A i \in 1 .. Len(t) + Len(y) : (t \o y)[i] = IF i <= Len(t) THEN t[i] ELSE y[i - Len(t)]
    <3>1. y \in Seq(Char)
      BY <2>2
    <3> QED
      BY <3>1, ConcatProperties
  <2>5. r = t \o y
    BY DEF x, y
  <2> HIDE DEF r, n
  <2>6. r \in Seq(Char) /\ Len(r) = n + 1 + Len(e) /\ DOMAIN r = 1 .. n + 1 + Len(e)
    <3>1. r \in Seq(Char) /\ Len(r) = n + 1 + Len(e)
      BY <1>1, <2>3, <2>4, <2>5 DEF n
    <3> QED
      BY <3>1, LenProperties
  <2>7. \A i \in 1 .. n + (1 + Len(e)) : r[i] = IF i <= n THEN t[i] ELSE y[i - n]
    BY <2>3, <2>4, <2>5 DEF n
  <2>8. r[n + 1] = "/"
    <3>1. n + 1 \in 1 .. n + (1 + Len(e)) /\ ~(n + 1 <= n) /\ (n + 1) - n = 1
      BY <1>1
    <3> QED
      BY <2>3, <2>7, <3>1
  <2>9. \A i \in 1 .. n : r[i] = t[i]
    <3>1. \A i \in 1 .. n : i \in 1 .. n + (1 + Len(e)) /\ i <= n
      BY <1>1
    <3> QED
      BY <2>7, <3>1
  <2>10. \A i \in 1 .. Len(e) : r[n + 1 + i] = e[i]
    <3>1. \A i \in 1 .. Len(e) : n + 1 + i \in 1 .. n + (1 + Len(e)) /\ ~(n + 1 + i <= n)
                                 /\ (n + 1 + i) - n = i + 1
      BY <1>1
    <3> QED
      BY <2>3, <2>7, <3>1
  <2> QED
    BY <2>6, <2>8, <2>9, <2>10
<1> HIDE DEF r
<1>3. S \in SUBSET Nat /\ IsFiniteSet(S) /\ \A i \in S : i <= n
  <2>1. S \in SUBSET (1 .. n) /\ IsFiniteSet(1 .. n)
    BY <1>1, FS_Interval
  <2> HIDE DEF S, n
  <2>2. IsFiniteSet(S)
    BY <2>1, FS_Subset
  <2>3. \A i \in 1 .. n : i \in Nat /\ i <= n
    BY <1>1
  <2> QED
    BY <2>1, <2>2, <2>3
<1>4. /\ m \in Nat /\ a \in [1 .. m -> S]
      /\ \A i, j \in 1 .. m : i < j => a[i] < a[j]
      /\ \A x \in S : \E i \in 1 .. m : a[i] = x
  <2> HIDE DEF S
  <2> QED
    BY <1>3, AscendingSorts
<1>5. slashes(r) = S \cup {n + 1}
  <2>1. \A i \in 1 .. n + 1 + Len(e) : i \in 1 .. n \/ i = n + 1 \/ (i - (n + 1) \in 1 .. Len(e)
                                          /\ i = n + 1 + (i - (n + 1)))
    BY <1>1
  <2>2. ASSUME NEW i \in 1 .. n + 1 + Len(e), r[i] = "/" PROVE i \in 1 .. n \/ i = n + 1
    <3>1. ASSUME i - (n + 1) \in 1 .. Len(e), i = n + 1 + (i - (n + 1)) PROVE FALSE
      <4> DEFINE j == i - (n + 1)
      <4>1. r[i] = e[j] /\ e[j] # "/"
        <5> HIDE DEF j, n
        <5>1. j \in 1 .. Len(e) /\ i = n + 1 + j
          BY <3>1 DEF j
        <5> QED
          BY <1>1, <1>2, <5>1
      <4> QED
        BY <2>2, <4>1
    <3> QED
      BY <2>1, <3>1
  <2>3. n + 1 \in DOMAIN r /\ \A i \in 1 .. n : i \in DOMAIN r
    BY <1>1, <1>2
  <2> HIDE DEF n
  <2>4. \A i : i \in slashes(r) => i \in S \cup {n + 1}
    BY <1>1, <1>2, <2>2
  <2>5. \A i : i \in S \cup {n + 1} => i \in slashes(r)
    BY <1>1, <1>2, <2>3
  <2> QED
    BY <2>4, <2>5
<1> HIDE DEF S, m, a
<1>6. a \in Seq(Nat) /\ Len(a) = m /\ DOMAIN a = 1 .. m
  <2>1. a \in [1 .. m -> Nat]
    BY <1>3, <1>4
  <2>2. a \in Seq(Nat)
    BY <1>4, <2>1, SeqDef
  <2> QED
    BY <1>4, <2>1, <2>2, LenProperties
<1>7. /\ b \in Seq(Nat) /\ Len(b) = m + 1 /\ DOMAIN b = 1 .. m + 1 /\ b[m + 1] = n + 1
      /\ \A i \in 1 .. m : b[i] = a[i]
  <2>1. n + 1 \in Nat
    BY <1>1
  <2> HIDE DEF n
  <2>2. b \in Seq(Nat) /\ Len(b) = m + 1 /\ b[m + 1] = n + 1 /\ \A i \in 1 .. m : b[i] = a[i]
    BY <1>6, <2>1, AppendProperties
  <2> QED
    BY <2>2, LenProperties
<1> HIDE DEF b, n
<1>8. Ascending(slashes(r)) = b
  <2> DEFINE R == S \cup {n + 1}
  <2>1. R \in SUBSET Nat /\ m + 1 \in Nat
    BY <1>1, <1>3, <1>4
  <2>2. IsStrictOrder(Increasing(R), R)
    BY <2>1, IncreasingIsStrictOrder
  <2>3. \A i \in 1 .. m + 1 : i \in 1 .. m \/ i = m + 1
    BY <1>4
  <2>4. b \in [1 .. m + 1 -> R]
    <3>1. \A i \in 1 .. m + 1 : b[i] \in R
      BY <1>4, <1>7, <2>3
    <3>2. b \in [1 .. m + 1 -> Nat]
      BY <1>7, LenProperties
    <3> QED
      BY <3>1, <3>2
  <2>5. \A x \in R : \E i \in 1 .. m + 1 : b[i] = x
    <3>1. ASSUME NEW x \in S PROVE \E i \in 1 .. m + 1 : b[i] = x
      <4>1. PICK i \in 1 .. m : a[i] = x
        BY <1>4
      <4>2. i \in 1 .. m + 1 /\ b[i] = x
        BY <1>4, <1>7, <4>1
      <4> QED
        BY <4>2
    <3>2. m + 1 \in 1 .. m + 1
      BY <1>4
    <3> QED
      BY <1>7, <3>1, <3>2
  <2>6. ASSUME NEW i \in 1 .. m + 1, NEW j \in 1 .. m + 1, i < j PROVE b[i] < b[j]
    <3>1. i \in 1 .. m
      BY <1>4, <2>6
    <3>2. b[i] = a[i] /\ a[i] \in S /\ a[i] <= n /\ a[i] \in Nat
      BY <1>3, <1>4, <1>7, <3>1
    <3>3. CASE j \in 1 .. m
      BY <1>4, <1>7, <2>6, <3>1, <3>3
    <3>4. CASE j = m + 1
      BY <1>1, <1>7, <3>2, <3>4
    <3> QED
      BY <2>3, <3>3, <3>4
  <2>7. \A i, j \in 1 .. m + 1 : i < j => << b[i], b[j] >> \in Increasing(R)
    <3>1. \A i \in 1 .. m + 1 : b[i] \in R
      BY <2>4
    <3> HIDE DEF R
    <3>2. \A x, y \in R : x < y => << x, y >> \in Increasing(R)
      BY DEF Increasing
    <3> QED
      BY <2>6, <3>1, <3>2
  <2> HIDE DEF R
  <2>8. InOrder(R, Increasing(R)) = b
    <3> DEFINE I == Increasing(R)
               k == m + 1
    <3> HIDE DEF I, k
    <3>1. IsStrictOrder(I, R) /\ k \in Nat /\ b \in [1 .. k -> R]
      BY <2>1, <2>2, <2>4 DEF I, k
    <3>2. (\A x \in R : \E i \in 1 .. k : b[i] = x)
          /\ \A i, j \in 1 .. k : i < j => << b[i], b[j] >> \in I
      BY <2>5, <2>7 DEF I, k
    <3>3. InOrder(R, I) = b
      BY <3>1, <3>2, InOrderIs
    <3> QED
      BY <3>3 DEF I
  <2> QED
    BY <1>5, <2>8 DEF Ascending, R
<1> DEFINE end(s, q, k) == IF k < Len(s) THEN s[k + 1] - 1 ELSE Len(q)
           part(s, q, k) == SubSeq(q, s[k] + 1, end(s, q, k))
<1>9. ASSUME NEW k \in 1 .. m
      PROVE  part(b, r, k) = part(a, t, k) /\ part(a, t, k) \in Seq(Char)
  <2>1. b[k] = a[k] /\ a[k] \in Nat /\ a[k] <= n /\ k < m + 1
    BY <1>3, <1>4, <1>7
  <2> DEFINE h == end(a, t, k)
  <2>2. h \in Nat /\ h <= n
    <3>1. CASE k < m
      <4>1. k + 1 \in 1 .. m /\ k < k + 1
        BY <1>4, <3>1
      <4>2. a[k + 1] \in S /\ a[k] < a[k + 1]
        BY <1>4, <4>1
      <4>3. a[k + 1] \in Nat /\ a[k + 1] <= n /\ a[k] < a[k + 1]
        BY <1>3, <4>2
      <4> QED
        BY <1>1, <1>6, <2>1, <3>1, <4>3
    <3>2. CASE ~(k < m)
      BY <1>1, <1>6, <3>2 DEF n
    <3> QED
      BY <3>1, <3>2
  <2>3. end(b, r, k) = h
    <3>1. CASE k < m
      <4>1. k + 1 \in 1 .. m /\ k < m + 1
        BY <1>4, <3>1
      <4> QED
        BY <1>6, <1>7, <3>1, <4>1
    <3>2. CASE ~(k < m)
      <4>1. k = m /\ k < m + 1
        BY <1>4, <3>2
      <4>2. b[k + 1] - 1 = n
        BY <1>1, <1>7, <4>1
      <4> QED
        BY <1>6, <1>7, <3>2, <4>1, <4>2 DEF n
    <3> QED
      BY <3>1, <3>2
  <2> HIDE DEF h
  <2> DEFINE l == a[k] + 1
  <2>4. l \in Nat /\ 1 <= l /\ h \in Int
    BY <2>1, <2>2
  <2>5. \A i \in l .. h : i \in 1 .. n /\ t[i] \in Char /\ r[i] \in Char /\ r[i] = t[i]
    <3>1. \A i \in l .. h : i \in 1 .. n
      BY <1>1, <2>2, <2>4
    <3>2. \A i \in 1 .. n : t[i] \in Char
      BY ElementOfSeq DEF n
    <3> QED
      BY <1>2, <3>1, <3>2
  <2> DEFINE u == SubSeq(t, l, h)
             v == SubSeq(r, l, h)
  <2> HIDE DEF l
  <2>6. /\ u \in Seq(Char) /\ Len(u) = (IF l <= h THEN h - l + 1 ELSE 0)
        /\ \A i \in 1 .. h - l + 1 : u[i] = t[l + i - 1]
    BY <2>4, <2>5, SubSeqProperties
  <2>7. /\ v \in Seq(Char) /\ Len(v) = (IF l <= h THEN h - l + 1 ELSE 0)
        /\ \A i \in 1 .. h - l + 1 : v[i] = r[l + i - 1]
    BY <2>4, <2>5, SubSeqProperties
  <2> HIDE DEF u, v
  <2>8. \A i \in 1 .. Len(u) : u[i] = v[i]
    <3>1. \A i \in 1 .. Len(u) : i \in 1 .. h - l + 1 /\ l + i - 1 \in l .. h
      BY <2>4, <2>6
    <3> QED
      BY <2>5, <2>6, <2>7, <3>1
  <2>9. u = v
    BY <2>6, <2>7, <2>8, SeqEqual
  <2> QED
    BY <2>1, <2>3, <2>6, <2>9 DEF u, v, l, h
<1>10. part(b, r, m + 1) = e
  <2> DEFINE l == n + 1 + 1
             h == n + 1 + Len(e)
             v == SubSeq(r, l, h)
  <2>1. part(b, r, m + 1) = v
    <3>1. ~(m + 1 < Len(b))
      BY <1>4, <1>7
    <3> QED
      BY <1>2, <1>7, <3>1
  <2>2. l \in Int /\ h \in Int
    BY <1>1
  <2>3. \A i \in l .. h : r[i] \in Char
    <3>1. \A i \in l .. h : i \in 1 .. Len(r)
      BY <1>1, <1>2
    <3> HIDE DEF l, h
    <3> QED
      BY <1>2, <3>1, ElementOfSeq
  <2> HIDE DEF l, h
  <2>4. /\ v \in Seq(Char) /\ Len(v) = (IF l <= h THEN h - l + 1 ELSE 0)
        /\ \A i \in 1 .. h - l + 1 : v[i] = r[l + i - 1]
    BY <2>2, <2>3, SubSeqProperties
  <2> HIDE DEF v
  <2>5. Len(v) = Len(e)
    BY <1>1, <2>4 DEF l, h
  <2>6. \A i \in 1 .. Len(v) : v[i] = e[i]
    <3>1. \A i \in 1 .. Len(e) : i \in 1 .. h - l + 1 /\ l + i - 1 = n + 1 + i
      BY <1>1 DEF l, h
    <3> QED
      BY <1>2, <2>4, <2>5, <3>1
  <2>7. v = e
    BY <2>4, <2>5, <2>6, SeqEqual
  <2> QED
    BY <2>1, <2>7
<1> DEFINE f == [k \in 1 .. m |-> Unescape(part(a, t, k))]
           g == [k \in 1 .. m + 1 |-> Unescape(part(b, r, k))]
<1>11. Position(t) = f /\ Position(r) = g
  <2>1. Position(t) = f
    BY <1>6 DEF Position, a, S
  <2>2. Position(r) = g
    BY <1>7, <1>8 DEF Position
  <2> QED
    BY <2>1, <2>2
<1>12. f \in Seq(Seq(Char)) /\ Len(f) = m
  <2>1. \A k \in 1 .. m : f[k] \in Seq(Char)
    BY <1>9, UnescapeType
  <2>2. f \in [1 .. m -> Seq(Char)]
    BY <2>1
  <2> HIDE DEF f
  <2>3. f \in Seq(Seq(Char))
    BY <1>4, <2>2, SeqDef
  <2> QED
    BY <1>4, <2>2, <2>3, LenProperties
<1>13. \A k \in 1 .. m : g[k] = f[k] /\ f[k] \in Seq(Char)
  <2>1. \A k \in 1 .. m : k \in 1 .. m + 1
    BY <1>4
  <2> QED
    BY <1>9, <2>1, UnescapeType
<1>14. g[m + 1] = Unescape(e) /\ Unescape(e) \in Seq(Char)
  <2>1. m + 1 \in 1 .. m + 1
    BY <1>4
  <2> QED
    BY <1>10, <2>1, UnescapeType
<1>15. g = Append(f, Unescape(e))
  <2> DEFINE z == Unescape(e)
  <2>1. DOMAIN f = DOMAIN a /\ DOMAIN g = DOMAIN b /\ f = [i \in DOMAIN f |-> f[i]]
        /\ g = [i \in DOMAIN g |-> g[i]]
    BY <1>6, <1>7
  <2> HIDE DEF f, g, z
  <2>2. n + 1 \in Nat /\ z \in Seq(Char)
    BY <1>1, <1>14 DEF z
  <2>3. DOMAIN g = DOMAIN Append(a, n + 1) /\ g[Len(a) + 1] = z
    BY <1>6, <1>14, <2>1 DEF b, z
  <2>4. (\A i \in DOMAIN a : f[i] \in Seq(Char)) /\ \A i \in DOMAIN a : g[i] = f[i]
    BY <1>6, <1>13
  <2>5. g = Append(f, z)
    BY <1>6, <2>1, <2>2, <2>3, <2>4, MapAppend
  <2> QED
    BY <2>5 DEF z
<1> HIDE DEF f, g
<1> QED
  BY <1>2, <1>11, <1>15 DEF n, r

LEMMA PositionEmpty == Position(<< >>) = << >>
<1> DEFINE S == {i \in DOMAIN << >> : << >>[i] = "/"}
           a == Ascending(S)
<1>1. S = {} /\ S \in SUBSET Nat /\ IsFiniteSet(S) /\ Cardinality(S) = 0
  BY FS_EmptySet
<1> HIDE DEF S
<1>2. DOMAIN a = {}
  BY <1>1, AscendingSorts
<1>3. Position(<< >>) = [k \in DOMAIN a |-> Unescape(SubSeq(<< >>, a[k] + 1,
                            IF k < Len(a) THEN a[k + 1] - 1 ELSE Len(<< >>)))]
  BY DEF Position, a, S
<1> HIDE DEF a
<1> QED
  BY <1>2, <1>3

\* The position that the pointer of a position names is the position.
LEMMA PositionOfPointer ==
    ASSUME NEW p \in Seq(Seq(Char))
    PROVE  ToPointer(p) \in Seq(Char) /\ Position(ToPointer(p)) = p
<1> DEFINE T == {q \in Seq(Seq(Char)) : ToPointer(q) \in Seq(Char) /\ Position(ToPointer(q)) = q}
<1>1. << >> \in T
  BY EmptySeq, ToPointerEmpty, PositionEmpty
<1>2. ASSUME NEW q \in Seq(Seq(Char)), NEW t \in Seq(Char), q \in T PROVE Append(q, t) \in T
  <2> DEFINE e == Escape(t)
             s == ToPointer(q)
             r == s \o (<<"/">> \o e)
  <2>1. e \in Seq(Char) /\ (\A i \in DOMAIN e : e[i] # "/") /\ Unescape(e) = t
    BY UnescapeUndoesEscape
  <2>2. s \in Seq(Char) /\ Position(s) = q
    BY <1>2
  <2>3. ToPointer(Append(q, t)) = r
    BY ToPointerAppend
  <2> HIDE DEF e, s
  <2>4. r \in Seq(Char) /\ Position(r) = Append(Position(s), Unescape(e))
    BY <2>1, <2>2, PositionAppend
  <2> HIDE DEF r
  <2> QED
    BY <2>1, <2>2, <2>3, <2>4, AppendProperties
<1> HIDE DEF T
<1>3. \A q \in Seq(Seq(Char)) : q \in T
  BY <1>1, <1>2, SequenceInduction
<1>4. p \in T
  BY <1>3
<1> QED
  BY <1>4 DEF T

\* A pointer that is accepted is cut at its last slash into one and a token.
LEMMA PointerSplits ==
    ASSUME NEW r \in Seq(Char), IsPointer(r), r # << >>
    PROVE  \E t, e \in Seq(Char) :
              /\ IsPointer(t) /\ IsEscaped(e) /\ (\A i \in DOMAIN e : e[i] # "/")
              /\ r = t \o (<<"/">> \o e) /\ Len(t) < Len(r)
<1> DEFINE n == Len(r)
           S == {i \in 1 .. n : r[i] = "/"}
           k == Max(S)
           t == SubSeq(r, 1, k - 1)
           e == SubSeq(r, k + 1, n)
<1>1. n \in Nat /\ DOMAIN r = 1 .. n /\ n # 0 /\ \A i \in 1 .. n : r[i] \in Char
  BY LenProperties, EmptySeq, ElementOfSeq
<1>2. 1 \in S /\ S \in SUBSET Nat /\ \A i \in S : i <= n
  BY <1>1 DEF IsPointer
<1>3. k \in 1 .. n /\ r[k] = "/" /\ \A i \in 1 .. n : r[i] = "/" => i <= k
  <2>1. S # {}
    BY <1>2
  <2> HIDE DEF S, n
  <2>2. k \in S /\ \A i \in S : i <= k
    BY <1>1, <1>2, <2>1, MaxOfBounded
  <2> HIDE DEF k
  <2> QED
    BY <2>2 DEF S
<1>4. \A i \in 1 .. n : r[i] = "~" => i < n /\ r[i + 1] \in {"0", "1"}
  BY <1>1 DEF IsPointer, IsEscaped
<1> HIDE DEF k, S
<1>5. /\ t \in Seq(Char) /\ Len(t) = k - 1 /\ DOMAIN t = 1 .. k - 1
      /\ \A i \in 1 .. k - 1 : t[i] = r[i]
  <2>1. \A i \in 1 .. k - 1 : r[i] \in Char
    BY <1>1, <1>3
  <2>2. k - 1 \in Int /\ k - 1 \in Nat
    BY <1>1, <1>3
  <2>3. /\ t \in Seq(Char) /\ Len(t) = (IF 1 <= k - 1 THEN (k - 1) - 1 + 1 ELSE 0)
        /\ \A i \in 1 .. (k - 1) - 1 + 1 : t[i] = r[1 + i - 1]
    BY <2>1, <2>2, SubSeqProperties
  <2> HIDE DEF t
  <2>4. Len(t) = k - 1 /\ \A i \in 1 .. k - 1 : t[i] = r[i]
    BY <2>2, <2>3
  <2> QED
    BY <2>3, <2>4, LenProperties
<1>6. /\ e \in Seq(Char) /\ Len(e) = n - k /\ DOMAIN e = 1 .. n - k
      /\ \A i \in 1 .. n - k : e[i] = r[k + i]
  <2>1. \A i \in k + 1 .. n : r[i] \in Char
    BY <1>1, <1>3
  <2>2. k + 1 \in Int /\ k \in Nat /\ k <= n
    BY <1>1, <1>3
  <2>3. /\ e \in Seq(Char) /\ Len(e) = (IF k + 1 <= n THEN n - (k + 1) + 1 ELSE 0)
        /\ \A i \in 1 .. n - (k + 1) + 1 : e[i] = r[k + 1 + i - 1]
    BY <1>1, <2>1, <2>2, SubSeqProperties
  <2> HIDE DEF e, n
  <2>4. Len(e) = n - k
    BY <1>1, <2>2, <2>3
  <2>5. \A i \in 1 .. n - k : e[i] = r[k + i]
    <3>1. \A i \in 1 .. n - k : i \in 1 .. n - (k + 1) + 1 /\ k + 1 + i - 1 = k + i
      BY <1>1, <2>2
    <3> QED
      BY <2>3, <3>1
  <2>6. DOMAIN e = 1 .. n - k
    BY <2>3, <2>4, LenProperties
  <2> QED
    BY <2>3, <2>4, <2>5, <2>6
<1> HIDE DEF t, e, n
<1>7. IsPointer(t)
  <2>1. t = << >> \/ t[1] = "/"
    <3>1. CASE k = 1
      <4>1. Len(t) = 0
        BY <1>5, <3>1
      <4> QED
        BY <1>5, <4>1, EmptySeq
    <3>2. CASE k # 1
      <4>1. 1 \in 1 .. k - 1
        BY <1>3, <3>2
      <4> QED
        BY <1>2, <1>5, <4>1 DEF S
    <3> QED
      BY <3>1, <3>2
  <2>2. ASSUME NEW i \in DOMAIN t, t[i] = "~" PROVE i < Len(t) /\ t[i + 1] \in {"0", "1"}
    <3>1. i \in 1 .. n /\ i \in 1 .. k - 1 /\ r[i] = "~"
      BY <1>1, <1>3, <1>5, <2>2
    <3>2. r[i + 1] \in {"0", "1"}
      BY <1>4, <3>1
    <3>3. i + 1 # k
      BY <1>3, <3>2, EscapeCharactersDiffer
    <3>4. i + 1 \in 1 .. k - 1 /\ i < k - 1
      BY <1>1, <1>3, <3>1, <3>3
    <3> QED
      BY <1>5, <3>2, <3>4
  <2> QED
    BY <2>1, <2>2 DEF IsPointer, IsEscaped
<1>8. IsEscaped(e)
  <2> SUFFICES ASSUME NEW i \in 1 .. n - k, e[i] = "~" PROVE i < n - k /\ e[i + 1] \in {"0", "1"}
    BY <1>6 DEF IsEscaped
  <2>1. k + i \in 1 .. n /\ r[k + i] = "~"
    BY <1>1, <1>3, <1>6
  <2>2. k + i < n /\ r[(k + i) + 1] \in {"0", "1"}
    BY <1>4, <2>1
  <2>3. i + 1 \in 1 .. n - k /\ i < n - k /\ (k + i) + 1 = k + (i + 1)
    BY <1>1, <1>3, <2>2
  <2> QED
    BY <1>6, <2>2, <2>3
<1>9. \A i \in DOMAIN e : e[i] # "/"
  <2> SUFFICES ASSUME NEW i \in 1 .. n - k, e[i] = "/" PROVE FALSE
    BY <1>6
  <2>1. k + i \in 1 .. n /\ r[k + i] = "/" /\ ~(k + i <= k)
    BY <1>1, <1>3, <1>6
  <2> QED
    BY <1>3, <2>1
<1>10. r = t \o (<<"/">> \o e)
  <2> DEFINE q == t \o (<<"/">> \o e)
  <2>1. /\ q \in Seq(Char) /\ Len(q) = Len(t) + 1 + Len(e) /\ q[Len(t) + 1] = "/"
        /\ \A i \in 1 .. Len(t) : q[i] = t[i]
        /\ \A i \in 1 .. Len(e) : q[Len(t) + 1 + i] = e[i]
    BY <1>5, <1>6, <1>9, PositionAppend
  <2> HIDE DEF q
  <2>2. Len(q) = n
    BY <1>1, <1>3, <1>5, <1>6, <2>1
  <2>3. ASSUME NEW i \in 1 .. n PROVE q[i] = r[i]
    <3>1. CASE i < k
      <4>1. i \in 1 .. k - 1
        BY <1>1, <1>3, <3>1
      <4> QED
        BY <1>5, <2>1, <4>1
    <3>2. CASE i = k
      <4>1. Len(t) + 1 = k
        BY <1>3, <1>5
      <4> QED
        BY <1>3, <2>1, <3>2, <4>1
    <3>3. CASE i > k
      <4> DEFINE j == i - k
      <4>1. j \in 1 .. n - k /\ Len(t) + 1 + j = i /\ k + j = i
        BY <1>1, <1>3, <1>5, <3>3
      <4> HIDE DEF j
      <4> QED
        BY <1>6, <2>1, <4>1
    <3> QED
      BY <1>1, <1>3, <3>1, <3>2, <3>3
  <2>4. q = r
    <3>1. \A i \in 1 .. Len(q) : q[i] = r[i]
      BY <2>2, <2>3
    <3>2. Len(q) = Len(r)
      BY <2>2 DEF n
    <3> QED
      BY <2>1, <3>1, <3>2, SeqEqual
  <2> QED
    BY <2>4 DEF q
<1>11. Len(t) < Len(r)
  BY <1>1, <1>3, <1>5 DEF n
<1> QED
  BY <1>5, <1>6, <1>7, <1>8, <1>9, <1>10, <1>11

\* The pointer of the position that a pointer names is the pointer.
LEMMA PointerOfPosition ==
    ASSUME NEW r \in Seq(Char), IsPointer(r)
    PROVE  Position(r) \in Seq(Seq(Char)) /\ ToPointer(Position(r)) = r
<1> DEFINE Good(s) == Position(s) \in Seq(Seq(Char)) /\ ToPointer(Position(s)) = s
           Lengths == {n \in Nat : \E s \in Seq(Char) : Len(s) = n /\ IsPointer(s) /\ ~Good(s)}
<1> HIDE DEF Good
<1>1. SUFFICES ASSUME ~Good(r) PROVE FALSE
  BY DEF Good
<1>2. Len(r) \in Lengths
  BY <1>1, LenProperties
<1>3. PICK n \in Lengths : \A m \in Lengths : n <= m
  BY <1>2, LeastNatural
<1>4. PICK s \in Seq(Char) : Len(s) = n /\ IsPointer(s) /\ ~Good(s)
  BY <1>3
<1>5. \A t \in Seq(Char) : IsPointer(t) /\ Len(t) < n => Good(t)
  BY <1>3, LenProperties
<1> HIDE DEF Lengths
<1>6. s # << >>
  BY <1>4, EmptySeq, PositionEmpty, ToPointerEmpty DEF Good
<1>7. PICK t, e \in Seq(Char) :
              /\ IsPointer(t) /\ IsEscaped(e) /\ (\A i \in DOMAIN e : e[i] # "/")
              /\ s = t \o (<<"/">> \o e) /\ Len(t) < Len(s)
  BY <1>4, <1>6, PointerSplits
<1>8. Position(t) \in Seq(Seq(Char)) /\ ToPointer(Position(t)) = t
  BY <1>4, <1>5, <1>7 DEF Good
<1>9. Unescape(e) \in Seq(Char) /\ Escape(Unescape(e)) = e
  BY <1>7, EscapeUndoesUnescape
<1>10. Position(s) = Append(Position(t), Unescape(e))
  BY <1>7, PositionAppend
<1>11. ToPointer(Position(s)) = s
  <2>1. ToPointer(Append(Position(t), Unescape(e)))
          = ToPointer(Position(t)) \o (<<"/">> \o Escape(Unescape(e)))
    BY <1>8, <1>9, ToPointerAppend
  <2> QED
    BY <1>7, <1>8, <1>9, <1>10, <2>1
<1> QED
  BY <1>4, <1>8, <1>9, <1>10, <1>11, AppendProperties DEF Good

\* The pointer of a longer position, element by element.
LEMMA ToPointerExtends ==
    ASSUME NEW p \in Seq(Seq(Char)), NEW t \in Seq(Char)
    PROVE  LET s == ToPointer(p)
               r == ToPointer(Append(p, t))
               e == Escape(t)
           IN  /\ s \in Seq(Char) /\ r \in Seq(Char) /\ e \in Seq(Char)
               /\ Len(r) = Len(s) + 1 + Len(e) /\ r[Len(s) + 1] = "/"
               /\ \A i \in 1 .. Len(s) : r[i] = s[i]
               /\ \A i \in 1 .. Len(e) : r[Len(s) + 1 + i] = e[i] /\ e[i] # "/"
<1> DEFINE s == ToPointer(p)
           r == ToPointer(Append(p, t))
           e == Escape(t)
           u == s \o (<<"/">> \o e)
<1>1. s \in Seq(Char)
  BY PositionOfPointer
<1>2. e \in Seq(Char) /\ \A i \in DOMAIN e : e[i] # "/"
  BY UnescapeUndoesEscape
<1>3. r = u
  BY ToPointerAppend
<1> HIDE DEF s, r, e
<1>4. /\ u \in Seq(Char) /\ Len(u) = Len(s) + 1 + Len(e) /\ u[Len(s) + 1] = "/"
      /\ \A i \in 1 .. Len(s) : u[i] = s[i]
      /\ \A i \in 1 .. Len(e) : u[Len(s) + 1 + i] = e[i]
  BY <1>1, <1>2, PositionAppend
<1>5. DOMAIN e = 1 .. Len(e)
  BY <1>2, LenProperties
<1> HIDE DEF u
<1> QED
  BY <1>1, <1>2, <1>3, <1>4, <1>5 DEF s, r, e

\* A position is strictly below another if its pointer goes on with a slash where the
\* other's ends: what Rules.Ignores tests.
LEMMA PointerBelow ==
    ASSUME NEW p \in Seq(Seq(Char)), NEW q \in Seq(Seq(Char))
    PROVE  IsPrefix(Append(ToPointer(q), "/"), ToPointer(p)) <=> IsStrictPrefix(q, p)
<1> DEFINE Below(x, y) == IsPrefix(Append(ToPointer(x), "/"), ToPointer(y))
           T == {y \in Seq(Seq(Char)) : \A x \in Seq(Seq(Char)) : Below(x, y) <=> IsStrictPrefix(x, y)}
<1>0. ASSUME NEW x \in Seq(Seq(Char)), NEW r \in Seq(Char)
      PROVE  /\ ToPointer(x) \in Seq(Char) /\ Len(ToPointer(x)) \in Nat
             /\ Append(ToPointer(x), "/") \in Seq(Char)
             /\ IsPrefix(Append(ToPointer(x), "/"), r) <=>
                   /\ Len(ToPointer(x)) + 1 <= Len(r) /\ r[Len(ToPointer(x)) + 1] = "/"
                   /\ \A i \in 1 .. Len(ToPointer(x)) : r[i] = ToPointer(x)[i]
  <2> DEFINE s == ToPointer(x)
             a == Append(s, "/")
  <2>1. s \in Seq(Char) /\ Len(s) \in Nat
    BY PositionOfPointer, LenProperties
  <2> HIDE DEF s
  <2>2. a \in Seq(Char) /\ Len(a) = Len(s) + 1 /\ a[Len(s) + 1] = "/"
        /\ \A i \in 1 .. Len(s) : a[i] = s[i]
    BY <2>1, AppendProperties, EscapeCharactersDiffer
  <2> HIDE DEF a
  <2>3. IsPrefix(a, r) <=> Len(a) <= Len(r) /\ \A i \in 1 .. Len(a) : a[i] = r[i]
    BY <2>2, PrefixMeans
  <2>4. (\A i \in 1 .. Len(a) : a[i] = r[i])
          <=> r[Len(s) + 1] = "/" /\ \A i \in 1 .. Len(s) : r[i] = s[i]
    <3>1. Len(s) + 1 \in 1 .. Len(a) /\ \A i \in 1 .. Len(s) : i \in 1 .. Len(a)
      BY <2>1, <2>2
    <3>2. \A i \in 1 .. Len(a) : i \in 1 .. Len(s) \/ i = Len(s) + 1
      BY <2>1, <2>2
    <3> QED
      BY <2>2, <3>1, <3>2
  <2> QED
    BY <2>1, <2>2, <2>3, <2>4 DEF s, a
<1>1. << >> \in T
  <2>1. << >> \in Seq(Seq(Char)) /\ << >> \in Seq(Char) /\ Len(<< >>) = 0
    BY EmptySeq
  <2>2. ASSUME NEW x \in Seq(Seq(Char)) PROVE ~Below(x, << >>) /\ ~IsStrictPrefix(x, << >>)
    <3>1. ~IsPrefix(Append(ToPointer(x), "/"), << >>)
      <4> DEFINE s == ToPointer(x)
      <4> HIDE DEF s
      <4>1. Len(s) \in Nat /\ (IsPrefix(Append(s, "/"), << >>) => Len(s) + 1 <= Len(<< >>))
        BY <1>0, <2>1 DEF s
      <4>2. ~IsPrefix(Append(s, "/"), << >>)
        BY <2>1, <4>1
      <4> QED
        BY <4>2 DEF s
    <3>2. ~IsStrictPrefix(x, << >>)
      <4> SUFFICES ASSUME IsStrictPrefix(x, << >>) PROVE FALSE
        OBVIOUS
      <4>1. Len(x) < Len(<< >>) /\ Len(x) \in Nat
        BY <2>1, StrictPrefixShorter, LenProperties
      <4> QED
        BY <2>1, <4>1
    <3> QED
      BY <3>1, <3>2, ToPointerEmpty
  <2> HIDE DEF Below
  <2> QED
    BY <2>1, <2>2
<1>2. ASSUME NEW y \in Seq(Seq(Char)), NEW t \in Seq(Char), y \in T PROVE Append(y, t) \in T
  <2> DEFINE z == Append(y, t)
             s == ToPointer(y)
             r == ToPointer(z)
             e == Escape(t)
  <2>1. /\ z \in Seq(Seq(Char)) /\ Len(z) = Len(y) + 1 /\ Len(y) \in Nat
        /\ \A i \in 1 .. Len(y) : z[i] = y[i]
    BY AppendProperties, LenProperties
  <2>2. /\ s \in Seq(Char) /\ r \in Seq(Char) /\ e \in Seq(Char)
        /\ Len(r) = Len(s) + 1 + Len(e) /\ r[Len(s) + 1] = "/"
        /\ \A i \in 1 .. Len(s) : r[i] = s[i]
        /\ \A i \in 1 .. Len(e) : r[Len(s) + 1 + i] = e[i] /\ e[i] # "/"
    BY ToPointerExtends
  <2>3. Len(s) \in Nat /\ Len(e) \in Nat
    BY <2>2, LenProperties
  <2>4. \A x \in Seq(Seq(Char)) : Below(x, y) <=> IsStrictPrefix(x, y)
    BY <1>2
  <2>5. SUFFICES ASSUME NEW x \in Seq(Seq(Char)) PROVE Below(x, z) <=> IsStrictPrefix(x, z)
    BY <2>1
  <2>6. IsStrictPrefix(x, z) <=> x = y \/ IsStrictPrefix(x, y)
    <3>1. Len(x) \in Nat
      BY LenProperties
    <3> HIDE DEF z
    <3>2. IsPrefix(y, z) /\ y # z
      <4>1. IsPrefix(y, z) <=> Len(y) <= Len(z) /\ \A i \in 1 .. Len(y) : y[i] = z[i]
        BY <2>1, PrefixMeans
      <4>2. Len(y) <= Len(z) /\ Len(y) # Len(z)
        BY <2>1
      <4> QED
        BY <2>1, <4>1, <4>2
    <3>3. ASSUME IsStrictPrefix(x, z) PROVE x = y \/ IsStrictPrefix(x, y)
      <4>1. Len(x) < Len(z) /\ IsPrefix(x, z)
        BY <2>1, <3>3, StrictPrefixShorter DEF IsStrictPrefix
      <4>2. Len(x) <= Len(y)
        BY <2>1, <3>1, <4>1
      <4>3. IsPrefix(x, y)
        BY <2>1, <3>2, <4>1, <4>2, PrefixesNest
      <4> QED
        BY <4>3 DEF IsStrictPrefix
    <3>4. ASSUME IsStrictPrefix(x, y) PROVE IsStrictPrefix(x, z)
      BY <2>1, <3>2, <3>4, StrictPrefixTransitive
    <3> QED
      BY <3>2, <3>3, <3>4 DEF IsStrictPrefix
  <2> DEFINE v == ToPointer(x)
             m == Len(v)
             IsAt(w) == /\ m + 1 <= Len(w) /\ w[m + 1] = "/" /\ \A i \in 1 .. m : w[i] = v[i]
  <2>7. /\ v \in Seq(Char) /\ m \in Nat
        /\ Below(x, z) <=> IsAt(r)
        /\ Below(x, y) <=> IsAt(s)
    <3> HIDE DEF s, r, e
    <3>1. v \in Seq(Char) /\ m \in Nat
      BY <1>0, <2>2
    <3>2. IsPrefix(Append(v, "/"), r) <=> IsAt(r)
      BY <1>0, <2>2
    <3>3. IsPrefix(Append(v, "/"), s) <=> IsAt(s)
      BY <1>0, <2>2
    <3> QED
      BY <3>1, <3>2, <3>3 DEF s, r
  <2>8. x = y <=> v = s
    <3>1. Position(v) = x /\ Position(s) = y
      BY PositionOfPointer
    <3> QED
      BY <3>1
  <2> HIDE DEF Below, z, s, r, e, v
  <2>9. ASSUME v = s PROVE IsAt(r)
    BY <2>2, <2>3, <2>9
  <2>10. ASSUME IsAt(s) PROVE IsAt(r)
    <3>1. m + 1 \in 1 .. Len(s) /\ \A i \in 1 .. m : i \in 1 .. Len(s)
      BY <2>3, <2>7, <2>10
    <3> QED
      BY <2>2, <2>3, <2>7, <2>10, <3>1
  <2>11. ASSUME IsAt(r) PROVE v = s \/ IsAt(s)
    <3>1. m + 1 <= Len(s) + 1
      <4> SUFFICES ASSUME m + 1 > Len(s) + 1 PROVE FALSE
        BY <2>3, <2>7
      <4> DEFINE j == m - Len(s)
      <4>1. j \in 1 .. Len(e) /\ Len(s) + 1 + j = m + 1
        BY <2>2, <2>3, <2>7, <2>11
      <4> HIDE DEF j
      <4>2. r[Len(s) + 1 + j] = e[j] /\ e[j] # "/"
        BY <2>2, <4>1
      <4>3. r[m + 1] = "/"
        BY <2>11
      <4> QED
        BY <4>1, <4>2, <4>3
    <3>2. CASE m = Len(s)
      <4>1. \A i \in 1 .. Len(v) : v[i] = s[i]
        BY <2>2, <2>11, <3>2
      <4> QED
        BY <2>2, <2>7, <3>2, <4>1, SeqEqual
    <3>3. CASE m # Len(s)
      <4>1. m + 1 <= Len(s) /\ m + 1 \in 1 .. Len(s) /\ \A i \in 1 .. m : i \in 1 .. Len(s)
        BY <2>3, <2>7, <3>1, <3>3
      <4> QED
        BY <2>2, <2>11, <4>1
    <3> QED
      BY <3>2, <3>3
  <2> QED
    BY <2>4, <2>6, <2>7, <2>8, <2>9, <2>10, <2>11
<1> HIDE DEF T
<1>3. \A y \in Seq(Seq(Char)) : y \in T
  BY <1>1, <1>2, SequenceInduction
<1>4. p \in T
  BY <1>3
<1> QED
  BY <1>4 DEF T

\* Ignoring by the text of pointers is ignoring by positions.
LEMMA IgnoredMeans ==
    ASSUME NEW ignored \in SUBSET Seq(Char), \A r \in ignored : IsPointer(r),
           NEW p \in Seq(Seq(Char))
    PROVE  Ignored(ignored, p) <=> \E r \in ignored : IsPrefix(Position(r), p)
<1>1. ASSUME NEW r \in ignored
      PROVE  (r = << >> \/ r = ToPointer(p) \/ IsPrefix(Append(r, "/"), ToPointer(p)))
                <=> IsPrefix(Position(r), p)
  <2> DEFINE q == Position(r)
  <2>1. q \in Seq(Seq(Char)) /\ ToPointer(q) = r
    BY PointerOfPosition
  <2>2. r = << >> <=> q = << >>
    BY <2>1, PositionEmpty, ToPointerEmpty
  <2> HIDE DEF q
  <2>3. r = ToPointer(p) <=> q = p
    <3>1. Position(ToPointer(p)) = p
      BY PositionOfPointer
    <3> QED
      BY <2>1, <3>1 DEF q
  <2>4. IsPrefix(Append(r, "/"), ToPointer(p)) <=> IsStrictPrefix(q, p)
    BY <2>1, PointerBelow
  <2>5. IsPrefix(p, p) /\ (q = << >> => IsPrefix(q, p))
    <3>1. IsPrefix(p, p)
      BY PrefixReflexive
    <3>2. IsPrefix(<< >>, p)
      <4>1. << >> \in Seq(Char) /\ Len(<< >>) = 0 /\ Len(p) \in Nat
        BY EmptySeq, LenProperties
      <4>2. Len(<< >>) <= Len(p) /\ \A i \in 1 .. Len(<< >>) : << >>[i] = p[i]
        BY <4>1
      <4> QED
        BY <4>1, <4>2, PrefixMeans
    <3> QED
      BY <3>1, <3>2
  <2>6. IsPrefix(q, p) <=> q = << >> \/ q = p \/ IsStrictPrefix(q, p)
    BY <2>5 DEF IsStrictPrefix
  <2> QED
    BY <2>2, <2>3, <2>4, <2>6 DEF q
<1> QED
  BY <1>1 DEF Ignored, IgnoresPointer

-----------------------------------------------------------------------------
(* Documents. *)

\* The prefix of a position of a document is one, and what is there has something
\* below it: it is no scalar.
LEMMA PrefixInDocument ==
    ASSUME NEW d, IsDocument(d), NEW p \in DOMAIN d, NEW X, NEW f \in Seq(X), IsPrefix(f, p)
    PROVE  f \in DOMAIN d /\ (f # p => d[f].type \in Containers)
<1>1. p \in Positions /\ Len(p) \in Nat /\ Len(f) \in Nat
  BY LenProperties DEF IsDocument, Positions
<1>2. Len(f) <= Len(p) /\ \A i \in 1 .. Len(f) : f[i] = p[i]
  BY <1>1, PrefixMeans DEF Positions
<1> DEFINE Missing == {m \in Nat : m <= Len(p) /\ SubSeq(p, 1, Len(p) - m) \notin DOMAIN d}
<1>3. ASSUME NEW n \in 0 .. Len(p)
      PROVE  SubSeq(p, 1, n) \in Positions /\ Len(SubSeq(p, 1, n)) = n
             /\ \A i \in 1 .. n : SubSeq(p, 1, n)[i] = p[i]
  <2>1. \A i \in 1 .. n : p[i] \in Seq(STRING)
    BY <1>1, <1>3, ElementOfSeq DEF Positions
  <2> QED
    BY <1>1, <1>3, <2>1, SubSeqProperties DEF Positions
<1>4. ASSUME NEW n \in 1 .. Len(p)
      PROVE  /\ Front(SubSeq(p, 1, n)) = SubSeq(p, 1, n - 1)
             /\ SubSeq(p, 1, n) # Root
  <2>1. n \in 0 .. Len(p) /\ n - 1 \in 0 .. Len(p) /\ n - 1 \in 0 .. n
    BY <1>1, <1>4
  <2> DEFINE s == SubSeq(p, 1, n)
             t == SubSeq(p, 1, n - 1)
  <2>2. s \in Positions /\ Len(s) = n /\ t \in Positions /\ Len(t) = n - 1
        /\ (\A i \in 1 .. n : s[i] = p[i]) /\ (\A i \in 1 .. n - 1 : t[i] = p[i])
    BY <1>3, <2>1
  <2> HIDE DEF s, t
  <2>3. \A i \in 1 .. n - 1 : s[i] \in Seq(STRING)
    BY <1>4, <2>2, ElementOfSeq DEF Positions
  <2>4. SubSeq(s, 1, n - 1) \in Positions /\ Len(SubSeq(s, 1, n - 1)) = n - 1
        /\ \A i \in 1 .. n - 1 : SubSeq(s, 1, n - 1)[i] = s[i]
    BY <1>4, <2>3, SubSeqProperties DEF Positions
  <2>5. SubSeq(s, 1, n - 1) = t
    <3> DEFINE u == SubSeq(s, 1, n - 1)
    <3>1. Len(u) = Len(t) /\ \A i \in 1 .. Len(u) : u[i] = t[i]
      BY <1>4, <2>2, <2>4
    <3> HIDE DEF u
    <3>2. u \in Positions
      BY <2>4 DEF u
    <3>3. u = t
      BY <2>2, <3>1, <3>2, SeqEqual DEF Positions
    <3> QED
      BY <3>3 DEF u
  <2>6. s # Root
    BY <1>4, <2>2 DEF Root
  <2> QED
    BY <2>2, <2>5, <2>6 DEF s, t, Front
<1>5. SubSeq(p, 1, Len(p)) = p
  BY <1>1, SubSeqFull DEF Positions
<1>6. Missing = {}
  <2> SUFFICES ASSUME Missing # {} PROVE FALSE
    OBVIOUS
  <2>1. PICK m \in Missing : \A k \in Missing : m <= k
    BY LeastNatural
  <2>2. m \in Nat /\ m <= Len(p) /\ SubSeq(p, 1, Len(p) - m) \notin DOMAIN d
    BY <2>1
  <2>3. m # 0
    <3>1. Len(p) - 0 = Len(p)
      BY <1>1
    <3> QED
      BY <1>5, <2>2, <3>1
  <2>4. m - 1 \in Nat /\ m - 1 \notin Missing
    BY <2>1, <2>2, <2>3
  <2> DEFINE n == Len(p) - (m - 1)
  <2>5. n \in 1 .. Len(p) /\ n - 1 = Len(p) - m
    BY <1>1, <2>2, <2>3
  <2>6. SubSeq(p, 1, n) \in DOMAIN d
    BY <1>1, <2>2, <2>4
  <2> HIDE DEF n, Missing
  <2>7. Front(SubSeq(p, 1, n)) \in DOMAIN d
    BY <1>4, <2>5, <2>6 DEF IsDocument
  <2> QED
    BY <1>4, <2>2, <2>5, <2>7
<1>7. ASSUME NEW n \in 0 .. Len(p) PROVE SubSeq(p, 1, n) \in DOMAIN d
  <2>1. Len(p) - n \in Nat /\ Len(p) - n <= Len(p) /\ Len(p) - (Len(p) - n) = n
    BY <1>1, <1>7
  <2> QED
    BY <1>6, <2>1
<1> HIDE DEF Missing
<1>8. f = SubSeq(p, 1, Len(f))
  <2>1. Len(f) \in 0 .. Len(p)
    BY <1>1, <1>2
  <2> DEFINE s == SubSeq(p, 1, Len(f))
  <2>2. s \in Positions /\ Len(s) = Len(f) /\ \A i \in 1 .. Len(f) : s[i] = p[i]
    BY <1>3, <2>1
  <2> HIDE DEF s
  <2>3. s \in Seq(X \cup Seq(STRING)) /\ f \in Seq(X \cup Seq(STRING))
    BY <2>2, SeqMonotonic DEF Positions
  <2>4. \A i \in 1 .. Len(f) : f[i] = s[i]
    BY <1>2, <2>2
  <2>5. f = s
    BY <2>2, <2>3, <2>4, SeqEqual
  <2> QED
    BY <2>5 DEF s
<1>9. ASSUME f # p PROVE d[f].type \in Containers
  <2>1. Len(f) # Len(p)
    BY <1>5, <1>8, <1>9
  <2> DEFINE n == Len(f) + 1
  <2>2. n \in 1 .. Len(p) /\ n \in 0 .. Len(p) /\ n - 1 = Len(f)
    BY <1>1, <1>2, <2>1
  <2> HIDE DEF n
  <2>3. SubSeq(p, 1, n) \in DOMAIN d /\ SubSeq(p, 1, n) # Root /\ Front(SubSeq(p, 1, n)) = f
    BY <1>4, <1>7, <1>8, <2>2
  <2> QED
    BY <2>3 DEF IsDocument
<1>10. f \in DOMAIN d
  <2>1. Len(f) \in 0 .. Len(p)
    BY <1>1, <1>2
  <2> QED
    BY <1>7, <1>8, <2>1
<1> QED
  BY <1>9, <1>10

\* Of the fields at or above a position, one has no other above it.
LEMMA OutermostField ==
    ASSUME NEW d, IsDocument(d), NEW fields \in SUBSET DOMAIN d, NEW p \in DOMAIN d,
           NEW f \in fields, IsPrefix(f, p)
    PROVE  \E g \in fields : IsPrefix(g, p) /\ \A h \in fields : ~IsStrictPrefix(h, g)
<1>1. \A q \in DOMAIN d : q \in Positions
  BY DEF IsDocument, Positions
<1>2. \A q \in DOMAIN d : Len(q) \in Nat
  BY <1>1, LenProperties DEF Positions
<1> DEFINE above == {q \in fields : IsPrefix(q, p)}
           lengths == {Len(q) : q \in above}
<1>3. PICK n \in lengths : \A m \in lengths : n <= m
  <2>1. lengths \in SUBSET Nat
    BY <1>2
  <2>2. Len(f) \in lengths
    OBVIOUS
  <2> QED
    BY <2>1, <2>2, LeastNatural
<1>4. PICK g \in above : Len(g) = n
  BY <1>3
<1>5. ASSUME NEW h \in fields, IsStrictPrefix(h, g) PROVE FALSE
  <2>1. Len(h) < Len(g)
    BY <1>1, <1>4, <1>5, StrictPrefixShorter DEF Positions
  <2>2. IsPrefix(h, p)
    BY <1>1, <1>4, <1>5, StrictPrefixTransitive DEF Positions, IsStrictPrefix
  <2>3. Len(h) \in lengths
    BY <2>2
  <2> QED
    BY <1>2, <1>3, <1>4, <2>1, <2>3
<1> QED
  BY <1>4, <1>5

\* What ReplaceJSON leaves: the positions that are not strictly below a field it
\* replaces, these fields with their text, and everything else as it was.
ReplacedFields(d, by) == {Position(r) : r \in DOMAIN by} \cap DOMAIN d

LEMMA ReplaceMeans ==
    ASSUME NEW d, NEW by
    PROVE  /\ DOMAIN Replace(d, by) =
                 {q \in DOMAIN d : \A f \in ReplacedFields(d, by) : ~IsStrictPrefix(f, q)}
           /\ \A q \in DOMAIN Replace(d, by) :
                 IF q \in ReplacedFields(d, by)
                 THEN \E r \in DOMAIN by :
                         Position(r) = q /\ Replace(d, by)[q] = [type |-> "string", value |-> by[r]]
                 ELSE Replace(d, by)[q] = d[q]
<1> DEFINE fields == ReplacedFields(d, by)
           left == {q \in DOMAIN d : \A f \in fields : ~IsStrictPrefix(f, q)}
           text(q) == by[CHOOSE r \in DOMAIN by : Position(r) = q]
<1>1. Replace(d, by) =
        [q \in left |-> IF q \in fields THEN [type |-> "string", value |-> text(q)] ELSE d[q]]
  BY DEF Replace, ReplacedFields
<1>2. ASSUME NEW q \in fields
      PROVE  \E r \in DOMAIN by : Position(r) = q /\ text(q) = by[r]
  <2>1. \E r \in DOMAIN by : Position(r) = q
    BY DEF ReplacedFields
  <2> QED
    BY <2>1
<1> HIDE DEF fields, text
<1> QED
  BY <1>1, <1>2 DEF fields

\* The result is a document again: above what is left, everything is left, and no
\* container among it was replaced.
LEMMA ReplaceIsDocument ==
    ASSUME NEW d, IsDocument(d), NEW by
    PROVE  IsDocument(Replace(d, by))
<1> DEFINE e == Replace(d, by)
           fields == ReplacedFields(d, by)
<1>1. /\ DOMAIN e = {q \in DOMAIN d : \A f \in fields : ~IsStrictPrefix(f, q)}
      /\ \A q \in DOMAIN e : q \notin fields => e[q] = d[q]
  BY ReplaceMeans
<1>2. \A q \in DOMAIN d : q \in Positions /\ Len(q) \in Nat
  BY LenProperties DEF IsDocument, Positions
<1>3. fields \subseteq DOMAIN d
  BY DEF ReplacedFields
<1> HIDE DEF e, fields
<1>4. Root \in DOMAIN e
  <2>1. Root \in DOMAIN d /\ Root \in Positions /\ Len(Root) = 0
    BY <1>2, EmptySeq DEF IsDocument, Root
  <2>2. ASSUME NEW f \in fields, IsStrictPrefix(f, Root) PROVE FALSE
    <3>1. f \in Positions /\ Len(f) \in Nat
      BY <1>2, <1>3
    <3>2. Len(f) < Len(Root)
      BY <2>1, <2>2, <3>1, StrictPrefixShorter DEF Positions
    <3> QED
      BY <2>1, <3>1, <3>2
  <2> QED
    BY <1>1, <2>1, <2>2
<1>5. ASSUME NEW q \in DOMAIN e, q # Root
      PROVE  Front(q) \in DOMAIN e /\ e[Front(q)].type \in Containers
  <2>1. q \in DOMAIN d /\ q \in Positions /\ Len(q) \in Nat
    BY <1>1, <1>2
  <2>2. Front(q) \in DOMAIN d /\ d[Front(q)].type \in Containers
    BY <1>5, <2>1 DEF IsDocument
  <2>3. IsStrictPrefix(Front(q), q)
    <3>1. Len(q) # 0
      BY <1>5, <2>1, EmptySeq DEF Positions, Root
    <3> DEFINE n == Len(q) - 1
               u == SubSeq(q, 1, n)
    <3>2. n \in Nat /\ n < Len(q) /\ Front(q) = u
      BY <2>1, <3>1 DEF Front
    <3> HIDE DEF n
    <3>3. Len(u) = n /\ \A i \in 1 .. n : u[i] = q[i]
      <4>1. \A i \in 1 .. n : q[i] \in Seq(STRING)
        BY <2>1, <3>2, ElementOfSeq DEF Positions
      <4> QED
        BY <3>2, <4>1, SubSeqProperties
    <3> HIDE DEF u
    <3>4. Front(q) \in Positions
      BY <1>2, <2>2
    <3>5. IsPrefix(Front(q), q)
      <4>1. u \in Positions /\ Len(u) <= Len(q)
        BY <2>1, <3>2, <3>3, <3>4
      <4>2. \A i \in 1 .. Len(u) : u[i] = q[i]
        BY <3>3
      <4>3. IsPrefix(u, q)
        BY <2>1, <4>1, <4>2, PrefixMeans DEF Positions
      <4> QED
        BY <3>2, <4>3
    <3>6. Front(q) # q
      BY <2>1, <3>2, <3>3
    <3> QED
      BY <3>5, <3>6 DEF IsStrictPrefix
  <2>4. Front(q) \in DOMAIN e
    <3>1. ASSUME NEW f \in fields, IsStrictPrefix(f, Front(q)) PROVE FALSE
      <4>1. f \in Positions /\ Front(q) \in Positions
        BY <1>2, <1>3, <2>2
      <4>2. IsStrictPrefix(f, q)
        BY <2>1, <2>3, <3>1, <4>1, StrictPrefixTransitive DEF Positions, IsStrictPrefix
      <4> QED
        BY <1>1, <4>2
    <3> QED
      BY <1>1, <2>2, <3>1
  <2>5. Front(q) \notin fields
    BY <1>1, <2>3
  <2> QED
    BY <1>1, <2>2, <2>4, <2>5
<1>6. DOMAIN e \subseteq Seq(Seq(STRING))
  BY <1>1 DEF IsDocument
<1> QED
  BY <1>4, <1>5, <1>6 DEF IsDocument, e

\* After Redact, what is at or below a protected field is the marker at it.
LEMMA RedactHides ==
    ASSUME NEW d, IsDocument(d), NEW X, NEW rules \in SUBSET Seq(X),
           NEW r \in rules, NEW p \in DOMAIN Redact(d, rules), IsPrefix(Position(r), p)
    PROVE  Redact(d, rules)[p] = RedactedValue /\ Position(r) = p
<1> DEFINE by == [s \in rules |-> RedactedValue.value]
           fields == ReplacedFields(d, by)
<1>1. /\ DOMAIN Redact(d, rules) =
            {q \in DOMAIN d : \A f \in fields : ~IsStrictPrefix(f, q)}
      /\ \A q \in DOMAIN Redact(d, rules) : q \in fields =>
            \E s \in rules : Redact(d, rules)[q] = [type |-> "string", value |-> by[s]]
  BY ReplaceMeans DEF Redact
<1>2. p \in DOMAIN d
  BY <1>1
<1>3. Position(r) \in Seq(Range(Position(r)))
  BY PointerNamesPosition
<1>4. Position(r) \in DOMAIN d
  BY <1>2, <1>3, PrefixInDocument
<1>5. Position(r) \in fields
  BY <1>4 DEF ReplacedFields
<1>6. Position(r) = p
  BY <1>1, <1>5 DEF IsStrictPrefix
<1> HIDE DEF fields
<1>7. PICK s \in rules : Redact(d, rules)[p] = [type |-> "string", value |-> by[s]]
  BY <1>1, <1>5, <1>6
<1>8. by[s] = RedactedValue.value
  OBVIOUS
<1> QED
  BY <1>6, <1>7, <1>8 DEF RedactedValue

-----------------------------------------------------------------------------
(* Values in place of redacted fields. *)

\* A prefix of a position is among its prefixes.
LEMMA PrefixIsAmong ==
    ASSUME NEW X, NEW p \in Seq(X), NEW Y, NEW q \in Seq(Y), IsPrefix(p, q)
    PROVE  p \in Prefixes(q)
<1>1. Len(p) \in Nat /\ Len(q) \in Nat /\ Len(p) <= Len(q)
  BY LenProperties DEF IsPrefix
<1>2. SubSeq(p, 1, Len(p)) = p
  BY SubSeqFull
<1>3. p = SubSeq(q, 1, Len(p)) /\ Len(p) \in 0 .. Len(q)
  BY <1>1, <1>2 DEF IsPrefix
<1> QED
  BY <1>3 DEF Prefixes

\* ... and what is among them is one.
LEMMA AmongIsPrefix ==
    ASSUME NEW Y, NEW q \in Seq(Y), NEW p \in Prefixes(q)
    PROVE  p \in Seq(Y) /\ IsPrefix(p, q)
<1>1. Len(q) \in Nat
  BY LenProperties
<1>2. PICK n \in 0 .. Len(q) : p = SubSeq(q, 1, n)
  BY DEF Prefixes
<1>3. \A i \in 1 .. n : q[i] \in Y
  BY <1>1, <1>2, ElementOfSeq
<1>4. p \in Seq(Y) /\ Len(p) = n /\ \A i \in 1 .. n : p[i] = q[i]
  BY <1>1, <1>2, <1>3, SubSeqProperties
<1>5. IsPrefix(p, q) <=> Len(p) <= Len(q) /\ \A i \in 1 .. Len(p) : p[i] = q[i]
  BY <1>4, PrefixMeans
<1>6. Len(p) <= Len(q) /\ \A i \in 1 .. Len(p) : p[i] = q[i]
  BY <1>1, <1>2, <1>4
<1> QED
  BY <1>4, <1>5, <1>6

\* What the rules leave of a document, and what values make of that.
HiddenDocument(d, rules) == IF rules = {} THEN d ELSE Redact(d, rules)

FilledDocument(d, by) ==
    IF Existing(d, DOMAIN by) = {} THEN d
    ELSE Replace(d, [f \in Existing(d, DOMAIN by) |-> by[f]])

\* A position is there, or is below one with the marker; what is there is what was
\* there, or the marker in place of a field.
LEMMA HiddenDocumentMeans ==
    ASSUME NEW d, IsDocument(d), NEW rules \in SUBSET Seq(STRING),
           \A r \in rules : r # << >> /\ r[1] = "/"
    PROVE  LET e == HiddenDocument(d, rules)
               fields == {Position(r) : r \in rules}
           IN  /\ IsDocument(e) /\ DOMAIN e \subseteq DOMAIN d
               /\ \A q \in DOMAIN e : \/ q \notin fields /\ e[q] = d[q]
                                      \/ q \in fields /\ q # Root /\ e[q] = RedactedValue
               /\ \A q \in DOMAIN d \ DOMAIN e :
                     \E g \in DOMAIN e : g # Root /\ IsStrictPrefix(g, q) /\ e[g] = RedactedValue
<1> DEFINE fields == {Position(r) : r \in rules}
           by == [r \in rules |-> RedactedValue.value]
           e == Redact(d, rules)
           there == ReplacedFields(d, by)
<1>1. CASE rules = {}
  BY <1>1 DEF HiddenDocument
<1>2. CASE rules # {}
  <2>1. HiddenDocument(d, rules) = e /\ IsDocument(e)
    BY <1>2, ReplaceIsDocument DEF HiddenDocument, Redact
  <2>2. DOMAIN by = rules /\ there = fields \cap DOMAIN d
    BY DEF ReplacedFields
  <2>3. /\ DOMAIN e = {q \in DOMAIN d : \A f \in there : ~IsStrictPrefix(f, q)}
        /\ \A q \in DOMAIN e :
              IF q \in there
              THEN \E r \in DOMAIN by :
                      Position(r) = q /\ e[q] = [type |-> "string", value |-> by[r]]
              ELSE e[q] = d[q]
    BY ReplaceMeans DEF Redact
  <2>4. \A r \in rules : by[r] = RedactedValue.value
    OBVIOUS
  <2>5. [type |-> "string", value |-> RedactedValue.value] = RedactedValue
    BY DEF RedactedValue
  <2>6. \A f \in fields : f # Root
    BY PointerNamesPosition
  <2> HIDE DEF by, e, there, fields
  <2>7. ASSUME NEW q \in DOMAIN e
        PROVE  \/ q \notin fields /\ e[q] = d[q]
               \/ q \in fields /\ q # Root /\ e[q] = RedactedValue
    BY <2>2, <2>3, <2>4, <2>5, <2>6
  <2>8. ASSUME NEW q \in DOMAIN d \ DOMAIN e
        PROVE  \E g \in DOMAIN e : g # Root /\ IsStrictPrefix(g, q) /\ e[g] = RedactedValue
    <3>1. PICK f \in there : IsStrictPrefix(f, q)
      BY <2>3
    <3>2. there \in SUBSET DOMAIN d /\ q \in DOMAIN d /\ IsPrefix(f, q)
      BY <2>2, <3>1 DEF IsStrictPrefix
    <3>3. PICK g \in there : IsPrefix(g, q) /\ \A h \in there : ~IsStrictPrefix(h, g)
      BY <3>2, OutermostField
    <3>4. g \in DOMAIN e
      BY <2>3, <3>2, <3>3
    <3>5. g # q
      BY <3>4
    <3>6. g \in fields
      BY <2>2
    <3> QED
      BY <2>6, <2>7, <3>3, <3>4, <3>5, <3>6 DEF IsStrictPrefix
  <2> QED
    BY <2>1, <2>3, <2>7, <2>8 DEF fields
<1> QED
  BY <1>1, <1>2

\* Filling in replaces the fields that are there.
LEMMA FilledDocumentMeans ==
    ASSUME NEW d, IsDocument(d), NEW by
    PROVE  LET u == FilledDocument(d, by)
               fields == {Position(r) : r \in DOMAIN by} \cap DOMAIN d
           IN  /\ DOMAIN u = {q \in DOMAIN d : \A f \in fields : ~IsStrictPrefix(f, q)}
               /\ \A q \in DOMAIN u :
                     IF q \in fields
                     THEN \E r \in DOMAIN by :
                             Position(r) = q /\ u[q] = [type |-> "string", value |-> by[r]]
                     ELSE u[q] = d[q]
               /\ IsDocument(u)
<1> DEFINE some == [f \in Existing(d, DOMAIN by) |-> by[f]]
           fields == {Position(r) : r \in DOMAIN by} \cap DOMAIN d
           u == Replace(d, some)
<1>1. DOMAIN some = Existing(d, DOMAIN by) /\ \A f \in DOMAIN some : some[f] = by[f] /\ f \in DOMAIN by
  BY DEF Existing
<1>2. ReplacedFields(d, some) = fields
  BY <1>1 DEF ReplacedFields, Existing
<1>3. CASE Existing(d, DOMAIN by) = {}
  <2>1. fields = {}
    BY <1>3 DEF Existing
  <2>2. FilledDocument(d, by) = d
    BY <1>3 DEF FilledDocument
  <2> QED
    BY <2>1, <2>2
<1>4. CASE Existing(d, DOMAIN by) # {}
  <2>1. FilledDocument(d, by) = u
    BY <1>4 DEF FilledDocument
  <2>2. IsDocument(u)
    BY ReplaceIsDocument
  <2>3. /\ DOMAIN u = {q \in DOMAIN d : \A f \in ReplacedFields(d, some) : ~IsStrictPrefix(f, q)}
        /\ \A q \in DOMAIN u :
              IF q \in ReplacedFields(d, some)
              THEN \E r \in DOMAIN some :
                      Position(r) = q /\ u[q] = [type |-> "string", value |-> some[r]]
              ELSE u[q] = d[q]
    BY ReplaceMeans
  <2> HIDE DEF u, some
  <2>4. \A q \in DOMAIN u :
           IF q \in fields
           THEN \E r \in DOMAIN by : Position(r) = q /\ u[q] = [type |-> "string", value |-> by[r]]
           ELSE u[q] = d[q]
    BY <1>1, <1>2, <2>3
  <2> QED
    BY <1>2, <2>1, <2>2, <2>3, <2>4
<1> QED
  BY <1>3, <1>4

-----------------------------------------------------------------------------
(* Numbers. *)

\* The first digit that is not zero, and the last.
Spans(n, lo, hi) ==
    /\ lo \in NonZero(AllDigits(n)) /\ hi \in NonZero(AllDigits(n))
    /\ \A i \in NonZero(AllDigits(n)) : i \in Int /\ lo <= i /\ i <= hi /\ AllDigits(n)[i] # 0
    /\ \A i \in lo .. hi : AllDigits(n)[i] \in Digits
                           /\ (AllDigits(n)[i] # 0 => i \in NonZero(AllDigits(n)))

\* The digits that Canonical keeps, and where they stand.
LEMMA CanonicalMeans ==
    ASSUME NEW n \in Number, NonZero(AllDigits(n)) # {}
    PROVE  /\ PointAt(n) \in Int
           /\ \E lo, hi \in Nat :
                 /\ Spans(n, lo, hi) /\ lo <= hi
                 /\ Canonical(n) = [neg |-> n.neg, digits |-> SubSeq(AllDigits(n), lo, hi),
                                    exp |-> PointAt(n) - hi]
<1> DEFINE all == AllDigits(n)
           N == NonZero(all)
           lo == Min(N)
           hi == Max(N)
           e == n.exp - Len(n.frac) + Len(all) - hi
<1>1. /\ n.int \in Seq(Digits) /\ n.frac \in Seq(Digits) /\ n.exp \in Int
      /\ Len(n.int) \in Nat /\ Len(n.frac) \in Nat
  BY LenProperties DEF Number
<1>2. all \in Seq(Digits) /\ Len(all) = Len(n.int) + Len(n.frac)
  <2> DEFINE x == n.int
             y == n.frac
  <2>1. x \in Seq(Digits) /\ y \in Seq(Digits)
    BY <1>1
  <2> HIDE DEF x, y
  <2>2. x \o y \in Seq(Digits) /\ Len(x \o y) = Len(x) + Len(y)
    BY <2>1, ConcatProperties
  <2> QED
    BY <2>2 DEF x, y, AllDigits
<1>3. Canonical(n) = [neg |-> n.neg, digits |-> SubSeq(all, lo, hi), exp |-> e]
  BY DEF Canonical, AllDigits
<1> HIDE DEF all
<1>4. DOMAIN all = 1 .. Len(all) /\ Len(all) \in Nat /\ \A i \in 1 .. Len(all) : all[i] \in Digits
  BY <1>2, LenProperties, ElementOfSeq
<1>5. N = {i \in 1 .. Len(all) : all[i] # 0}
  BY <1>4 DEF NonZero
<1>6. N \in SUBSET Nat /\ N # {} /\ \A i \in N : i <= Len(all)
  <2>1. N # {}
    BY DEF all
  <2> HIDE DEF N
  <2> QED
    BY <1>4, <1>5, <2>1
<1> HIDE DEF N
<1>7. lo \in N /\ hi \in N /\ \A i \in N : lo <= i /\ i <= hi
  BY <1>4, <1>6, MinOfNaturals, MaxOfBounded
<1> HIDE DEF lo, hi
<1>8. lo \in 1 .. Len(all) /\ hi \in 1 .. Len(all) /\ lo <= hi /\ lo \in Nat /\ hi \in Nat
  BY <1>4, <1>5, <1>7
<1>9. \A i \in lo .. hi : i \in 1 .. Len(all) /\ all[i] \in Digits
  BY <1>4, <1>8
<1>10. Spans(n, lo, hi)
  BY <1>4, <1>5, <1>7, <1>9 DEF Spans, N, all
<1>11. e = PointAt(n) - hi /\ PointAt(n) \in Int
  <2> DEFINE i == Len(n.int)
             f == Len(n.frac)
             x == n.exp
  <2>1. i \in Int /\ f \in Int /\ x \in Int /\ hi \in Int
    BY <1>1, <1>8
  <2>2. e = x - f + (i + f) - hi /\ PointAt(n) = x + i
    BY <1>2 DEF PointAt
  <2> HIDE DEF i, f, x, e
  <2> QED
    BY <2>1, <2>2
<1> QED
  BY <1>3, <1>8, <1>10, <1>11 DEF all

\* Zero has a canonical form of its own, which no other number has.
LEMMA OnlyZeroIsZero ==
    ASSUME NEW n \in Number
    PROVE  IF NonZero(AllDigits(n)) = {}
           THEN Canonical(n) = Zero /\ Value(n) = [neg |-> FALSE, places |-> {}]
           ELSE Canonical(n) # Zero /\ Value(n) # [neg |-> FALSE, places |-> {}]
<1> DEFINE all == AllDigits(n)
           N == NonZero(all)
<1>1. CASE N = {}
  <2>1. Places(n) = {}
    BY <1>1 DEF Places
  <2>2. Canonical(n) = Zero
    BY <1>1 DEF Canonical, AllDigits
  <2> QED
    BY <1>1, <2>1, <2>2 DEF Value
<1>2. CASE N # {}
  <2>1. PICK lo, hi \in Nat :
                 /\ Spans(n, lo, hi) /\ lo <= hi
                 /\ Canonical(n) = [neg |-> n.neg, digits |-> SubSeq(all, lo, hi),
                                    exp |-> PointAt(n) - hi]
    BY <1>2, CanonicalMeans
  <2>2. lo \in N /\ all[lo] # 0 /\ \A i \in lo .. hi : all[i] \in Digits
    BY <2>1 DEF Spans
  <2> DEFINE d == SubSeq(all, lo, hi)
  <2>3. d[1] = all[lo]
    <3> HIDE DEF all
    <3>1. \A k \in 1 .. hi - lo + 1 : d[k] = all[lo + k - 1]
      BY <2>2, SubSeqProperties
    <3>2. 1 \in 1 .. hi - lo + 1 /\ lo + 1 - 1 = lo
      BY <2>1
    <3> HIDE DEF d
    <3> QED
      BY <3>1, <3>2
  <2> HIDE DEF d, all, N
  <2>4. Canonical(n) # Zero
    <3>1. Canonical(n).digits[1] # 0
      BY <2>1, <2>2, <2>3 DEF d
    <3>2. Zero.digits[1] = 0
      BY DEF Zero
    <3> QED
      BY <3>1, <3>2
  <2>5. << PointAt(n) - lo, all[lo] >> \in Places(n)
    BY <2>2 DEF Places, N, all
  <2>6. Value(n).places # {}
    BY <2>5 DEF Value
  <2> QED
    BY <1>2, <2>4, <2>6 DEF N, all
<1> QED
  BY <1>1, <1>2

\* The digits and the places of two numbers: a digit stands at the same place in both,
\* and neither has one that the other lacks.
LEMMA SamePlaces ==
    ASSUME NEW m \in Number, NEW n \in Number, Places(m) \subseteq Places(n),
           NEW i \in NonZero(AllDigits(m))
    PROVE  \E j \in NonZero(AllDigits(n)) :
              PointAt(n) - j = PointAt(m) - i /\ AllDigits(n)[j] = AllDigits(m)[i]
<1>1. << PointAt(m) - i, AllDigits(m)[i] >> \in Places(n)
  BY DEF Places
<1>2. PICK j \in NonZero(AllDigits(n)) :
          << PointAt(m) - i, AllDigits(m)[i] >> = << PointAt(n) - j, AllDigits(n)[j] >>
  BY <1>1 DEF Places
<1> QED
  BY <1>2

\* From equal canonical forms to equal places, ...
LEMMA PlacesFollow ==
    ASSUME NEW m \in Number, NEW n \in Number, NEW lom \in Nat, NEW him \in Nat,
           NEW lon \in Nat, NEW hin \in Nat, Spans(m, lom, him), Spans(n, lon, hin),
           PointAt(m) \in Int, PointAt(n) \in Int,
           PointAt(m) - him = PointAt(n) - hin, him - lom = hin - lon,
           \A k \in 1 .. him - lom + 1 : AllDigits(m)[lom + k - 1] = AllDigits(n)[lon + k - 1]
    PROVE  Places(m) \subseteq Places(n)
<1> DEFINE A == AllDigits(m)
           B == AllDigits(n)
<1>1. ASSUME NEW i \in NonZero(A) PROVE << PointAt(m) - i, A[i] >> \in Places(n)
  <2> DEFINE k == i - lom + 1
             j == lon + k - 1
  <2>1. i \in Int /\ lom <= i /\ i <= him /\ A[i] # 0
    BY DEF Spans
  <2>2. k \in 1 .. him - lom + 1 /\ lom + k - 1 = i /\ j \in lon .. hin
    BY <2>1
  <2>3. PointAt(n) - j = PointAt(m) - i
    <3> DEFINE a == PointAt(m)
               b == PointAt(n)
    <3>1. a \in Int /\ b \in Int /\ a - him = b - hin
      OBVIOUS
    <3> HIDE DEF a, b
    <3>2. b - j = a - i
      BY <2>1, <3>1
    <3> QED
      BY <3>2 DEF a, b
  <2> HIDE DEF k
  <2>4. B[j] = A[i]
    BY <2>2
  <2> HIDE DEF j
  <2>5. j \in NonZero(B)
    BY <2>1, <2>2, <2>4 DEF Spans
  <2>6. << PointAt(n) - j, B[j] >> \in Places(n)
    BY <2>5 DEF Places
  <2> QED
    BY <2>3, <2>4, <2>6
<1> QED
  BY <1>1 DEF Places

\* ... and back: the ends are where the other's are, ...
LEMMA EndsFollow ==
    ASSUME NEW m \in Number, NEW n \in Number, NEW lom \in Nat, NEW him \in Nat,
           NEW lon \in Nat, NEW hin \in Nat, Spans(m, lom, him), Spans(n, lon, hin),
           PointAt(m) \in Int, PointAt(n) \in Int, Places(m) \subseteq Places(n)
    PROVE  PointAt(n) - hin <= PointAt(m) - him /\ PointAt(m) - lom <= PointAt(n) - lon
<1>1. lom \in NonZero(AllDigits(m)) /\ him \in NonZero(AllDigits(m))
      /\ \A j \in NonZero(AllDigits(n)) : j \in Int /\ lon <= j /\ j <= hin
  BY DEF Spans
<1> DEFINE a == PointAt(m)
           b == PointAt(n)
<1>2. PICK j \in NonZero(AllDigits(n)) : b - j = a - him
  BY <1>1, SamePlaces
<1>3. PICK k \in NonZero(AllDigits(n)) : b - k = a - lom
  BY <1>1, SamePlaces
<1>4. a \in Int /\ b \in Int /\ j \in Int /\ k \in Int /\ lon <= k /\ j <= hin
  BY <1>1
<1> HIDE DEF a, b
<1>5. b - hin <= a - him /\ a - lom <= b - lon
  BY <1>2, <1>3, <1>4
<1> QED
  BY <1>5 DEF a, b

\* ... and so is what lies between.
LEMMA DigitsFollow ==
    ASSUME NEW m \in Number, NEW n \in Number, Places(m) \subseteq Places(n),
           NEW lon \in Nat, NEW hin \in Nat, Spans(n, lon, hin),
           PointAt(m) \in Int, PointAt(n) \in Int,
           NEW i \in NonZero(AllDigits(m)), NEW j \in Int, PointAt(m) - i = PointAt(n) - j
    PROVE  AllDigits(n)[j] = AllDigits(m)[i] /\ j \in NonZero(AllDigits(n))
<1>1. PICK h \in NonZero(AllDigits(n)) :
          PointAt(n) - h = PointAt(m) - i /\ AllDigits(n)[h] = AllDigits(m)[i]
  BY SamePlaces
<1>2. h \in Int
  BY DEF Spans
<1>3. h = j
  <2> DEFINE b == PointAt(n)
  <2>1. b \in Int /\ b - h = b - j
    BY <1>1
  <2> HIDE DEF b
  <2> QED
    BY <1>2, <2>1
<1> QED
  BY <1>1, <1>3

\* Two spellings of a number compare equal if and only if they are the same number:
\* neither zeros on either side nor the way the exponent and the point share the
\* scale matter, and nothing else is lost.
LEMMA NumbersEqualMeans ==
    ASSUME NEW m \in Number, NEW n \in Number
    PROVE  NumbersEqual(m, n) <=> Value(m) = Value(n)
<1> DEFINE A == AllDigits(m)
           B == AllDigits(n)
<1>1. CASE NonZero(A) = {} \/ NonZero(B) = {}
  BY <1>1, OnlyZeroIsZero DEF NumbersEqual
<1>2. CASE NonZero(A) # {} /\ NonZero(B) # {}
  <2>1. PointAt(m) \in Int /\ PointAt(n) \in Int
    BY <1>2, CanonicalMeans
  <2>2. PICK lom, him \in Nat :
                 /\ Spans(m, lom, him) /\ lom <= him
                 /\ Canonical(m) = [neg |-> m.neg, digits |-> SubSeq(A, lom, him),
                                    exp |-> PointAt(m) - him]
    BY <1>2, CanonicalMeans
  <2>3. PICK lon, hin \in Nat :
                 /\ Spans(n, lon, hin) /\ lon <= hin
                 /\ Canonical(n) = [neg |-> n.neg, digits |-> SubSeq(B, lon, hin),
                                    exp |-> PointAt(n) - hin]
    BY <1>2, CanonicalMeans
  <2> DEFINE d == SubSeq(A, lom, him)
             e == SubSeq(B, lon, hin)
             a == PointAt(m) - him
             b == PointAt(n) - hin
  <2>4. /\ d \in Seq(Digits) /\ Len(d) = him - lom + 1
        /\ \A k \in 1 .. him - lom + 1 : d[k] = A[lom + k - 1]
    <3>1. \A i \in lom .. him : A[i] \in Digits
      BY <2>2 DEF Spans
    <3> HIDE DEF A
    <3> QED
      BY <2>2, <3>1, SubSeqProperties
  <2>5. /\ e \in Seq(Digits) /\ Len(e) = hin - lon + 1
        /\ \A k \in 1 .. hin - lon + 1 : e[k] = B[lon + k - 1]
    <3>1. \A i \in lon .. hin : B[i] \in Digits
      BY <2>3 DEF Spans
    <3> HIDE DEF B
    <3> QED
      BY <2>3, <3>1, SubSeqProperties
  <2>6. Canonical(m) = Canonical(n) <=> m.neg = n.neg /\ d = e /\ a = b
    <3> HIDE DEF d, e, a, b
    <3>1. Canonical(m) = [neg |-> m.neg, digits |-> d, exp |-> a]
          /\ Canonical(n) = [neg |-> n.neg, digits |-> e, exp |-> b]
      BY <2>2, <2>3 DEF d, e, a, b
    <3> QED
      BY <3>1
  <2>7. Value(m) = Value(n) <=> m.neg = n.neg /\ Places(m) = Places(n)
    <3>1. Value(m) = [neg |-> m.neg /\ NonZero(A) # {}, places |-> Places(m)]
          /\ Value(n) = [neg |-> n.neg /\ NonZero(B) # {}, places |-> Places(n)]
      BY DEF Value
    <3>2. (m.neg /\ NonZero(A) # {}) = m.neg /\ (n.neg /\ NonZero(B) # {}) = n.neg
      <4>1. m.neg \in BOOLEAN /\ n.neg \in BOOLEAN
        BY DEF Number
      <4> QED
        BY <1>2, <4>1
    <3>3. Value(m) = [neg |-> m.neg, places |-> Places(m)]
          /\ Value(n) = [neg |-> n.neg, places |-> Places(n)]
      BY <3>1, <3>2
    <3> QED
      BY <3>3
  <2>8. ASSUME d = e, a = b PROVE Places(m) = Places(n)
    <3>1. him - lom = hin - lon
      <4>1. him - lom + 1 = hin - lon + 1
        BY <2>4, <2>5, <2>8
      <4> QED
        BY <4>1
    <3>2. \A k \in 1 .. him - lom + 1 : A[lom + k - 1] = B[lon + k - 1]
      <4> HIDE DEF d, e, A, B
      <4> QED
        BY <2>4, <2>5, <2>8, <3>1
    <3>3. Places(m) \subseteq Places(n)
      BY <2>1, <2>2, <2>3, <2>8, <3>1, <3>2, PlacesFollow
    <3>4. \A k \in 1 .. hin - lon + 1 : B[lon + k - 1] = A[lom + k - 1]
      BY <3>1, <3>2
    <3>5. Places(n) \subseteq Places(m)
      BY <2>1, <2>2, <2>3, <2>8, <3>1, <3>4, PlacesFollow
    <3> QED
      BY <3>3, <3>5
  <2>9. ASSUME Places(m) = Places(n) PROVE d = e /\ a = b
    <3> DEFINE x == PointAt(m)
               y == PointAt(n)
    <3>1. /\ y - hin <= x - him /\ x - lom <= y - lon
          /\ x - him <= y - hin /\ y - lon <= x - lom
      BY <2>1, <2>2, <2>3, <2>9, EndsFollow
    <3>2. x \in Int /\ y \in Int
      BY <2>1
    <3> HIDE DEF x, y
    <3>3. x - him = y - hin /\ x - lom = y - lon /\ him - lom + 1 = hin - lon + 1
      BY <3>1, <3>2
    <3>4. ASSUME NEW k \in 1 .. him - lom + 1 PROVE A[lom + k - 1] = B[lon + k - 1]
      <4> DEFINE i == lom + k - 1
                 j == lon + k - 1
      <4>1. i \in lom .. him /\ j \in lon .. hin /\ i \in Int /\ j \in Int /\ x - i = y - j /\ y - j = x - i
        BY <3>2, <3>3
      <4> HIDE DEF i, j, A, B
      <4>2. CASE A[i] # 0
        <5>1. i \in NonZero(A)
          BY <2>2, <4>1, <4>2 DEF Spans, A
        <5>2. B[j] = A[i]
          BY <2>1, <2>3, <2>9, <4>1, <5>1, DigitsFollow DEF A, B, x, y
        <5> QED
          BY <5>2 DEF i, j
      <4>3. CASE B[j] # 0
        <5>1. j \in NonZero(B)
          BY <2>3, <4>1, <4>3 DEF Spans, B
        <5>2. A[i] = B[j]
          BY <2>1, <2>2, <2>9, <4>1, <5>1, DigitsFollow DEF A, B, x, y
        <5> QED
          BY <5>2 DEF i, j
      <4> QED
        BY <4>2, <4>3 DEF i, j
    <3>5. \A k \in 1 .. Len(d) : d[k] = e[k]
      <4> HIDE DEF d, e, A, B
      <4> QED
        BY <2>4, <2>5, <3>3, <3>4
    <3>6. Len(d) = Len(e) /\ d \in Seq(Digits) /\ e \in Seq(Digits)
      BY <2>4, <2>5, <3>3
    <3>7. d = e
      <4> HIDE DEF d, e
      <4> QED
        BY <3>5, <3>6, SeqEqual
    <3> QED
      BY <3>3, <3>7 DEF x, y
  <2>10. m = n => m.neg = n.neg /\ Places(m) = Places(n)
    OBVIOUS
  <2> HIDE DEF d, e, a, b
  <2> QED
    BY <2>6, <2>7, <2>8, <2>9, <2>10 DEF NumbersEqual
<1> QED
  BY <1>1, <1>2
=============================================================================
