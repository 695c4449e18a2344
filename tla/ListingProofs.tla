--------------------------- MODULE ListingProofs ---------------------------
(***************************************************************************)
(* Theorems about Listing, for every base and number of decimal places,    *)
(* every range of start times, every set of kinds and every table.         *)
(***************************************************************************)
EXTENDS Listing, OrderLemmas, SequenceTheorems

-----------------------------------------------------------------------------
(* Texts. *)

\* SQLite's comparison decides at the first character that differs, or by length.
LEMMA TextLessMeans ==
    ASSUME NEW a \in Seq(Nat), NEW b \in Seq(Nat)
    PROVE  TextLess(a, b) <=>
              \/ \E i \in 1 .. Len(a) : /\ i <= Len(b) /\ a[i] < b[i]
                                        /\ \A j \in 1 .. i - 1 : a[j] = b[j]
              \/ Len(a) < Len(b) /\ \A j \in 1 .. Len(a) : a[j] = b[j]
<1>1. Len(a) \in Nat /\ Len(b) \in Nat
  BY LenProperties
<1>2. \A i : i \in 1 .. Min({Len(a), Len(b)}) <=> i \in 1 .. Len(a) /\ i <= Len(b)
  <2> DEFINE m == Min({Len(a), Len(b)})
  <2>1. m = IF Len(b) <= Len(a) THEN Len(b) ELSE Len(a)
    BY <1>1, MinOfTwo
  <2> HIDE DEF m
  <2>2. \A i : i \in 1 .. m <=> i \in 1 .. Len(a) /\ i <= Len(b)
    BY <1>1, <2>1
  <2> QED
    BY <2>2 DEF m
<1>3. IsStrictPrefix(a, b) <=> Len(a) < Len(b) /\ \A j \in 1 .. Len(a) : a[j] = b[j]
  <2>1. SubSeq(a, 1, Len(a)) = a
    BY SubSeqFull
  <2>2. CASE Len(a) <= Len(b)
    <3>1. \A i \in 1 .. Len(a) : b[i] \in Nat
      BY <1>1, <2>2, ElementOfSeq
    <3>2. /\ SubSeq(b, 1, Len(a)) \in Seq(Nat)
          /\ Len(SubSeq(b, 1, Len(a))) = Len(a)
          /\ \A i \in 1 .. Len(a) : SubSeq(b, 1, Len(a))[i] = b[i]
      BY <1>1, <3>1, SubSeqProperties
    <3>3. a = SubSeq(b, 1, Len(a)) <=> \A j \in 1 .. Len(a) : a[j] = b[j]
      BY <3>2, SeqEqual
    <3>4. Len(a) = Len(b) => SubSeq(b, 1, Len(a)) = b
      BY SubSeqFull
    <3>5. Len(a) < Len(b) => a # b
      BY <1>1
    <3> QED
      BY <1>1, <2>1, <2>2, <3>3, <3>4, <3>5 DEF IsStrictPrefix, IsPrefix
  <2>3. CASE ~(Len(a) <= Len(b))
    BY <1>1, <2>3 DEF IsStrictPrefix, IsPrefix
  <2> QED
    BY <2>2, <2>3
<1> QED
  BY <1>2, <1>3 DEF TextLess

\* No text sorts before itself.
LEMMA TextLessIrreflexive ==
    ASSUME NEW a \in Seq(Nat)
    PROVE  ~TextLess(a, a)
<1>1. Len(a) \in Nat /\ \A i \in 1 .. Len(a) : a[i] \in Nat
  BY LenProperties, ElementOfSeq
<1> QED
  BY <1>1, TextLessMeans

\* Of two different texts one sorts before the other.
LEMMA TextLessTotal ==
    ASSUME NEW a \in Seq(Nat), NEW b \in Seq(Nat)
    PROVE  a = b \/ TextLess(a, b) \/ TextLess(b, a)
<1> DEFINE D == {i \in 1 .. Len(a) : i <= Len(b) /\ a[i] # b[i]}
<1>1. /\ Len(a) \in Nat /\ Len(b) \in Nat
      /\ \A i \in 1 .. Len(a) : a[i] \in Nat
      /\ \A i \in 1 .. Len(b) : b[i] \in Nat
  BY LenProperties, ElementOfSeq
<1>2. CASE D = {}
  <2>1. CASE Len(a) = Len(b)
    BY <1>1, <1>2, <2>1, SeqEqual
  <2>2. CASE Len(a) < Len(b)
    BY <1>1, <1>2, <2>2, TextLessMeans
  <2>3. CASE Len(b) < Len(a)
    <3>1. ASSUME NEW j \in 1 .. Len(b) PROVE b[j] = a[j]
      <4>1. j \in 1 .. Len(a) /\ j <= Len(b)
        BY <1>1, <2>3
      <4> QED
        BY <1>2, <4>1
    <3> QED
      BY <2>3, <3>1, TextLessMeans
  <2> QED
    BY <1>1, <2>1, <2>2, <2>3
<1>3. CASE D # {}
  <2>1. PICK i \in D : \A j \in D : i <= j
    <3>1. D \in SUBSET Nat
      BY <1>1
    <3> QED
      BY <1>3, <3>1, LeastNatural
  <2>2. ASSUME NEW j \in 1 .. i - 1 PROVE a[j] = b[j]
    <3>1. j \in 1 .. Len(a) /\ j <= Len(b) /\ ~(i <= j)
      BY <1>1
    <3> QED
      BY <2>1, <3>1
  <2>3. i \in 1 .. Len(a) /\ i \in 1 .. Len(b) /\ a[i] \in Nat /\ b[i] \in Nat /\ a[i] # b[i]
    BY <1>1
  <2>4. CASE a[i] < b[i]
    BY <2>2, <2>3, <2>4, TextLessMeans
  <2>5. CASE b[i] < a[i]
    BY <2>2, <2>3, <2>5, TextLessMeans
  <2> QED
    BY <2>3, <2>4, <2>5
<1> QED
  BY <1>2, <1>3

\* The order of texts is transitive.
LEMMA TextLessTransitive ==
    ASSUME NEW a \in Seq(Nat), NEW b \in Seq(Nat), NEW c \in Seq(Nat),
           TextLess(a, b), TextLess(b, c)
    PROVE  TextLess(a, c)
<1>1. /\ Len(a) \in Nat /\ Len(b) \in Nat /\ Len(c) \in Nat
      /\ \A i \in 1 .. Len(a) : a[i] \in Nat
      /\ \A i \in 1 .. Len(b) : b[i] \in Nat
      /\ \A i \in 1 .. Len(c) : c[i] \in Nat
  BY LenProperties, ElementOfSeq
<1>2. ASSUME NEW i \in 1 .. Len(a), i <= Len(b), a[i] < b[i],
             \A j \in 1 .. i - 1 : a[j] = b[j]
      PROVE  TextLess(a, c)
  <2>1. ASSUME NEW k \in 1 .. Len(b), k <= Len(c), b[k] < c[k],
               \A j \in 1 .. k - 1 : b[j] = c[j]
        PROVE  TextLess(a, c)
    <3>1. CASE i <= k
      <4>1. i <= Len(c) /\ i \in 1 .. Len(b) /\ i \in 1 .. Len(c)
        BY <1>1, <1>2, <2>1, <3>1
      <4>2. a[i] \in Nat /\ b[i] \in Nat /\ c[i] \in Nat
        BY <1>1, <4>1
      <4>3. a[i] < c[i]
        <5>1. CASE i = k
          BY <1>2, <2>1, <4>2, <5>1
        <5>2. CASE i # k
          <6>1. i \in 1 .. k - 1
            BY <1>1, <3>1, <5>2
          <6> QED
            BY <1>2, <2>1, <6>1
        <5> QED
          BY <5>1, <5>2
      <4>4. \A j \in 1 .. i - 1 : a[j] = c[j]
        BY <1>1, <1>2, <2>1, <3>1
      <4> QED
        BY <4>1, <4>3, <4>4, TextLessMeans
    <3>2. CASE k < i
      <4>1. k \in 1 .. Len(a) /\ k \in 1 .. i - 1
        BY <1>1, <1>2, <2>1, <3>2
      <4>2. a[k] < c[k]
        BY <1>2, <2>1, <4>1
      <4>3. \A j \in 1 .. k - 1 : j \in 1 .. i - 1
        BY <1>1, <3>2
      <4>4. \A j \in 1 .. k - 1 : a[j] = c[j]
        BY <1>2, <2>1, <4>3
      <4> QED
        BY <2>1, <4>1, <4>2, <4>4, TextLessMeans
    <3> QED
      BY <1>1, <3>1, <3>2
  <2>2. ASSUME Len(b) < Len(c), \A j \in 1 .. Len(b) : b[j] = c[j]
        PROVE  TextLess(a, c)
    <3>1. i <= Len(c) /\ a[i] < c[i] /\ \A j \in 1 .. i - 1 : a[j] = c[j]
      BY <1>1, <1>2, <2>2
    <3> QED
      BY <3>1, TextLessMeans
  <2> QED
    BY <2>1, <2>2, TextLessMeans
<1>3. ASSUME Len(a) < Len(b), \A j \in 1 .. Len(a) : a[j] = b[j]
      PROVE  TextLess(a, c)
  <2>1. ASSUME NEW k \in 1 .. Len(b), k <= Len(c), b[k] < c[k],
               \A j \in 1 .. k - 1 : b[j] = c[j]
        PROVE  TextLess(a, c)
    <3>1. CASE k <= Len(a)
      <4>1. a[k] < c[k] /\ k \in 1 .. Len(a) /\ \A j \in 1 .. k - 1 : a[j] = c[j]
        BY <1>1, <1>3, <2>1, <3>1
      <4> QED
        BY <2>1, <4>1, TextLessMeans
    <3>2. CASE Len(a) < k
      <4>1. Len(a) < Len(c) /\ \A j \in 1 .. Len(a) : a[j] = c[j]
        BY <1>1, <1>3, <2>1, <3>2
      <4> QED
        BY <4>1, TextLessMeans
    <3> QED
      BY <1>1, <3>1, <3>2
  <2>2. ASSUME Len(b) < Len(c), \A j \in 1 .. Len(b) : b[j] = c[j]
        PROVE  TextLess(a, c)
    <3>1. Len(a) < Len(c) /\ \A j \in 1 .. Len(a) : a[j] = c[j]
      BY <1>1, <1>3, <2>2
    <3> QED
      BY <3>1, TextLessMeans
  <2> QED
    BY <2>1, <2>2, TextLessMeans
<1> QED
  BY <1>2, <1>3, TextLessMeans

-----------------------------------------------------------------------------
(* Formatted times. *)

\* Trimming keeps a prefix of the places, with every digit that is not zero in it.
LEMMA TrimmedShape ==
    ASSUME NEW f \in [1 .. Places -> Digits]
    PROVE  /\ Trimmed(f) \in Seq(Digits) /\ Len(Trimmed(f)) \in 0 .. Places
           /\ \A i \in 1 .. Len(Trimmed(f)) : Trimmed(f)[i] = f[i]
           /\ \A i \in 1 .. Places : f[i] # 0 => i <= Len(Trimmed(f))
<1> DEFINE NonZero == {0} \cup {i \in 1 .. Places : f[i] # 0}
           w == Max(NonZero)
<1>1. Places \in Nat
  BY ClockAssumption
<1>2. w \in NonZero /\ \A x \in NonZero : x <= w
  <2>1. NonZero \in SUBSET Nat /\ NonZero # {} /\ \A x \in NonZero : x <= Places
    BY <1>1
  <2> HIDE DEF NonZero
  <2> QED
    BY <1>1, <2>1, MaxOfBounded
<1>3. w \in 0 .. Places
  BY <1>1, <1>2
<1>4. Trimmed(f) = SubSeq(f, 1, w)
  BY DEF Trimmed
<1> HIDE DEF w
<1>5. \A i \in 1 .. w : f[i] \in Digits
  BY <1>1, <1>3
<1>6. /\ SubSeq(f, 1, w) \in Seq(Digits) /\ Len(SubSeq(f, 1, w)) = w
      /\ \A i \in 1 .. w : SubSeq(f, 1, w)[i] = f[i]
  <2>1. /\ SubSeq(f, 1, w) \in Seq(Digits)
        /\ Len(SubSeq(f, 1, w)) = IF 1 <= w THEN w - 1 + 1 ELSE 0
        /\ \A i \in 1 .. w - 1 + 1 : SubSeq(f, 1, w)[i] = f[1 + i - 1]
    BY <1>3, <1>5, SubSeqProperties
  <2>2. w - 1 + 1 = w /\ \A i \in 1 .. w : 1 + i - 1 = i
    BY <1>3
  <2> QED
    BY <1>3, <2>1, <2>2
<1> QED
  BY <1>2, <1>3, <1>4, <1>6

\* The text of a time: its seconds, then nothing or a point and the digits that
\* are left, then Z.
LEMMA FormatShape ==
    ASSUME NEW t \in Times
    PROVE  /\ Format(t) \in Seq(Nat)
           /\ Len(Format(t)) >= 2 /\ Format(t)[1] = t.sec
           /\ Len(Trimmed(t.frac)) > 0 =>
                 /\ Len(Format(t)) = Len(Trimmed(t.frac)) + 3
                 /\ Format(t)[2] = Dot
                 /\ \A i \in 1 .. Len(Trimmed(t.frac)) : Format(t)[i + 2] = t.frac[i] + 1
<1> DEFINE f == Trimmed(t.frac)
           point == IF f = << >> THEN << >> ELSE << Dot >>
           digits == [i \in DOMAIN f |-> Digit(f[i])]
           first == << t.sec >> \o point
           second == first \o digits
<1>1. t.frac \in [1 .. Places -> Digits] /\ t.sec \in Nat /\ Base \in Nat
  BY ClockAssumption DEF Times
<1>2. /\ f \in Seq(Digits) /\ Len(f) \in Nat /\ DOMAIN f = 1 .. Len(f)
      /\ \A i \in 1 .. Len(f) : f[i] = t.frac[i] /\ f[i] \in Nat
  BY <1>1, TrimmedShape, LenProperties, ElementOfSeq DEF Digits
<1>3. Format(t) = second \o << Zulu >>
  BY DEF Format
<1> HIDE DEF f
<1>4. /\ point \in Seq(Nat)
      /\ f = << >> => point = << >> /\ Len(point) = 0
      /\ f # << >> => Len(point) = 1 /\ point[1] = Dot
  BY DEF Dot
<1>5. /\ digits \in Seq(Nat) /\ Len(digits) = Len(f)
      /\ \A i \in 1 .. Len(f) : digits[i] = t.frac[i] + 1
  <2>1. digits \in [1 .. Len(f) -> Nat] /\ \A i \in 1 .. Len(f) : digits[i] = t.frac[i] + 1
    BY <1>2 DEF Digit
  <2> HIDE DEF digits
  <2>2. digits \in Seq(Nat)
    BY <1>2, <2>1, SeqDef
  <2> QED
    BY <1>2, <2>1, <2>2, LenProperties
<1>6. f = << >> <=> Len(f) = 0
  BY <1>2, EmptySeq
<1> HIDE DEF point, digits
<1>7. /\ << t.sec >> \in Seq(Nat) /\ Len(<< t.sec >>) = 1 /\ << t.sec >>[1] = t.sec
      /\ << Zulu >> \in Seq(Nat) /\ Len(<< Zulu >>) = 1
  BY <1>1 DEF Zulu
<1>8. Len(point) \in Nat
  BY <1>4, LenProperties
<1>9. /\ first \in Seq(Nat) /\ Len(first) = 1 + Len(point)
      /\ \A i \in 1 .. 1 + Len(point) : first[i] = IF i <= 1 THEN << t.sec >>[i] ELSE point[i - 1]
  BY <1>4, <1>7, ConcatProperties
<1>10. first[1] = t.sec /\ (f # << >> => Len(first) = 2 /\ first[2] = Dot)
  BY <1>4, <1>7, <1>8, <1>9
<1> HIDE DEF first
<1>11. /\ second \in Seq(Nat) /\ Len(second) = Len(first) + Len(f)
       /\ \A i \in 1 .. Len(first) + Len(f) :
             second[i] = IF i <= Len(first) THEN first[i] ELSE digits[i - Len(first)]
  <2>0. first \in Seq(Nat) /\ digits \in Seq(Nat)
    BY <1>5, <1>9
  <2>1. /\ second \in Seq(Nat) /\ Len(second) = Len(first) + Len(digits)
        /\ \A i \in 1 .. Len(first) + Len(digits) :
              second[i] = IF i <= Len(first) THEN first[i] ELSE digits[i - Len(first)]
    BY <2>0, ConcatProperties
  <2>2. Len(digits) = Len(f)
    BY <1>5
  <2> HIDE DEF second
  <2> QED
    BY <2>1, <2>2
<1> HIDE DEF second
<1>12. /\ Format(t) \in Seq(Nat) /\ Len(Format(t)) = Len(second) + 1
       /\ \A i \in 1 .. Len(second) + 1 :
             Format(t)[i] = IF i <= Len(second) THEN second[i] ELSE << Zulu >>[i - Len(second)]
  BY <1>3, <1>7, <1>11, ConcatProperties
<1>13. Len(first) \in Nat /\ Len(first) >= 1 /\ Len(second) \in Nat /\ Len(second) >= 1
  BY <1>2, <1>8, <1>9, <1>11
<1>14. Len(Format(t)) >= 2 /\ Format(t)[1] = t.sec
  <2>1. second[1] = t.sec
    BY <1>2, <1>10, <1>11, <1>13
  <2> QED
    BY <1>12, <1>13, <2>1
<1>15. ASSUME Len(f) > 0
       PROVE  /\ Len(Format(t)) = Len(f) + 3 /\ Format(t)[2] = Dot
              /\ \A i \in 1 .. Len(f) : Format(t)[i + 2] = t.frac[i] + 1
  <2>0. f # << >>
    BY <1>2, <1>6, <1>15
  <2>1. Len(first) = 2 /\ first[2] = Dot
    BY <1>10, <2>0
  <2>1a. Len(second) = Len(f) + 2
    BY <1>2, <1>11, <2>1
  <2>2. second[2] = Dot /\ Format(t)[2] = second[2]
    BY <1>2, <1>11, <1>12, <2>1, <2>1a
  <2>3. ASSUME NEW i \in 1 .. Len(f)
        PROVE  Format(t)[i + 2] = t.frac[i] + 1
    <3>1. i + 2 \in 1 .. Len(second) /\ i + 2 \in 1 .. Len(second) + 1 /\ ~(i + 2 <= 2)
          /\ (i + 2) - 2 = i
      BY <1>2, <2>1a
    <3>2. Format(t)[i + 2] = second[i + 2]
      BY <1>12, <1>13, <3>1
    <3>3. second[i + 2] = digits[i]
      BY <1>11, <2>1, <3>1
    <3> QED
      BY <1>5, <3>2, <3>3
  <2> QED
    BY <1>2, <1>12, <2>1a, <2>2, <2>3
<1> QED
  BY <1>12, <1>14, <1>15 DEF f

-----------------------------------------------------------------------------
(* The order of the listing. *)

\* The pairs of rows of which the first is listed before the second.
Precedence == {p \in (DOMAIN rows) \X (DOMAIN rows) : ListedBefore(p[1], p[2])}

\* The rows by their fields.
LEMMA RowTypes ==
    ASSUME TypeOK
    PROVE  /\ Len(rows) \in Nat /\ DOMAIN rows = 1 .. Len(rows)
           /\ IsFiniteSet(DOMAIN rows)
           /\ \A i \in DOMAIN rows : /\ rows[i].start \in Times /\ rows[i].kind \in Kinds
                                     /\ Format(rows[i].start) \in Seq(Nat)
<1>1. Len(rows) \in Nat /\ DOMAIN rows = 1 .. Len(rows)
  BY LenProperties DEF TypeOK
<1>2. IsFiniteSet(1 .. Len(rows))
  BY <1>1, FS_Interval
<1>3. \A i \in DOMAIN rows : rows[i] \in [start : Times, kind : Kinds]
  BY <1>1, ElementOfSeq DEF TypeOK
<1>4. \A i \in DOMAIN rows : rows[i].start \in Times /\ rows[i].kind \in Kinds
  BY <1>3
<1> QED
  BY <1>1, <1>2, <1>4, FormatShape

\* ORDER BY started_at, id is a strict total order of the rows.
LEMMA PrecedenceIsStrictOrder ==
    ASSUME TypeOK
    PROVE  IsStrictOrder(Precedence, DOMAIN rows)
<1> DEFINE text(i) == Format(rows[i].start)
<1>1. \A i \in DOMAIN rows : text(i) \in Seq(Nat) /\ i \in Nat
  BY RowTypes
<1>2. \A i, j \in DOMAIN rows :
          << i, j >> \in Precedence <=> TextLess(text(i), text(j)) \/ (text(i) = text(j) /\ i < j)
  BY DEF Precedence, ListedBefore
<1> HIDE DEF text
<1>3. ASSUME NEW i \in DOMAIN rows PROVE << i, i >> \notin Precedence
  BY <1>1, <1>2, TextLessIrreflexive
<1>4. ASSUME NEW i \in DOMAIN rows, NEW j \in DOMAIN rows, NEW k \in DOMAIN rows,
             << i, j >> \in Precedence, << j, k >> \in Precedence
      PROVE  << i, k >> \in Precedence
  <2>1. TextLess(text(i), text(j)) \/ (text(i) = text(j) /\ i < j)
    BY <1>2, <1>4
  <2>2. TextLess(text(j), text(k)) \/ (text(j) = text(k) /\ j < k)
    BY <1>2, <1>4
  <2>3. TextLess(text(i), text(j)) /\ TextLess(text(j), text(k)) => TextLess(text(i), text(k))
    BY <1>1, TextLessTransitive
  <2>4. i < j /\ j < k => i < k
    BY <1>1
  <2>5. TextLess(text(i), text(k)) \/ (text(i) = text(k) /\ i < k)
    BY <2>1, <2>2, <2>3, <2>4
  <2> QED
    BY <1>2, <2>5
<1>5. ASSUME NEW i \in DOMAIN rows, NEW j \in DOMAIN rows
      PROVE  i = j \/ << i, j >> \in Precedence \/ << j, i >> \in Precedence
  <2>1. text(i) = text(j) \/ TextLess(text(i), text(j)) \/ TextLess(text(j), text(i))
    BY <1>1, TextLessTotal
  <2>2. i = j \/ i < j \/ j < i
    BY <1>1
  <2> QED
    BY <1>2, <2>1, <2>2
<1> QED
  BY <1>3, <1>4, <1>5 DEF IsStrictOrder

\* Ordered lists every one of the given rows once, each before those that follow it
\* in the order of the listing: the sequence it chooses exists.
LEMMA OrderedSorts ==
    ASSUME TypeOK, NEW ids \in SUBSET (DOMAIN rows)
    PROVE  /\ Ordered(ids) \in [1 .. Cardinality(ids) -> ids]
           /\ \A i, j \in DOMAIN Ordered(ids) :
                 i < j => ListedBefore(Ordered(ids)[i], Ordered(ids)[j])
<1>1. IsFiniteSet(ids)
  BY RowTypes, FS_Subset
<1>2. IsStrictOrder(Precedence, ids)
  BY PrecedenceIsStrictOrder, StrictOrderOfSubset
<1>3. PICK s : IsSorting(s, ids, Precedence)
  BY <1>1, <1>2, SortingExists
<1>4. /\ s \in [1 .. Cardinality(ids) -> ids]
      /\ \A i, j \in DOMAIN s : i < j => ListedBefore(s[i], s[j])
  <2>1. \A i, j \in DOMAIN s : i < j => << s[i], s[j] >> \in Precedence
    BY <1>3 DEF IsSorting
  <2>2. \A x, y : << x, y >> \in Precedence => ListedBefore(x, y)
    BY DEF Precedence
  <2> QED
    BY <1>3, <2>1, <2>2 DEF IsSorting
<1> QED
  BY <1>4 DEF Ordered

-----------------------------------------------------------------------------
(* The inductive invariant. *)

\* A listing of some of the rows is a sequence of IDs.
LEMMA OrderedType ==
    ASSUME TypeOK, NEW ids \in SUBSET (DOMAIN rows)
    PROVE  Ordered(ids) \in Seq(1 .. Len(rows))
<1>1. Ordered(ids) \in [1 .. Cardinality(ids) -> ids]
  BY OrderedSorts
<1>2. Cardinality(ids) \in Nat
  BY RowTypes, FS_Subset, FS_CardinalityType
<1>3. Ordered(ids) \in [1 .. Cardinality(ids) -> 1 .. Len(rows)]
  BY <1>1, RowTypes
<1> QED
  BY <1>2, <1>3, SeqDef

\* Nothing has been added and nothing asked.
LEMMA IInvInit == Init => IInv
<1> SUFFICES ASSUME Init PROVE IInv
  OBVIOUS
<1>1. rows = << >> /\ Len(rows) = 0 /\ listed.filter = AnyKind /\ listed.ids = << >>
      /\ listed = [filter |-> AnyKind, ids |-> << >>]
  BY DEF Init
<1>2. TypeOK
  <2>1. rows \in Seq([start : Times, kind : Kinds]) /\ << >> \in Seq(1 .. Len(rows))
    BY <1>1, EmptySeq
  <2> QED
    BY <1>1, <2>1 DEF TypeOK, Filters
<1>3. AnswerInv
  <2>1. AnswerAt(0) = {}
    BY DEF AnswerAt
  <2>2. Cardinality(AnswerAt(0)) = 0
    BY <2>1, FS_EmptySet
  <2>3. listed.ids \in [1 .. Cardinality(AnswerAt(0)) -> AnswerAt(0)]
        /\ DOMAIN listed.ids = {}
    BY <1>1, <2>1, <2>2
  <2>4. 0 \in 0 .. Len(rows)
    BY <1>1
  <2> QED
    BY <2>3, <2>4 DEF AnswerInv
<1> QED
  BY <1>2, <1>3 DEF IInv

\* A new row changes neither the rows before it nor how they are ordered.
LEMMA AddKeepsIInv == IInv /\ Add => IInv'
<1> SUFFICES ASSUME IInv, Add PROVE IInv'
  OBVIOUS
<1>1. TypeOK /\ AnswerInv
  BY DEF IInv
<1>2. PICK r \in [start : Times, kind : Kinds] : rows' = Append(rows, r) /\ listed' = listed
  <2>1. PICK t \in Times, k \in Kinds : rows' = Append(rows, [start |-> t, kind |-> k])
    BY DEF Add
  <2>2. [start |-> t, kind |-> k] \in [start : Times, kind : Kinds]
    OBVIOUS
  <2> QED
    BY <2>1, <2>2 DEF Add
<1>3. /\ rows' \in Seq([start : Times, kind : Kinds]) /\ Len(rows') = Len(rows) + 1
      /\ \A i \in 1 .. Len(rows) : rows'[i] = rows[i]
  BY <1>1, <1>2, AppendProperties DEF TypeOK
<1>4. Len(rows) \in Nat
  BY <1>1, RowTypes
<1>5. TypeOK'
  <2>1. listed \in [filter : Filters, ids : Seq(1 .. Len(rows))]
    BY <1>1 DEF TypeOK
  <2>2. listed.ids \in Seq(1 .. Len(rows)) /\ listed.filter \in Filters
        /\ listed = [filter |-> listed.filter, ids |-> listed.ids]
    BY <2>1
  <2>3. 1 .. Len(rows) \subseteq 1 .. Len(rows')
    BY <1>3, <1>4
  <2>4. listed.ids \in Seq(1 .. Len(rows'))
    BY <2>2, <2>3, SeqMonotonic
  <2>5. listed' \in [filter : Filters, ids : Seq(1 .. Len(rows'))]
    BY <1>2, <2>2, <2>4
  <2> QED
    BY <1>3, <2>5 DEF TypeOK
<1>6. AnswerInv'
  <2>1. PICK k \in 0 .. Len(rows) :
            /\ listed.ids \in [1 .. Cardinality(AnswerAt(k)) -> AnswerAt(k)]
            /\ \A i, j \in DOMAIN listed.ids :
                  i < j => ListedBefore(listed.ids[i], listed.ids[j])
    BY <1>1 DEF AnswerInv
  <2>2. \A i \in 1 .. k : rows'[i] = rows[i]
    BY <1>3, <1>4
  <2>3. AnswerAt(k)' = AnswerAt(k)
    BY <1>2, <2>2 DEF AnswerAt, Matches
  <2>4. \A i, j \in AnswerAt(k) : ListedBefore(i, j)' <=> ListedBefore(i, j)
    BY <2>2 DEF ListedBefore, AnswerAt
  <2>5. k \in 0 .. Len(rows')
    BY <1>3, <1>4
  <2>6. \A i \in DOMAIN listed.ids : listed.ids[i] \in AnswerAt(k)
    BY <2>1
  <2>7. \A i, j \in DOMAIN listed.ids : i < j => ListedBefore(listed.ids[i], listed.ids[j])'
    BY <1>2, <2>1, <2>4, <2>6 DEF ListedBefore
  <2>8. listed.ids' \in [1 .. Cardinality(AnswerAt(k)') -> AnswerAt(k)']
    BY <1>2, <2>1, <2>3
  <2> QED
    BY <1>2, <2>5, <2>7, <2>8 DEF AnswerInv
<1> QED
  BY <1>5, <1>6 DEF IInv

\* An answer is the listing of the table as it is.
LEMMA AskKeepsIInv == IInv /\ Ask => IInv'
<1> SUFFICES ASSUME IInv, Ask PROVE IInv'
  OBVIOUS
<1>1. TypeOK
  BY DEF IInv
<1>2. PICK f \in Filters : listed' = [filter |-> f, ids |-> Ordered(Matching(f))]
  BY DEF Ask, List
<1>3. rows' = rows
  BY DEF Ask
<1>4. Matching(f) \in SUBSET (DOMAIN rows)
  BY DEF Matching
<1>5. listed'.filter = f /\ listed'.ids = Ordered(Matching(f))
  BY <1>2
<1>6. TypeOK'
  <2>1. Ordered(Matching(f)) \in Seq(1 .. Len(rows))
    BY <1>1, <1>4, OrderedType
  <2> QED
    BY <1>1, <1>2, <1>3, <2>1 DEF TypeOK
<1>7. AnswerInv'
  <2>1. Len(rows) \in 0 .. Len(rows)
    BY <1>1, RowTypes
  <2>2. AnswerAt(Len(rows))' = Matching(f)
    BY <1>1, <1>3, <1>5, RowTypes DEF AnswerAt, Matching
  <2>3. /\ listed'.ids \in [1 .. Cardinality(Matching(f)) -> Matching(f)]
        /\ \A i, j \in DOMAIN listed'.ids : i < j => ListedBefore(listed'.ids[i], listed'.ids[j])
    BY <1>1, <1>4, <1>5, OrderedSorts
  <2>4. \A i, j : ListedBefore(i, j)' <=> ListedBefore(i, j)
    BY <1>3 DEF ListedBefore
  <2> QED
    BY <1>3, <2>1, <2>2, <2>3, <2>4 DEF AnswerInv
<1> QED
  BY <1>6, <1>7 DEF IInv

\* Whatever is added and asked, in whatever order, the last answer is the listing of
\* the table as it was at some time.
THEOREM InductiveInvariant == Spec => []IInv
<1>1. Init => IInv
  BY IInvInit
<1>2. IInv /\ [Next]_vars => IInv'
  <2>1. IInv /\ UNCHANGED vars => IInv'
    <3> SUFFICES ASSUME IInv, rows' = rows, listed' = listed PROVE IInv'
      BY DEF vars
    <3> QED
      BY DEF IInv, TypeOK, AnswerInv, AnswerAt, Matches, ListedBefore
  <2> QED
    BY <2>1, AddKeepsIInv, AskKeepsIInv DEF Next
<1> QED
  BY <1>1, <1>2, PTL DEF Spec

\* The variables keep to their types: List returns IDs of rows of the table.
THEOREM TypeCorrect == Spec => []TypeOK
<1>1. IInv => TypeOK
  BY DEF IInv
<1> QED
  BY <1>1, InductiveInvariant, PTL

-----------------------------------------------------------------------------
(* What a listing promises. *)

\* Of two rows of which the first is listed before the second, the first did not
\* start in a later second, nor, within one second, at a later fraction that is
\* written as wide; if they began together the first has the smaller ID.
LEMMA ListedBeforeMeans ==
    ASSUME NEW s \in Times, NEW t \in Times, NEW a \in Nat, NEW b \in Nat,
           TextLess(Format(s), Format(t)) \/ (Format(s) = Format(t) /\ a < b)
    PROVE  /\ s.sec <= t.sec
           /\ s.sec = t.sec /\ SameWidth(s.frac, t.frac) => ~EarlierFraction(t.frac, s.frac)
           /\ s = t => a < b
<1>1. /\ Format(s) \in Seq(Nat) /\ Format(t) \in Seq(Nat)
      /\ Format(s)[1] = s.sec /\ Format(t)[1] = t.sec
      /\ Len(Format(s)) >= 2 /\ Len(Format(t)) >= 2
      /\ Len(Format(s)) \in Nat /\ Len(Format(t)) \in Nat
      /\ s.sec \in Nat /\ t.sec \in Nat
      /\ s.frac \in [1 .. Places -> Digits] /\ t.frac \in [1 .. Places -> Digits]
  BY FormatShape, LenProperties DEF Times
<1>2. ~TextLess(Format(t), Format(s))
  <2> SUFFICES ASSUME TextLess(Format(t), Format(s)) PROVE FALSE
    OBVIOUS
  <2>1. TextLess(Format(t), Format(t))
    BY <1>1, TextLessTransitive
  <2> QED
    BY <1>1, <2>1, TextLessIrreflexive
<1>3. s.sec <= t.sec
  <2> SUFFICES ASSUME t.sec < s.sec PROVE FALSE
    BY <1>1
  <2>1. /\ 1 \in 1 .. Len(Format(t)) /\ 1 <= Len(Format(s))
        /\ Format(t)[1] < Format(s)[1]
        /\ \A j \in 1 .. 1 - 1 : Format(t)[j] = Format(s)[j]
    BY <1>1
  <2>2. TextLess(Format(t), Format(s))
    BY <1>1, <2>1, TextLessMeans
  <2> QED
    BY <1>2, <2>2
<1>4. ASSUME s.sec = t.sec, SameWidth(s.frac, t.frac), EarlierFraction(t.frac, s.frac)
      PROVE  FALSE
  <2> DEFINE w == Len(Trimmed(s.frac))
  <2>1. PICK i \in 1 .. Places : /\ t.frac[i] < s.frac[i]
                                 /\ \A j \in 1 .. i - 1 : t.frac[j] = s.frac[j]
    BY <1>4 DEF EarlierFraction
  <2>2. Places \in Nat /\ t.frac[i] \in Nat /\ s.frac[i] \in Nat
    BY <1>1, ClockAssumption DEF Digits
  <2>3. w \in 0 .. Places /\ Len(Trimmed(t.frac)) = w /\ i <= w
    <3>1. s.frac[i] # 0
      BY <2>1, <2>2
    <3> QED
      BY <1>1, <1>4, <3>1, TrimmedShape DEF SameWidth
  <2> HIDE DEF w
  <2>4. w > 0 /\ i \in 1 .. w
    BY <2>2, <2>3
  <2>5. /\ Len(Format(s)) = w + 3 /\ Format(s)[2] = Dot
        /\ \A j \in 1 .. w : Format(s)[j + 2] = s.frac[j] + 1
    BY <2>4, FormatShape DEF w
  <2>6. /\ Len(Format(t)) = w + 3 /\ Format(t)[2] = Dot
        /\ \A j \in 1 .. w : Format(t)[j + 2] = t.frac[j] + 1
    BY <2>3, <2>4, FormatShape
  <2>7. /\ i + 2 \in 1 .. Len(Format(t)) /\ i + 2 <= Len(Format(s))
        /\ Format(t)[i + 2] < Format(s)[i + 2]
    <3>1. Format(s)[i + 2] = s.frac[i] + 1 /\ Format(t)[i + 2] = t.frac[i] + 1
      BY <2>4, <2>5, <2>6
    <3>2. i \in Nat /\ w \in Nat /\ i <= w
      BY <2>2, <2>3
    <3> QED
      BY <2>1, <2>2, <2>5, <2>6, <3>1, <3>2
  <2>8. ASSUME NEW j \in 1 .. (i + 2) - 1
        PROVE  Format(t)[j] = Format(s)[j]
    <3>1. CASE j = 1
      BY <1>1, <1>4, <3>1
    <3>2. CASE j = 2
      BY <2>5, <2>6, <3>2
    <3>3. CASE j > 2
      <4>1. j - 2 \in 1 .. w /\ j - 2 \in 1 .. i - 1 /\ (j - 2) + 2 = j
        BY <2>2, <2>3, <2>4, <3>3
      <4>2. Format(t)[(j - 2) + 2] = t.frac[j - 2] + 1 /\ Format(s)[(j - 2) + 2] = s.frac[j - 2] + 1
        BY <2>5, <2>6, <4>1
      <4> QED
        BY <2>1, <4>1, <4>2
    <3> QED
      BY <2>2, <3>1, <3>2, <3>3
  <2>9. TextLess(Format(t), Format(s))
    BY <1>1, <2>7, <2>8, TextLessMeans
  <2> QED
    BY <1>2, <2>9
<1>5. s = t => a < b
  BY <1>1, TextLessIrreflexive
<1> QED
  BY <1>3, <1>4, <1>5

\* In every answer of List seconds never go backwards, within one second fractions
\* of the same written width do not, and exchanges that began together are in the
\* order of their IDs, although SQLite compares start times as text.
THEOREM AnswersAreInOrder == Spec => []ListedInOrder
<1>1. IInv => ListedInOrder
  <2> SUFFICES ASSUME IInv, NEW i \in DOMAIN listed.ids, NEW j \in DOMAIN listed.ids, i < j
               PROVE  LET s == StartOf(i) t == StartOf(j)
                      IN  /\ s.sec <= t.sec
                          /\ s.sec = t.sec /\ SameWidth(s.frac, t.frac) =>
                                ~EarlierFraction(t.frac, s.frac)
                          /\ s = t => listed.ids[i] < listed.ids[j]
    BY DEF ListedInOrder
  <2>1. TypeOK /\ AnswerInv
    BY DEF IInv
  <2>2. ListedBefore(listed.ids[i], listed.ids[j])
    BY <2>1 DEF AnswerInv
  <2>3. listed.ids[i] \in DOMAIN rows /\ listed.ids[j] \in DOMAIN rows
    <3>1. listed.ids \in Seq(1 .. Len(rows))
      BY <2>1 DEF TypeOK
    <3> QED
      BY <2>1, <3>1, RowTypes, LenProperties, ElementOfSeq
  <2>4. /\ StartOf(i) \in Times /\ StartOf(j) \in Times
        /\ listed.ids[i] \in Nat /\ listed.ids[j] \in Nat
    BY <2>1, <2>3, RowTypes DEF StartOf
  <2>5. \/ TextLess(Format(StartOf(i)), Format(StartOf(j)))
        \/ Format(StartOf(i)) = Format(StartOf(j)) /\ listed.ids[i] < listed.ids[j]
    BY <2>2 DEF ListedBefore, StartOf
  <2> QED
    BY <2>4, <2>5, ListedBeforeMeans
<1> QED
  BY <1>1, InductiveInvariant, PTL

\* Asking again with the same filter returns what was returned before, in the same
\* order, with new exchanges in between: the rows whose replacements replay checked
\* are among those it reads afterwards.
THEOREM ListingsGrow == Spec => ListingGrows
<1>1. ASSUME IInv, Next, listed'.filter = listed.filter
      PROVE  IsWithin(listed.ids, listed'.ids)
  <2>1. CASE Add
    <3>1. listed' = listed
      BY <2>1 DEF Add
    <3>2. [i \in DOMAIN listed.ids |-> i] \in [DOMAIN listed.ids -> DOMAIN listed'.ids]
      BY <3>1
    <3> QED
      BY <3>1, <3>2 DEF IsWithin
  <2>2. CASE Ask
    <3>1. TypeOK /\ AnswerInv
      BY <1>1 DEF IInv
    <3>2. listed'.ids = Ordered(Matching(listed.filter))
      <4>1. PICK f \in Filters : listed' = [filter |-> f, ids |-> Ordered(Matching(f))]
        BY <2>2 DEF Ask, List
      <4> QED
        BY <1>1, <4>1
    <3>3. PICK k \in 0 .. Len(rows) :
              /\ listed.ids \in [1 .. Cardinality(AnswerAt(k)) -> AnswerAt(k)]
              /\ \A i, j \in DOMAIN listed.ids :
                    i < j => ListedBefore(listed.ids[i], listed.ids[j])
      BY <3>1 DEF AnswerInv
    <3>4. /\ AnswerAt(k) \in SUBSET Matching(listed.filter)
          /\ Matching(listed.filter) \in SUBSET (DOMAIN rows)
      BY <3>1, RowTypes DEF AnswerAt, Matching
    <3>5. IsFiniteSet(Matching(listed.filter))
          /\ IsStrictOrder(Precedence, Matching(listed.filter))
      BY <3>1, <3>4, RowTypes, FS_Subset, PrecedenceIsStrictOrder, StrictOrderOfSubset
    <3>6. \A x, y \in DOMAIN rows : ListedBefore(x, y) => << x, y >> \in Precedence
      BY DEF Precedence
    <3>7. IsSorting(listed.ids, AnswerAt(k), Precedence)
      <4>1. \A i \in DOMAIN listed.ids : listed.ids[i] \in DOMAIN rows
        BY <3>3, <3>4
      <4> QED
        BY <3>3, <3>6, <4>1 DEF IsSorting
    <3>8. IsSorting(listed'.ids, Matching(listed.filter), Precedence)
      <4>1. /\ listed'.ids \in [1 .. Cardinality(Matching(listed.filter)) -> Matching(listed.filter)]
            /\ \A i, j \in DOMAIN listed'.ids :
                  i < j => ListedBefore(listed'.ids[i], listed'.ids[j])
        BY <3>1, <3>2, <3>4, OrderedSorts
      <4>2. \A i \in DOMAIN listed'.ids : listed'.ids[i] \in DOMAIN rows
        BY <3>4, <4>1
      <4> QED
        BY <3>6, <4>1, <4>2 DEF IsSorting
    <3> QED
      BY <3>4, <3>5, <3>7, <3>8, SortingOfSubset
  <2> QED
    BY <1>1, <2>1, <2>2 DEF Next
<1>2. IInv /\ [Next]_vars =>
          [listed'.filter = listed.filter =>
              \E at \in [DOMAIN listed.ids -> DOMAIN listed'.ids] :
                 /\ \A i, j \in DOMAIN at : i < j => at[i] < at[j]
                 /\ \A i \in DOMAIN at : listed.ids[i] = listed'.ids[at[i]]]_vars
  BY <1>1 DEF IsWithin
<1> QED
  BY <1>2, InductiveInvariant, PTL DEF Spec, ListingGrows
=============================================================================
