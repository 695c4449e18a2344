----------------------- MODULE RequestRedactionProofs -----------------------
(***************************************************************************)
(* Proofs about RequestRedaction: any queries, forms and documents of any  *)
(* size, any headers, rules, runtime values and overrides that             *)
(* CasesAssumption allows.                                                 *)
(***************************************************************************)
EXTENDS RequestRedaction, JSONDocumentProofs

-----------------------------------------------------------------------------
(* Queries and forms. *)

\* The values of a key are those of its pairs.
LEMMA ValuesMeans ==
    ASSUME NEW text \in RawTexts, NEW key
    PROVE  /\ Values(text, key) \in Seq(AnyText)
           /\ \A j \in DOMAIN Values(text, key) :
                 \E i \in DOMAIN text : text[i].key = key /\ text[i].value = Values(text, key)[j]
           /\ \A i \in DOMAIN text : text[i].key = key =>
                 \E j \in DOMAIN Values(text, key) : text[i].value = Values(text, key)[j]
<1> DEFINE own == {i \in DOMAIN text : text[i].key = key}
           s == Ascending(own)
           n == Cardinality(own)
<1>1. /\ Len(text) \in Nat /\ DOMAIN text = 1 .. Len(text)
      /\ \A i \in DOMAIN text : text[i] \in [key : Range(KeyOrder), value : AnyText, spelling : Spellings]
  BY LenProperties, ElementOfSeq DEF RawTexts
<1>2. own \in SUBSET Nat /\ IsFiniteSet(own)
  <2>1. IsFiniteSet(1 .. Len(text))
    BY <1>1, IndicesAreFinite
  <2>2. own \in SUBSET (1 .. Len(text))
    BY <1>1
  <2> QED
    BY <1>1, <2>1, <2>2, FS_Subset
<1>3. n \in Nat /\ s \in [1 .. n -> own] /\ \A x \in own : \E i \in 1 .. n : s[i] = x
  BY <1>2, AscendingSorts
<1>4. Values(text, key) = [j \in DOMAIN s |-> text[s[j]].value]
  BY DEF Values
<1> HIDE DEF s, n
<1>5. Values(text, key) \in [1 .. n -> AnyText]
  BY <1>1, <1>3, <1>4
<1>6. Values(text, key) \in Seq(AnyText)
  BY <1>3, <1>5, SeqDef
<1>7. \A j \in DOMAIN Values(text, key) : s[j] \in own /\ text[s[j]].value = Values(text, key)[j]
  BY <1>3, <1>4
<1>8. ASSUME NEW i \in DOMAIN text, text[i].key = key
      PROVE  \E j \in DOMAIN Values(text, key) : text[i].value = Values(text, key)[j]
  <2>1. i \in own
    BY <1>8
  <2>2. PICK j \in 1 .. n : s[j] = i
    BY <1>3, <2>1
  <2>3. j \in DOMAIN Values(text, key)
    BY <1>3, <1>4
  <2> QED
    BY <1>7, <2>2, <2>3
<1> QED
  BY <1>6, <1>7, <1>8

\* Parsed values: texts for some of the keys.
IsValues(v) ==
    /\ DOMAIN v \subseteq Range(KeyOrder)
    /\ \A key \in DOMAIN v : v[key] \in Seq(AnyText)

\* A key has one rank.
LEMMA KeyRank ==
    /\ Len(KeyOrder) \in Nat /\ DOMAIN KeyOrder = 1 .. Len(KeyOrder)
    /\ \A key \in Range(KeyOrder) : \E k \in DOMAIN KeyOrder : KeyOrder[k] = key
    /\ \A k \in DOMAIN KeyOrder : KeyOrder[k] \in Range(KeyOrder)
<1>1. Len(KeyOrder) \in Nat /\ DOMAIN KeyOrder = 1 .. Len(KeyOrder)
  BY KeyOrderAssumption, LenProperties
<1> QED
  BY <1>1 DEF Range

\* The places of the values are finitely many pairs of numbers.
LEMMA SlotsAreFinite ==
    ASSUME NEW v, IsValues(v)
    PROVE  /\ Slots(v) \in SUBSET (Nat \X Nat)
           /\ IsFiniteSet(Slots(v))
           /\ \A k, j : << k, j >> \in Slots(v) <=>
                 /\ k \in DOMAIN KeyOrder /\ KeyOrder[k] \in DOMAIN v
                 /\ j \in DOMAIN v[KeyOrder[k]]
<1> DEFINE ranks == {m \in DOMAIN KeyOrder : KeyOrder[m] \in DOMAIN v}
           Row(k) == {k} \X DOMAIN v[KeyOrder[k]]
           rows == {Row(k) : k \in ranks}
<1>1. Slots(v) = UNION rows
  BY DEF Slots
<1>2. \A k \in ranks : k \in Nat /\ Len(v[KeyOrder[k]]) \in Nat
                       /\ DOMAIN v[KeyOrder[k]] = 1 .. Len(v[KeyOrder[k]])
  BY KeyRank, LenProperties DEF IsValues
<1>3. IsFiniteSet(ranks)
  <2>1. IsFiniteSet(1 .. Len(KeyOrder))
    BY KeyRank, IndicesAreFinite
  <2>2. ranks \in SUBSET (1 .. Len(KeyOrder))
    BY KeyRank
  <2> QED
    BY <2>1, <2>2, FS_Subset
<1>4. IsFiniteSet(rows)
  <2> HIDE DEF ranks, Row
  <2>1. \E n \in Nat : ExistsSurjection(1 .. n, ranks)
    BY <1>3, FS_NatSurjection
  <2>2. PICK n \in Nat : Surjection(1 .. n, ranks) # {}
    BY <2>1 DEF ExistsSurjection
  <2>3. PICK f \in [1 .. n -> ranks] : \A k \in ranks : \E i \in 1 .. n : f[i] = k
    BY <2>2 DEF Surjection
  <2> DEFINE g == [i \in 1 .. n |-> Row(f[i])]
  <2>4. g \in [1 .. n -> rows]
    BY <2>3
  <2>5. \A r \in rows : \E i \in 1 .. n : g[i] = r
    BY <2>3
  <2>6. ExistsSurjection(1 .. n, rows)
    BY <2>4, <2>5 DEF ExistsSurjection, Surjection
  <2> QED
    BY <2>6, FS_NatSurjection
<1>5. ASSUME NEW r \in rows PROVE IsFiniteSet(r)
  <2>1. PICK k \in ranks : r = {k} \X DOMAIN v[KeyOrder[k]]
    OBVIOUS
  <2>2. IsFiniteSet({k}) /\ IsFiniteSet(1 .. Len(v[KeyOrder[k]]))
    BY <1>2, FS_Singleton, IndicesAreFinite
  <2> QED
    BY <1>2, <2>1, <2>2, FS_Product
<1>6. IsFiniteSet(Slots(v))
  <2> HIDE DEF rows
  <2> QED
    BY <1>1, <1>4, <1>5, FS_UNION
<1>7. \A k, j : << k, j >> \in Slots(v) <=> k \in ranks /\ j \in DOMAIN v[KeyOrder[k]]
  <2>1. \A k, j : << k, j >> \in UNION rows <=> \E m \in ranks : << k, j >> \in Row(m)
    OBVIOUS
  <2>2. \A k, j, m : << k, j >> \in Row(m) <=> k = m /\ j \in DOMAIN v[KeyOrder[m]]
    OBVIOUS
  <2> HIDE DEF ranks, Row
  <2> QED
    BY <1>1, <2>1, <2>2
<1>8. Slots(v) \in SUBSET (Nat \X Nat)
  BY <1>1, <1>2
<1> QED
  BY <1>6, <1>7, <1>8

\* Encode writes each value of each key once, in the order of Slots.
LEMMA EncodeMeans ==
    ASSUME NEW v, IsValues(v)
    PROVE  LET S == Slots(v)
               s == InOrder(S, Lexicographic(S))
               c == Cardinality(S)
           IN  /\ c \in Nat
               /\ s \in [1 .. c -> S]
               /\ \A i, j \in 1 .. c : i < j => << s[i], s[j] >> \in Lexicographic(S)
               /\ \A x \in S : \E i \in 1 .. c : s[i] = x
               /\ Encode(v) = [n \in 1 .. c |->
                                  Pair(KeyOrder[s[n][1]], v[KeyOrder[s[n][1]]][s[n][2]])]
<1> DEFINE S == Slots(v)
           s == InOrder(S, Lexicographic(S))
           c == Cardinality(S)
<1>1. S \in SUBSET (Nat \X Nat) /\ IsFiniteSet(S)
  BY SlotsAreFinite
<1>2. Encode(v) = [n \in DOMAIN s |-> Pair(KeyOrder[s[n][1]], v[KeyOrder[s[n][1]]][s[n][2]])]
  BY DEF Encode
<1> HIDE DEF S
<1>3. IsStrictOrder(Lexicographic(S), S)
  BY <1>1, LexicographicIsStrictOrder
<1>4. IsSorting(s, S, Lexicographic(S))
  BY <1>1, <1>3, InOrderSorts
<1>5. \A x \in S : \E i \in DOMAIN s : s[i] = x
  BY <1>1, <1>3, <1>4, SortingIsOnto
<1>6. c \in Nat
  BY <1>1, FS_CardinalityType
<1>7. s \in [1 .. c -> S] /\ DOMAIN s = 1 .. c
      /\ \A i, j \in DOMAIN s : i < j => << s[i], s[j] >> \in Lexicographic(S)
  BY <1>4 DEF IsSorting
<1> HIDE DEF s, c
<1>8. Encode(v) = [n \in 1 .. c |-> Pair(KeyOrder[s[n][1]], v[KeyOrder[s[n][1]]][s[n][2]])]
  BY <1>2, <1>7
<1> QED
  BY <1>5, <1>6, <1>7, <1>8 DEF S, s, c

\* The pairs it writes are spelled its own way, and are those of the values.
LEMMA EncodedPairs ==
    ASSUME NEW v, IsValues(v)
    PROVE  /\ Encode(v) \in RawTexts
           /\ \A n \in DOMAIN Encode(v) :
                 \E key \in DOMAIN v : \E j \in DOMAIN v[key] : Encode(v)[n] = Pair(key, v[key][j])
           /\ \A key \in DOMAIN v : \A j \in DOMAIN v[key] :
                 \E n \in DOMAIN Encode(v) : Encode(v)[n] = Pair(key, v[key][j])
<1> DEFINE S == Slots(v)
           s == InOrder(S, Lexicographic(S))
           c == Cardinality(S)
<1>1. /\ c \in Nat /\ s \in [1 .. c -> S] /\ \A x \in S : \E i \in 1 .. c : s[i] = x
      /\ Encode(v) = [n \in 1 .. c |-> Pair(KeyOrder[s[n][1]], v[KeyOrder[s[n][1]]][s[n][2]])]
  BY EncodeMeans
<1>2. /\ S \in SUBSET (Nat \X Nat)
      /\ \A k, j : << k, j >> \in S <=>
           k \in DOMAIN KeyOrder /\ KeyOrder[k] \in DOMAIN v /\ j \in DOMAIN v[KeyOrder[k]]
  BY SlotsAreFinite
<1> HIDE DEF S, s, c
<1>3. ASSUME NEW n \in 1 .. c
      PROVE  LET key == KeyOrder[s[n][1]] IN
             /\ key \in DOMAIN v /\ s[n][2] \in DOMAIN v[key]
             /\ Encode(v)[n] = Pair(key, v[key][s[n][2]])
  <2>1. s[n] \in S /\ s[n] = << s[n][1], s[n][2] >>
    BY <1>1, <1>2
  <2>2. << s[n][1], s[n][2] >> \in S
    BY <2>1
  <2>3. KeyOrder[s[n][1]] \in DOMAIN v /\ s[n][2] \in DOMAIN v[KeyOrder[s[n][1]]]
    BY <1>2, <2>2
  <2>4. Encode(v)[n] = Pair(KeyOrder[s[n][1]], v[KeyOrder[s[n][1]]][s[n][2]])
    BY <1>1
  <2> QED
    BY <2>3, <2>4
<1>4. DOMAIN Encode(v) = 1 .. c
  BY <1>1
<1>5. \A n \in DOMAIN Encode(v) :
         \E key \in DOMAIN v : \E j \in DOMAIN v[key] : Encode(v)[n] = Pair(key, v[key][j])
  BY <1>3, <1>4
<1>6. ASSUME NEW key \in DOMAIN v, NEW j \in DOMAIN v[key]
      PROVE  \E n \in DOMAIN Encode(v) : Encode(v)[n] = Pair(key, v[key][j])
  <2>1. PICK k \in DOMAIN KeyOrder : KeyOrder[k] = key
    BY KeyRank DEF IsValues
  <2>2. << k, j >> \in S
    BY <1>2, <2>1
  <2>3. PICK n \in 1 .. c : s[n] = << k, j >>
    BY <1>1, <2>2
  <2>4. Encode(v)[n] = Pair(KeyOrder[s[n][1]], v[KeyOrder[s[n][1]]][s[n][2]])
    BY <1>1
  <2> QED
    BY <1>4, <2>1, <2>3, <2>4
<1>7. ASSUME NEW n \in 1 .. c
      PROVE  Encode(v)[n] \in [key : Range(KeyOrder), value : AnyText, spelling : Spellings]
  <2>1. PICK key \in DOMAIN v : \E j \in DOMAIN v[key] : Encode(v)[n] = Pair(key, v[key][j])
    BY <1>4, <1>5
  <2>2. PICK j \in DOMAIN v[key] : Encode(v)[n] = Pair(key, v[key][j])
    BY <2>1
  <2>3. key \in Range(KeyOrder) /\ v[key] \in Seq(AnyText)
    BY DEF IsValues
  <2>4. v[key][j] \in AnyText
    BY <2>3, ElementOfSeq, LenProperties
  <2> QED
    BY <2>2, <2>3, <2>4 DEF Pair, Spellings
<1>8. Encode(v) \in [1 .. c -> [key : Range(KeyOrder), value : AnyText, spelling : Spellings]]
  <2>1. Encode(v) = [n \in 1 .. c |-> Encode(v)[n]]
    BY <1>1
  <2> QED
    BY <1>7, <2>1
<1>9. Encode(v) \in RawTexts
  BY <1>1, <1>8, SeqDef DEF RawTexts
<1> QED
  BY <1>5, <1>6, <1>9

\* What Encode writes is read back as it was: parsing undoes it.
LEMMA EncodeRoundTrip ==
    ASSUME NEW v, IsValues(v), NEW key \in DOMAIN v
    PROVE  Values(Encode(v), key) = v[key]
<1> DEFINE S == Slots(v)
           s == InOrder(S, Lexicographic(S))
           c == Cardinality(S)
           m == Len(v[key])
           own == {n \in DOMAIN Encode(v) : Encode(v)[n].key = key}
<1>1. /\ c \in Nat /\ s \in [1 .. c -> S] /\ \A x \in S : \E i \in 1 .. c : s[i] = x
      /\ \A i, j \in 1 .. c : i < j => << s[i], s[j] >> \in Lexicographic(S)
      /\ Encode(v) = [n \in 1 .. c |-> Pair(KeyOrder[s[n][1]], v[KeyOrder[s[n][1]]][s[n][2]])]
  BY EncodeMeans
<1>2. /\ S \in SUBSET (Nat \X Nat)
      /\ \A k, j : << k, j >> \in S <=>
           k \in DOMAIN KeyOrder /\ KeyOrder[k] \in DOMAIN v /\ j \in DOMAIN v[KeyOrder[k]]
  BY SlotsAreFinite
<1>3. PICK r \in DOMAIN KeyOrder : KeyOrder[r] = key
  BY KeyRank DEF IsValues
<1>4. m \in Nat /\ v[key] \in [1 .. m -> AnyText] /\ DOMAIN v[key] = 1 .. m
  BY LenProperties DEF IsValues
<1> HIDE DEF S, s, c, m
<1>5. \A n \in 1 .. c : s[n] \in S /\ s[n] = << s[n][1], s[n][2] >>
                        /\ s[n][1] \in DOMAIN KeyOrder /\ s[n][2] \in DOMAIN v[KeyOrder[s[n][1]]]
  <2>1. \A n \in 1 .. c : s[n] \in S /\ s[n] = << s[n][1], s[n][2] >>
    BY <1>1, <1>2
  <2> QED
    BY <1>2, <2>1
<1>6. \A n \in 1 .. c : Encode(v)[n].key = key <=> s[n][1] = r
  BY <1>1, <1>3, <1>5, KeyOrderAssumption DEF Pair
<1>7. own = {n \in 1 .. c : s[n][1] = r}
  BY <1>1, <1>6
<1> DEFINE at == [j \in 1 .. m |-> CHOOSE n \in 1 .. c : s[n] = << r, j >>]
<1>8. ASSUME NEW j \in 1 .. m PROVE at[j] \in 1 .. c /\ s[at[j]] = << r, j >>
  <2>1. << r, j >> \in S
    BY <1>2, <1>3, <1>4
  <2>2. \E n \in 1 .. c : s[n] = << r, j >>
    BY <1>1, <2>1
  <2> QED
    BY <2>2
<1>9. DOMAIN at = 1 .. m
  OBVIOUS
<1> HIDE DEF at
<1>10. at \in [1 .. m -> own]
  <2>1. at = [j \in 1 .. m |-> at[j]]
    BY DEF at
  <2>2. \A j \in 1 .. m : at[j] \in own
    BY <1>7, <1>8
  <2> HIDE DEF own
  <2> QED
    BY <2>1, <2>2
<1>11. ASSUME NEW x \in own PROVE \E j \in 1 .. m : at[j] = x
  <2>1. x \in 1 .. c /\ s[x][1] = r /\ s[x][2] \in 1 .. m /\ s[x] = << r, s[x][2] >>
    BY <1>3, <1>4, <1>5, <1>7
  <2>2. at[s[x][2]] \in 1 .. c /\ s[at[s[x][2]]] = s[x]
    BY <1>8, <2>1
  <2>3. at[s[x][2]] = x
    <3> DEFINE y == at[s[x][2]]
    <3>1. y \in 1 .. c /\ s[y] = s[x] /\ s[x] \in S
      BY <1>5, <2>1, <2>2
    <3> HIDE DEF y
    <3>2. << s[x], s[x] >> \notin Lexicographic(S)
      BY <1>2, LexicographicIsStrictOrder, <3>1 DEF IsStrictOrder
    <3>3. ~(x < y) /\ ~(y < x)
      BY <1>1, <2>1, <3>1, <3>2
    <3>4. x = y
      BY <1>1, <2>1, <3>1, <3>3
    <3> QED
      BY <3>4 DEF y
  <2> QED
    BY <2>1, <2>3
<1>12. ASSUME NEW i \in 1 .. m, NEW j \in 1 .. m, i < j
       PROVE  << at[i], at[j] >> \in Increasing(own)
  <2>1. at[i] \in 1 .. c /\ at[j] \in 1 .. c /\ s[at[i]] = << r, i >> /\ s[at[j]] = << r, j >>
    BY <1>8
  <2>2. ~(at[j] < at[i])
    <3> SUFFICES ASSUME at[j] < at[i] PROVE FALSE
      OBVIOUS
    <3>1. << << r, j >>, << r, i >> >> \in Lexicographic(S)
      BY <1>1, <2>1
    <3> QED
      BY <1>4, <1>12, <3>1, KeyRank DEF Lexicographic
  <2>3. at[i] # at[j]
    BY <1>4, <1>12, <2>1
  <2>4. at[i] < at[j]
    <3>1. at[i] \in Nat /\ at[j] \in Nat
      BY <1>1, <2>1
    <3> QED
      BY <2>2, <2>3, <3>1
  <2>5. at[i] \in own /\ at[j] \in own
    BY <1>10
  <2> QED
    BY <2>4, <2>5 DEF Increasing
<1>13. own \in SUBSET Nat
  <2>1. c \in Nat
    BY <1>1
  <2> HIDE DEF own
  <2>2. \A n \in own : n \in 1 .. c
    BY <1>7
  <2> QED
    BY <2>1, <2>2
<1>14. Ascending(own) = at
  <2> DEFINE R == Increasing(own)
  <2> HIDE DEF own
  <2>1. IsStrictOrder(R, own)
    BY <1>13, IncreasingIsStrictOrder
  <2>2. \A x \in own : \E j \in 1 .. m : at[j] = x
    BY <1>11
  <2>3. \A i, j \in 1 .. m : i < j => << at[i], at[j] >> \in R
    BY <1>12
  <2>4. InOrder(own, R) = at
    <3> HIDE DEF R
    <3> QED
      BY <1>4, <1>10, <2>1, <2>2, <2>3, InOrderIs
  <2> QED
    BY <2>4 DEF Ascending
<1>15. Values(Encode(v), key) = [j \in DOMAIN at |-> Encode(v)[at[j]].value]
  BY <1>14 DEF Values
<1>16. ASSUME NEW j \in 1 .. m PROVE Encode(v)[at[j]].value = v[key][j]
  <2>1. at[j] \in 1 .. c /\ s[at[j]] = << r, j >>
    BY <1>8
  <2>2. Encode(v)[at[j]] = Pair(KeyOrder[r], v[KeyOrder[r]][j])
    BY <1>1, <2>1
  <2> QED
    BY <1>3, <2>2 DEF Pair
<1>17. v[key] = [j \in 1 .. m |-> v[key][j]]
  BY <1>4
<1> QED
  BY <1>9, <1>15, <1>16, <1>17

\* The texts of a raw query.
LEMMA TextsOfPairs ==
    ASSUME NEW text \in RawTexts
    PROVE  /\ Len(text) \in Nat /\ DOMAIN text = 1 .. Len(text)
           /\ \A i \in DOMAIN text :
                 text[i].key \in Range(KeyOrder) /\ text[i].value \in AnyText
           /\ Keys(text) \subseteq Range(KeyOrder)
<1>1. Len(text) \in Nat /\ DOMAIN text = 1 .. Len(text)
  BY LenProperties DEF RawTexts
<1>2. \A i \in DOMAIN text : text[i] \in [key : Range(KeyOrder), value : AnyText, spelling : Spellings]
  BY <1>1, ElementOfSeq DEF RawTexts
<1> QED
  BY <1>1, <1>2 DEF Keys

\* ReplaceValues leaves a text that decodes, with the keys there were and, for
\* each of them, as many values: the ones it was given, or the ones there were.
Replaced(text, by, key) ==
    [i \in DOMAIN Values(text, key) |-> IF key \in DOMAIN by THEN by[key] ELSE Values(text, key)[i]]

LEMMA ReplacedValues ==
    ASSUME NEW text \in RawTexts, NEW by, \A f \in DOMAIN by : by[f] \in AnyText
    PROVE  LET t == ReplaceValues(text, by)
           IN  /\ t \in RawTexts /\ ~Malformed(t)
               /\ Keys(t) = Keys(text)
               /\ \A key \in Keys(text) : Values(t, key) = Replaced(text, by, key)
               /\ \A i \in DOMAIN t :
                     IF t[i].key \in DOMAIN by THEN t[i].value = by[t[i].key]
                     ELSE \E j \in DOMAIN text : text[j].key = t[i].key /\ text[j].value = t[i].value
               /\ \A j \in DOMAIN text : \E i \in DOMAIN t :
                     /\ t[i].key = text[j].key
                     /\ t[i].value = IF text[j].key \in DOMAIN by THEN by[text[j].key] ELSE text[j].value
<1> DEFINE v == [key \in Keys(text) |-> Replaced(text, by, key)]
           t == ReplaceValues(text, by)
<1>1. t = Encode(v)
  BY DEF ReplaceValues, Replaced
<1>2. ASSUME NEW key \in Keys(text)
      PROVE  v[key] \in Seq(AnyText) /\ DOMAIN v[key] = DOMAIN Values(text, key)
  <2>1. Values(text, key) \in Seq(AnyText)
    BY ValuesMeans
  <2>2. Len(Values(text, key)) \in Nat /\ DOMAIN Values(text, key) = 1 .. Len(Values(text, key))
        /\ \A i \in DOMAIN Values(text, key) : Values(text, key)[i] \in AnyText
    BY <2>1, LenProperties, ElementOfSeq
  <2>3. v[key] = Replaced(text, by, key)
    OBVIOUS
  <2>4. v[key] \in [1 .. Len(Values(text, key)) -> AnyText]
    BY <2>2, <2>3 DEF Replaced
  <2> QED
    BY <2>2, <2>4, SeqDef
<1>3. IsValues(v)
  BY <1>2, TextsOfPairs DEF IsValues
<1>4. DOMAIN v = Keys(text) /\ \A key \in Keys(text) : v[key] = Replaced(text, by, key)
  OBVIOUS
<1> HIDE DEF v, t
<1>5. /\ t \in RawTexts
      /\ \A n \in DOMAIN t : \E key \in DOMAIN v : \E j \in DOMAIN v[key] : t[n] = Pair(key, v[key][j])
      /\ \A key \in DOMAIN v : \A j \in DOMAIN v[key] : \E n \in DOMAIN t : t[n] = Pair(key, v[key][j])
  BY <1>1, <1>3, EncodedPairs
<1>6. \A key \in Keys(text) : Values(t, key) = Replaced(text, by, key)
  BY <1>1, <1>3, <1>4, EncodeRoundTrip
<1>7. \A key, value : /\ Pair(key, value).key = key /\ Pair(key, value).value = value
                      /\ Pair(key, value).spelling = "encoded"
  BY DEF Pair
<1>8. ~Malformed(t)
  BY <1>5, <1>7 DEF Malformed
<1>9. ASSUME NEW i \in DOMAIN t
      PROVE  /\ t[i].key \in Keys(text)
             /\ IF t[i].key \in DOMAIN by THEN t[i].value = by[t[i].key]
                ELSE \E j \in DOMAIN text : text[j].key = t[i].key /\ text[j].value = t[i].value
  <2>1. PICK key \in DOMAIN v : \E n \in DOMAIN v[key] : t[i] = Pair(key, v[key][n])
    BY <1>5
  <2>2. PICK n \in DOMAIN v[key] : t[i] = Pair(key, v[key][n])
    BY <2>1
  <2>3. key \in Keys(text) /\ t[i].key = key /\ t[i].value = v[key][n] /\ n \in DOMAIN Values(text, key)
    BY <1>2, <1>4, <1>7, <2>2
  <2>4. v[key][n] = IF key \in DOMAIN by THEN by[key] ELSE Values(text, key)[n]
    BY <1>4, <2>3 DEF Replaced
  <2>5. \E j \in DOMAIN text : text[j].key = key /\ text[j].value = Values(text, key)[n]
    BY <2>3, ValuesMeans
  <2> QED
    BY <2>3, <2>4, <2>5
<1>10. ASSUME NEW j \in DOMAIN text
       PROVE  \E i \in DOMAIN t :
                 /\ t[i].key = text[j].key
                 /\ t[i].value = IF text[j].key \in DOMAIN by THEN by[text[j].key] ELSE text[j].value
  <2> DEFINE key == text[j].key
  <2>1. key \in Keys(text)
    BY DEF Keys
  <2>2. PICK n \in DOMAIN Values(text, key) : text[j].value = Values(text, key)[n]
    BY ValuesMeans
  <2>3. n \in DOMAIN v[key] /\ v[key][n] = IF key \in DOMAIN by THEN by[key] ELSE text[j].value
    BY <1>2, <1>4, <2>1, <2>2 DEF Replaced
  <2>4. PICK i \in DOMAIN t : t[i] = Pair(key, v[key][n])
    BY <1>4, <1>5, <2>1, <2>3
  <2> QED
    BY <1>7, <2>3, <2>4
<1>11. Keys(t) = Keys(text)
  BY <1>9, <1>10 DEF Keys
<1> QED
  BY <1>5, <1>6, <1>8, <1>9, <1>10, <1>11 DEF t

\* What the rules for some keys leave of a text that decodes, and what runtime
\* values then make of it: the shape of both, for queries and for forms.
Hidden(text, keys) == IF keys = {} THEN text ELSE ReplaceValues(text, Redactions(keys))

Filled(text, by) ==
    IF DOMAIN by \cap Keys(text) = {} THEN text
    ELSE ReplaceValues(text, [f \in DOMAIN by \cap Keys(text) |-> by[f]])

\* Hiding keys hides their values and no others, and shows nothing that was hidden.
LEMMA HiddenText ==
    ASSUME NEW text \in RawTexts, NEW keys, Malformed(text) => keys = {}
    PROVE  LET h == Hidden(text, keys)
           IN  /\ h \in RawTexts /\ Keys(h) = Keys(text)
               /\ Malformed(h) <=> Malformed(text)
               /\ keys # {} => \A key \in Keys(text) : Values(h, key) =
                     [i \in DOMAIN Values(text, key) |-> IF key \in keys THEN Marker ELSE Values(text, key)[i]]
               /\ ~Shows(h, keys)
               /\ \A more : ~Shows(text, more) => ~Shows(h, keys \cup more)
               /\ ~Malformed(text) => MarkedKeys(h) = MarkedKeys(text) \cup (keys \cap Keys(text))
<1>1. CASE keys = {}
  BY <1>1 DEF Hidden, Shows
<1>2. CASE keys # {}
  <2> DEFINE by == Redactions(keys)
             t == ReplaceValues(text, by)
  <2>1. DOMAIN by = keys /\ (\A f \in keys : by[f] = Marker) /\ Marker \in AnyText
    <3>1. DOMAIN by = keys /\ \A f \in keys : by[f] = Marker
      BY DEF Redactions
    <3>2. Marker \in AnyText
      BY DEF AnyText
    <3> QED
      BY <3>1, <3>2
  <2>2. Hidden(text, keys) = t
    BY <1>2 DEF Hidden
  <2> HIDE DEF by, t
  <2>3. /\ t \in RawTexts /\ ~Malformed(t)
        /\ Keys(t) = Keys(text)
        /\ \A key \in Keys(text) : Values(t, key) = Replaced(text, by, key)
        /\ \A i \in DOMAIN t :
              IF t[i].key \in DOMAIN by THEN t[i].value = by[t[i].key]
              ELSE \E j \in DOMAIN text : text[j].key = t[i].key /\ text[j].value = t[i].value
        /\ \A j \in DOMAIN text : \E i \in DOMAIN t :
              /\ t[i].key = text[j].key
              /\ t[i].value = IF text[j].key \in DOMAIN by THEN by[text[j].key] ELSE text[j].value
    <3>1. \A f \in DOMAIN by : by[f] \in AnyText
      BY <2>1
    <3> QED
      BY <3>1, ReplacedValues DEF t
  <2>4. ASSUME NEW key \in Keys(text)
        PROVE  Values(t, key) =
                 [i \in DOMAIN Values(text, key) |-> IF key \in keys THEN Marker ELSE Values(text, key)[i]]
    <3>1. CASE key \in keys
      BY <2>1, <2>3, <3>1 DEF Replaced
    <3>2. CASE key \notin keys
      BY <2>1, <2>3, <3>2 DEF Replaced
    <3> QED
      BY <3>1, <3>2
  <2>5. ASSUME NEW more, ~Shows(text, more), NEW i \in DOMAIN t, t[i].key \in keys \cup more
        PROVE  t[i].value = Marker
    <3>1. CASE t[i].key \in keys
      BY <2>1, <2>3, <3>1
    <3>2. CASE t[i].key \notin keys
      <4>1. PICK j \in DOMAIN text : text[j].key = t[i].key /\ text[j].value = t[i].value
        BY <2>1, <2>3, <3>2
      <4>2. text[j].key \in more
        BY <2>5, <3>2, <4>1
      <4>3. text[j].key \in more => text[j].value = Marker
        BY <1>2, <2>5 DEF Shows
      <4> QED
        BY <4>1, <4>2, <4>3
    <3> QED
      BY <3>1, <3>2
  <2>6. \A more : ~Shows(text, more) => ~Shows(t, keys \cup more)
    BY <2>3, <2>5 DEF Shows
  <2>7. ~Shows(t, keys)
    BY <2>1, <2>3 DEF Shows
  <2>8. ~Malformed(text) => MarkedKeys(t) = MarkedKeys(text) \cup (keys \cap Keys(text))
    <3> SUFFICES ASSUME ~Malformed(text)
                 PROVE  MarkedKeys(t) = MarkedKeys(text) \cup (keys \cap Keys(text))
      OBVIOUS
    <3>1. MarkedKeys(t) = {t[i].key : i \in {j \in DOMAIN t : t[j].value = Marker}}
      BY <2>3 DEF MarkedKeys
    <3>2. MarkedKeys(text) = {text[i].key : i \in {j \in DOMAIN text : text[j].value = Marker}}
      BY DEF MarkedKeys
    <3>3. ASSUME NEW i \in DOMAIN t, t[i].value = Marker
          PROVE  t[i].key \in MarkedKeys(text) \cup (keys \cap Keys(text))
      <4>1. t[i].key \in Keys(t)
        BY DEF Keys
      <4>2. t[i].key \in keys \/ \E j \in DOMAIN text : text[j].key = t[i].key /\ text[j].value = t[i].value
        BY <2>1, <2>3
      <4> QED
        BY <2>3, <3>2, <3>3, <4>1, <4>2
    <3>4. ASSUME NEW j \in DOMAIN text, text[j].value = Marker \/ text[j].key \in keys
          PROVE  text[j].key \in MarkedKeys(t)
      BY <2>1, <2>3, <3>1, <3>4
    <3> QED
      BY <3>1, <3>2, <3>3, <3>4 DEF Keys
  <2> QED
    BY <1>2, <2>2, <2>3, <2>4, <2>6, <2>7, <2>8
<1> QED
  BY <1>1, <1>2

\* Filling in leaves a marker only where there was one and no value for it, or
\* where the value is one.
LEMMA FilledText ==
    ASSUME NEW text \in RawTexts, NEW by, \A f \in DOMAIN by : by[f] \in AnyText,
           DOMAIN by \cap Keys(text) # {} => ~Malformed(text)
    PROVE  LET u == Filled(text, by)
           IN  /\ u \in RawTexts /\ Keys(u) = Keys(text)
               /\ Malformed(u) <=> Malformed(text)
               /\ ~Malformed(text) =>
                     \A key \in Keys(text) : Values(u, key) = Replaced(text, by, key)
               /\ MarkedKeys(u) \subseteq {f \in DOMAIN by : by[f] = Marker} \cup (MarkedKeys(text) \ DOMAIN by)
<1> DEFINE some == [f \in DOMAIN by \cap Keys(text) |-> by[f]]
           t == ReplaceValues(text, some)
<1>1. CASE DOMAIN by \cap Keys(text) = {}
  <2>1. Filled(text, by) = text
    BY <1>1 DEF Filled
  <2>2. ASSUME NEW key \in Keys(text) PROVE Values(text, key) = Replaced(text, by, key)
    <3>1. Values(text, key) \in Seq(AnyText)
      BY ValuesMeans
    <3>2. Values(text, key) = [i \in DOMAIN Values(text, key) |-> Values(text, key)[i]]
      BY DEF Values
    <3>3. key \notin DOMAIN by
      BY <1>1
    <3> QED
      BY <3>2, <3>3 DEF Replaced
  <2>3. MarkedKeys(text) \subseteq Keys(text)
    BY DEF MarkedKeys, Keys
  <2> QED
    BY <1>1, <2>1, <2>2, <2>3
<1>2. CASE DOMAIN by \cap Keys(text) # {}
  <2>1. DOMAIN some = DOMAIN by \cap Keys(text) /\ \A f \in DOMAIN some : some[f] = by[f] /\ some[f] \in AnyText
    OBVIOUS
  <2>2. Filled(text, by) = t
    BY <1>2 DEF Filled
  <2> HIDE DEF some, t
  <2>3. /\ t \in RawTexts /\ ~Malformed(t)
        /\ Keys(t) = Keys(text)
        /\ \A key \in Keys(text) : Values(t, key) = Replaced(text, some, key)
        /\ \A i \in DOMAIN t :
              IF t[i].key \in DOMAIN some THEN t[i].value = some[t[i].key]
              ELSE \E j \in DOMAIN text : text[j].key = t[i].key /\ text[j].value = t[i].value
    BY <2>1, ReplacedValues DEF t
  <2>4. ASSUME NEW key \in Keys(text) PROVE Replaced(text, some, key) = Replaced(text, by, key)
    <3>1. CASE key \in DOMAIN by
      BY <2>1, <3>1 DEF Replaced
    <3>2. CASE key \notin DOMAIN by
      BY <2>1, <3>2 DEF Replaced
    <3> QED
      BY <3>1, <3>2
  <2>5. ASSUME NEW i \in DOMAIN t, t[i].value = Marker
        PROVE  t[i].key \in {f \in DOMAIN by : by[f] = Marker} \cup (MarkedKeys(text) \ DOMAIN by)
    <3>1. t[i].key \in Keys(text)
      <4>1. t[i].key \in Keys(t)
        BY DEF Keys
      <4> QED
        BY <2>3, <4>1
    <3>2. CASE t[i].key \in DOMAIN by
      BY <2>1, <2>3, <2>5, <3>1, <3>2
    <3>3. CASE t[i].key \notin DOMAIN by
      <4>1. PICK j \in DOMAIN text : text[j].key = t[i].key /\ text[j].value = t[i].value
        BY <2>1, <2>3, <3>3
      <4>2. text[j].key \in MarkedKeys(text)
        BY <1>2, <2>5, <4>1 DEF MarkedKeys
      <4> QED
        BY <3>3, <4>1, <4>2
    <3> QED
      BY <3>2, <3>3
  <2>6. MarkedKeys(t) \subseteq {f \in DOMAIN by : by[f] = Marker} \cup (MarkedKeys(text) \ DOMAIN by)
    BY <2>3, <2>5 DEF MarkedKeys
  <2> QED
    BY <1>2, <2>2, <2>3, <2>4, <2>6
<1> QED
  BY <1>1, <1>2

\* Hiding some keys and filling in values gives what filling in alone would have
\* given, if no marker is left.
LEMMA FilledIsRestored ==
    ASSUME NEW text \in RawTexts, ~Malformed(text), NEW keys,
           NEW by, \A f \in DOMAIN by : by[f] \in AnyText,
           keys = {} \/ MarkedKeys(Filled(Hidden(text, keys), by)) = {}
    PROVE  ParseQuery(Filled(Hidden(text, keys), by)) = RestoredPairs(text, by)
<1> DEFINE h == Hidden(text, keys)
           u == Filled(h, by)
<1>1. /\ h \in RawTexts /\ Keys(h) = Keys(text) /\ ~Malformed(h)
      /\ keys # {} => \A key \in Keys(text) : Values(h, key) =
            [i \in DOMAIN Values(text, key) |-> IF key \in keys THEN Marker ELSE Values(text, key)[i]]
  BY HiddenText
<1>2. keys = {} => h = text
  BY DEF Hidden
<1> HIDE DEF h
<1>3. /\ u \in RawTexts /\ Keys(u) = Keys(text) /\ ~Malformed(u)
      /\ \A key \in Keys(text) : Values(u, key) = Replaced(h, by, key)
  BY <1>1, FilledText
<1>4. keys = {} \/ MarkedKeys(u) = {}
  BY DEF h
<1> HIDE DEF u
<1>5. ASSUME NEW key \in Keys(text)
      PROVE  Values(u, key) = Replaced(text, by, key)
  <2>1. CASE keys = {}
    BY <1>2, <1>3, <2>1
  <2>2. CASE key \in DOMAIN by /\ keys # {}
    <3>1. DOMAIN Values(h, key) = DOMAIN Values(text, key)
      BY <1>1, <2>2
    <3>2. Replaced(h, by, key) = Replaced(text, by, key)
      BY <2>2, <3>1 DEF Replaced
    <3> QED
      BY <1>3, <3>2
  <2>3. CASE key \in keys /\ key \notin DOMAIN by /\ keys # {}
    <3>1. PICK j \in DOMAIN text : text[j].key = key
      BY DEF Keys
    <3>2. PICK n \in DOMAIN Values(text, key) : text[j].value = Values(text, key)[n]
      <4>1. \A i \in DOMAIN text : text[i].key = key =>
               \E m \in DOMAIN Values(text, key) : text[i].value = Values(text, key)[m]
        BY ValuesMeans
      <4> QED
        BY <3>1, <4>1
    <3>3. n \in DOMAIN Values(u, key) /\ Values(u, key)[n] = Marker
      BY <1>1, <1>3, <2>3, <3>2 DEF Replaced
    <3>4. PICK i \in DOMAIN u : u[i].key = key /\ u[i].value = Marker
      BY <1>3, <3>3, ValuesMeans
    <3>5. key \in MarkedKeys(u)
      BY <1>3, <3>4 DEF MarkedKeys
    <3> QED
      BY <1>4, <2>3, <3>5
  <2>4. CASE key \notin keys /\ key \notin DOMAIN by /\ keys # {}
    <3>1. Values(h, key) = [i \in DOMAIN Values(text, key) |-> Values(text, key)[i]]
      BY <1>1, <2>4
    <3> QED
      BY <1>3, <2>4, <3>1 DEF Replaced
  <2> QED
    BY <2>1, <2>2, <2>3, <2>4
<1>6. RestoredPairs(text, by) = [key \in Keys(text) |-> Replaced(text, by, key)]
  BY DEF RestoredPairs, Replaced
<1>7. ParseQuery(u) = [key \in Keys(text) |-> Values(u, key)]
  BY <1>3 DEF ParseQuery
<1> QED
  BY <1>5, <1>6, <1>7 DEF u, h

\* The query that stands for one that does not decode is recognized as such.
LEMMA WithheldQueryMeans ==
    /\ WithheldQuery \in RawTexts /\ ~Malformed(WithheldQuery)
    /\ QueryWithheld(WithheldQuery)
    /\ MarkedKeys(WithheldQuery) = {"redacted"}
    /\ \A keys : ~Shows(WithheldQuery, keys)
<1> DEFINE q == WithheldQuery
           own == {i \in DOMAIN q : q[i].key = "redacted"}
<1>1. /\ DOMAIN q = {1} /\ q[1].key = "redacted" /\ q[1].value = Marker /\ q[1].spelling = "encoded"
      /\ q = << Pair("redacted", Marker) >>
  BY DEF WithheldQuery, Pair
<1>2. Pair("redacted", Marker) \in [key : Range(KeyOrder), value : AnyText, spelling : Spellings]
  BY KeyOrderAssumption DEF Pair, AnyText, Spellings
<1>3. q \in RawTexts
  BY <1>1, <1>2 DEF RawTexts
<1> HIDE DEF q
<1>4. ~Malformed(q) /\ Keys(q) = {"redacted"} /\ MarkedKeys(q) = {"redacted"}
  BY <1>1 DEF Malformed, Keys, MarkedKeys
<1>5. own = {1}
  BY <1>1
<1> HIDE DEF own
<1>6. Ascending(own) \in [1 .. 1 -> {1}]
  <2>1. own \in SUBSET Nat /\ IsFiniteSet(own) /\ Cardinality(own) = 1
    BY <1>5, FS_Singleton
  <2>2. Ascending(own) \in [1 .. Cardinality(own) -> own]
    BY <2>1, AscendingSorts
  <2> QED
    BY <1>5, <2>1, <2>2
<1>7. Values(q, "redacted") = [n \in 1 .. 1 |-> Marker]
  <2>1. Values(q, "redacted") = [n \in DOMAIN Ascending(own) |-> q[Ascending(own)[n]].value]
    BY DEF Values, own
  <2> QED
    BY <1>1, <1>6, <2>1
<1>8. Values(q, "redacted") = << Marker >>
  BY <1>7
<1> QED
  BY <1>1, <1>3, <1>4, <1>8 DEF QueryWithheld, Shows, q

\* What Rules.URL makes of a query.
LEMMA RedactQueryMeans ==
    ASSUME NEW rules, NEW text \in RawTexts
    PROVE  LET q == RedactQuery(rules, text)
           IN  /\ q = IF rules.query # {} /\ Malformed(text) THEN WithheldQuery
                      ELSE Hidden(text, rules.query)
               /\ q \in RawTexts
               /\ ~Shows(q, rules.query)
               /\ \A more : ~Shows(text, more) => ~Shows(q, rules.query \cup more)
<1>1. RedactQuery(rules, text) = IF rules.query # {} /\ Malformed(text) THEN WithheldQuery
                                 ELSE Hidden(text, rules.query)
  BY DEF RedactQuery, Hidden
<1>2. CASE rules.query # {} /\ Malformed(text)
  BY <1>1, <1>2, WithheldQueryMeans
<1>3. CASE ~(rules.query # {} /\ Malformed(text))
  <2>1. Malformed(text) => rules.query = {}
    BY <1>3
  <2>2. LET h == Hidden(text, rules.query)
        IN  /\ h \in RawTexts /\ ~Shows(h, rules.query)
            /\ \A more : ~Shows(text, more) => ~Shows(h, rules.query \cup more)
    BY <2>1, HiddenText
  <2> QED
    BY <1>1, <1>3, <2>2
<1> QED
  BY <1>2, <1>3

-----------------------------------------------------------------------------
(* What is recorded. *)

LEMMA CaseMeans ==
    ASSUME case \in Cases
    PROVE  /\ IsRequest(case.request) /\ case.request.body.syntax # "withheld"
           /\ IsConfigured(case) /\ case.whole \in BOOLEAN
  BY CasesAssumption

\* A body of any syntax can be looked at as a form.
LEMMA FormOfBody ==
    ASSUME NEW r, IsRequest(r)
    PROVE  /\ AsForm(r.body) \in RawTexts
           /\ r.body.syntax \notin {"json", "dup"} => AsForm(r.body) = r.body.pairs
<1>1. CASE r.body.syntax \in {"json", "dup"}
  <2> DEFINE p == [Pair("{}", "") EXCEPT !.spelling = "raw"]
  <2>1. p \in [key : Range(KeyOrder), value : AnyText, spelling : Spellings]
    BY NamesAssumption DEF Pair, AnyText, Spellings
  <2>2. AsForm(r.body) = << p >>
    BY <1>1 DEF AsForm
  <2> HIDE DEF p
  <2> QED
    BY <1>1, <2>1, <2>2 DEF RawTexts
<1>2. CASE r.body.syntax \notin {"json", "dup"}
  BY <1>2 DEF AsForm, IsRequest
<1> QED
  BY <1>1, <1>2

\* The constructors of bodies.
LEMMA BodyMeans ==
    /\ \A d : JSONBody(d).syntax = "json" /\ JSONBody(d).doc = d /\ JSONBody(d).pairs = << >>
    /\ \A p : FormBody(p).syntax = "form" /\ FormBody(p).pairs = p /\ AsForm(FormBody(p)) = p
    /\ Empty.syntax = "empty" /\ Opaque.syntax = "binary" /\ Withheld.syntax = "withheld"
    /\ Empty.pairs = << >> /\ Opaque.pairs = << >> /\ Withheld.pairs = << >>
    /\ AsForm(Empty) = << >> /\ AsForm(Withheld) = << >>
<1>1. /\ \A d : JSONBody(d).syntax = "json" /\ JSONBody(d).doc = d /\ JSONBody(d).pairs = << >>
      /\ \A p : FormBody(p).syntax = "form" /\ FormBody(p).pairs = p
      /\ Empty.syntax = "empty" /\ Opaque.syntax = "binary" /\ Withheld.syntax = "withheld"
      /\ Empty.pairs = << >> /\ Opaque.pairs = << >> /\ Withheld.pairs = << >>
  BY DEF JSONBody, FormBody, Empty, Opaque, Withheld
<1> QED
  BY <1>1 DEF AsForm

LEMMA NoText == << >> \in RawTexts /\ ~Malformed(<< >>) /\ Keys(<< >>) = {} /\ MarkedKeys(<< >>) = {}
  BY DEF RawTexts, Malformed, Keys, MarkedKeys

\* Rules.Body withholds a body, leaves it as it is, or redacts what it can read.
LEMMA RedactBodyMeans ==
    ASSUME NEW r, IsRequest(r), NEW rules \in Rules, NEW whole
    PROVE  LET b == RedactBody(rules, r.body, r.headers, whole)
           IN  \/ b = r.body /\ (r.body = Empty \/ HasNoBodyRules(rules))
               \/ b = Withheld /\ r.body # Empty /\ ~HasNoBodyRules(rules) /\ Unsafe(rules, r.body, r.headers, whole)
               \/ /\ r.body # Empty /\ ~HasNoBodyRules(rules)
                  /\ ~Unsafe(rules, r.body, r.headers, whole)
                  /\ whole /\ r.headers[ContentEncoding] = "absent"
                  /\ \/ /\ r.headers[ContentType] = "json" /\ rules.json # {}
                        /\ r.body.syntax = "json"
                        /\ b = JSONBody(Redact(r.body.doc, rules.json))
                     \/ /\ r.headers[ContentType] = "form" /\ rules.form # {}
                        /\ ReadableForm(r.body)
                        /\ b = FormBody(Hidden(AsForm(r.body), rules.form))
                     \/ r.headers[ContentType] = "json" /\ rules.json = {} /\ b = r.body
                     \/ r.headers[ContentType] = "form" /\ rules.form = {} /\ b = r.body
  BY DEF RedactBody, Unsafe, ReadableJSON, ReadableForm, Hidden

\* Either way it is a body again.
LEMMA RedactBodyIsBody ==
    ASSUME NEW r, IsRequest(r), NEW rules \in Rules, NEW whole
    PROVE  LET b == RedactBody(rules, r.body, r.headers, whole)
           IN  /\ b.syntax \in Syntaxes /\ b.pairs \in RawTexts
               /\ b.syntax # "form" => b.pairs = << >>
               /\ b.syntax \in {"json", "dup"} => IsDocument(b.doc)
<1> DEFINE b == RedactBody(rules, r.body, r.headers, whole)
<1>1. CASE b = r.body
  BY <1>1 DEF IsRequest
<1>2. CASE b = Withheld
  BY <1>2, BodyMeans, NoText DEF Syntaxes
<1>3. CASE r.body.syntax = "json" /\ b = JSONBody(Redact(r.body.doc, rules.json))
  <2>1. IsDocument(r.body.doc)
    BY <1>3 DEF IsRequest
  <2>2. IsDocument(Redact(r.body.doc, rules.json))
    BY <2>1, ReplaceIsDocument DEF Redact
  <2> QED
    BY <1>3, <2>2, BodyMeans, NoText DEF Syntaxes
<1>4. CASE ReadableForm(r.body) /\ b = FormBody(Hidden(AsForm(r.body), rules.form))
  <2>1. AsForm(r.body) \in RawTexts /\ ~Malformed(AsForm(r.body))
    BY <1>4, FormOfBody DEF ReadableForm
  <2>2. Hidden(AsForm(r.body), rules.form) \in RawTexts
    BY <2>1, HiddenText
  <2> QED
    BY <1>4, <2>2, BodyMeans DEF Syntaxes
<1> HIDE DEF b
<1>5. \/ b = r.body \/ b = Withheld
      \/ r.body.syntax = "json" /\ b = JSONBody(Redact(r.body.doc, rules.json))
      \/ ReadableForm(r.body) /\ b = FormBody(Hidden(AsForm(r.body), rules.form))
  BY RedactBodyMeans DEF b
<1> QED
  BY <1>1, <1>2, <1>3, <1>4, <1>5 DEF b

\* What persistExchange makes of the client's request.
LEMMA RecordedMeans ==
    ASSUME case \in Cases
    PROVE  LET r == Recorded.request
           IN  /\ IsRequest(r)
               /\ Recorded.whole \in BOOLEAN /\ (Recorded.whole <=> case.whole /\ r.body # Withheld)
               /\ r.headers = RedactHeaders(case.capture, Sent.headers)
               /\ ~Shows(r.query, case.capture.query)
               /\ case.capture.query = {} \/ ~Unparsable(Sent.path) =>
                     r.path = Sent.path /\ r.query = RedactQuery(case.capture, Sent.query)
               /\ case.whole => r.body = RedactBody(case.capture, Sent.body, Sent.headers, TRUE)
               /\ ~case.whole => r.body = IF HasNoBodyRules(case.capture) THEN Opaque ELSE Withheld
<1> DEFINE url == RedactURL(case.capture, URL(Sent))
           read == IF case.whole THEN Sent.body ELSE Opaque
           body == RedactBody(case.capture, read, Sent.headers, case.whole)
           r == Recorded.request
<1>1. /\ r.path = url.path /\ r.query = url.query /\ r.body = body
      /\ r.headers = RedactHeaders(case.capture, Sent.headers)
      /\ Recorded.whole = (case.whole /\ body # Withheld)
  BY DEF Recorded, Sent
<1>2. /\ IsRequest(Sent) /\ case.whole \in BOOLEAN /\ case.capture \in Rules
      /\ Sent.headers \in [HeaderNames -> AnyText \cup {"absent"}] /\ Sent.query \in RawTexts
  BY CaseMeans DEF Sent, IsConfigured, IsRequest
<1>3. /\ url.query \in RawTexts /\ ~Shows(url.query, case.capture.query)
      /\ case.capture.query = {} \/ ~Unparsable(Sent.path) =>
            url.path = Sent.path /\ url.query = RedactQuery(case.capture, Sent.query)
  <2>1. CASE case.capture.query # {} /\ Unparsable(Sent.path)
    <3>1. url.query = << >>
      BY <2>1 DEF RedactURL, URL
    <3>2. ~Shows(<< >>, case.capture.query)
      BY NoText DEF Shows
    <3> QED
      BY <2>1, <3>1, <3>2, NoText
  <2>2. CASE ~(case.capture.query # {} /\ Unparsable(Sent.path))
    <3>1. url.path = Sent.path /\ url.query = RedactQuery(case.capture, Sent.query)
      BY <2>2 DEF RedactURL, URL
    <3>2. LET q == RedactQuery(case.capture, Sent.query)
          IN  q \in RawTexts /\ ~Shows(q, case.capture.query)
      BY <1>2, RedactQueryMeans
    <3> QED
      BY <3>1, <3>2
  <2> QED
    BY <2>1, <2>2
<1>4. /\ body.syntax \in Syntaxes /\ body.pairs \in RawTexts
      /\ body.syntax # "form" => body.pairs = << >>
      /\ body.syntax \in {"json", "dup"} => IsDocument(body.doc)
      /\ ~case.whole => body = IF HasNoBodyRules(case.capture) THEN Opaque ELSE Withheld
  <2>1. CASE case.whole
    <3>1. body = RedactBody(case.capture, Sent.body, Sent.headers, TRUE)
      BY <1>2, <2>1
    <3> HIDE DEF body
    <3>2. LET b == RedactBody(case.capture, Sent.body, Sent.headers, TRUE)
          IN  /\ b.syntax \in Syntaxes /\ b.pairs \in RawTexts
              /\ b.syntax # "form" => b.pairs = << >>
              /\ b.syntax \in {"json", "dup"} => IsDocument(b.doc)
      BY <1>2, RedactBodyIsBody
    <3> QED
      BY <2>1, <3>1, <3>2
  <2>2. CASE ~case.whole
    <3>1. Opaque # Empty
      BY BodyMeans
    <3>2. body = IF HasNoBodyRules(case.capture) THEN Opaque ELSE Withheld
      BY <2>2, <3>1 DEF RedactBody, Unsafe
    <3> HIDE DEF body
    <3> QED
      BY <2>2, <3>2, BodyMeans, NoText DEF Syntaxes
  <2> QED
    BY <2>1, <2>2
<1>5. case.whole => body = RedactBody(case.capture, Sent.body, Sent.headers, TRUE)
  BY <1>2
<1> HIDE DEF url, body
<1>6. r.headers \in [HeaderNames -> AnyText \cup {"absent"}]
  BY <1>1, <1>2 DEF RedactHeaders, AnyText
<1>7. IsRequest(r)
  BY <1>1, <1>3, <1>4, <1>6 DEF IsRequest
<1> QED
  BY <1>1, <1>2, <1>3, <1>4, <1>5, <1>7

\* ... and of its body.
LEMMA RecordedBody ==
    ASSUME case \in Cases
    PROVE  LET b == Recorded.request.body
               rules == case.capture
           IN  \/ HasNoBodyRules(rules) /\ b = IF case.whole THEN Sent.body ELSE Opaque
               \/ case.whole /\ Sent.body = Empty /\ b = Empty
               \/ /\ b = Withheld /\ ~HasNoBodyRules(rules)
                  /\ case.whole => Sent.body # Empty /\ Unsafe(rules, Sent.body, Sent.headers, TRUE)
               \/ /\ case.whole /\ Sent.body # Empty /\ ~HasNoBodyRules(rules)
                  /\ Sent.headers[ContentEncoding] = "absent"
                  /\ \/ /\ Sent.headers[ContentType] = "json" /\ rules.json # {}
                        /\ Sent.body.syntax = "json"
                        /\ b = JSONBody(Redact(Sent.body.doc, rules.json))
                     \/ /\ Sent.headers[ContentType] = "form" /\ rules.form # {}
                        /\ ReadableForm(Sent.body)
                        /\ b = FormBody(Hidden(AsForm(Sent.body), rules.form))
                     \/ Sent.headers[ContentType] = "json" /\ rules.json = {} /\ b = Sent.body
                     \/ Sent.headers[ContentType] = "form" /\ rules.form = {} /\ b = Sent.body
<1> DEFINE b == Recorded.request.body
           rules == case.capture
           s == RedactBody(rules, Sent.body, Sent.headers, TRUE)
<1>1. /\ case.whole => b = s
      /\ ~case.whole => b = IF HasNoBodyRules(rules) THEN Opaque ELSE Withheld
  BY RecordedMeans
<1>2. IsRequest(Sent) /\ rules \in Rules
  BY CaseMeans DEF Sent, IsConfigured
<1>3. \/ s = Sent.body /\ (Sent.body = Empty \/ HasNoBodyRules(rules))
      \/ /\ s = Withheld /\ Sent.body # Empty /\ ~HasNoBodyRules(rules)
         /\ Unsafe(rules, Sent.body, Sent.headers, TRUE)
      \/ /\ Sent.body # Empty /\ ~HasNoBodyRules(rules)
         /\ Sent.headers[ContentEncoding] = "absent"
         /\ \/ /\ Sent.headers[ContentType] = "json" /\ rules.json # {}
               /\ Sent.body.syntax = "json"
               /\ s = JSONBody(Redact(Sent.body.doc, rules.json))
            \/ /\ Sent.headers[ContentType] = "form" /\ rules.form # {}
               /\ ReadableForm(Sent.body)
               /\ s = FormBody(Hidden(AsForm(Sent.body), rules.form))
            \/ Sent.headers[ContentType] = "json" /\ rules.json = {} /\ s = Sent.body
            \/ Sent.headers[ContentType] = "form" /\ rules.form = {} /\ s = Sent.body
  <2> HIDE DEF rules
  <2>1. IsRequest(Sent) /\ rules \in Rules
    BY <1>2
  <2> QED
    BY <2>1, RedactBodyMeans
<1> HIDE DEF b, s, rules
<1>4. CASE case.whole
  BY <1>1, <1>3, <1>4 DEF b, rules
<1>5. CASE ~case.whole
  BY <1>1, <1>5 DEF b, rules
<1> QED
  BY <1>4, <1>5

-----------------------------------------------------------------------------
(* What is replayed. *)

\* The request that execute makes has the texts of the recorded one.
LEMMA OutgoingMeans ==
    ASSUME case \in Cases, stored = Recorded
    PROVE  /\ IsRequest(Outgoing)
           /\ Outgoing.path = Join(case.prefix, ParsedPath(Recorded.request.path))
           /\ Outgoing.query = Recorded.request.query
           /\ Outgoing.body = Recorded.request.body
           /\ Outgoing.headers = OutgoingHeaders(Recorded.request.headers)
<1>1. /\ Outgoing.path = Join(case.prefix, ParsedPath(Recorded.request.path))
      /\ Outgoing.query = Recorded.request.query
      /\ Outgoing.body = Recorded.request.body
      /\ Outgoing.headers = OutgoingHeaders(Recorded.request.headers)
  BY DEF Outgoing
<1>2. IsRequest(Recorded.request)
  BY RecordedMeans
<1>3. \A n \in DOMAIN case.overrides : case.overrides[n] \in AnyText
  BY CaseMeans DEF IsConfigured
<1>4. OutgoingHeaders(Recorded.request.headers) \in [HeaderNames -> AnyText \cup {"absent"}]
  <2>1. Recorded.request.headers \in [HeaderNames -> AnyText \cup {"absent"}]
    BY <1>2 DEF IsRequest
  <2> QED
    BY <1>3, <2>1 DEF OutgoingHeaders
<1> QED
  BY <1>1, <1>2, <1>4 DEF IsRequest

\* Every header is as it should be: what was redacted when it was recorded is not
\* sent, nor is what the client's Connection names.
LEMMA HeadersRestored ==
    ASSUME case \in Cases, stored = Recorded, NEW n \in HeaderNames
    PROVE  Outgoing.headers[n] = RestoredHeader(n)
<1> DEFINE h == RedactHeaders(case.capture, Sent.headers)
<1>1. Outgoing.headers = OutgoingHeaders(h)
  BY OutgoingMeans, RecordedMeans
<1>2. \A m \in HeaderNames : h[m] = IF Sent.headers[m] # "absent" /\ m \in Mandatory \cup case.capture.headers
                                    THEN Marker ELSE Sent.headers[m]
  BY DEF RedactHeaders
<1>3. Connection \in HeaderNames /\ Connection \notin Mandatory /\ n \notin {"absent", Marker}
  BY NamesAssumption
<1>4. Marker # "absent"
  BY DEF Marker
<1> HIDE DEF h
<1>5. OutgoingHeaders(h)[n] =
        IF n \in DOMAIN case.overrides THEN case.overrides[n]
        ELSE IF n \in Omitted \/ n = h[Connection] \/ h[n] = Marker THEN "absent" ELSE h[n]
  BY DEF OutgoingHeaders
<1>6. n = h[Connection] <=> n = Sent.headers[Connection] /\ Connection \notin case.capture.headers
  BY <1>2, <1>3
<1> QED
  BY <1>1, <1>2, <1>5, <1>6 DEF RestoredHeader

-----------------------------------------------------------------------------
(* Documents. *)

\* What validateConfig demands of the pointers of rules and of runtime values.
ArePointers(rules) == rules \in SUBSET Seq(STRING) /\ \A r \in rules : r # << >> /\ r[1] = "/"

AreApart(fields) ==
    ArePointers(fields) /\ \A r, s \in fields : r # s => ~IsPrefix(Position(r), Position(s))

\* Redacting a document and filling in values gives what filling in alone would
\* have given, if no value was below a redacted field and no marker is left.
LEMMA DocumentRestored ==
    ASSUME NEW d, IsDocument(d), NEW rules, ArePointers(rules), NEW by, AreApart(DOMAIN by),
           rules # {} => ~HiddenBelowMarker(HiddenDocument(d, rules), DOMAIN by),
           rules # {} =>
              LET u == FilledDocument(HiddenDocument(d, rules), by)
              IN  \A p \in DOMAIN u \ {Root} : u[p] # RedactedValue
    PROVE  Content(FilledDocument(HiddenDocument(d, rules), by)) = RestoredDocument(d, by)
<1> DEFINE e == HiddenDocument(d, rules)
           u == FilledDocument(e, by)
           F == {Position(r) : r \in DOMAIN by}
           there == F \cap DOMAIN d
           kept == {p \in DOMAIN d : \A f \in there : ~IsPrefix(f, p)}
           now(f) == [type |-> "string", value |-> by[f]]
<1>1. /\ \A r \in DOMAIN by : r \in Seq(STRING)
      /\ \A r, s \in DOMAIN by : r # s => ~IsPrefix(Position(r), Position(s))
  BY DEF AreApart, ArePointers
<1>2. \A r \in DOMAIN by : Position(r) \in Seq(Range(Position(r)))
  BY <1>1, PointerNamesPosition
<1>3. \A p \in DOMAIN d : p \in Positions
  BY DEF IsDocument, Positions
<1>4. /\ IsDocument(e) /\ DOMAIN e \subseteq DOMAIN d
      /\ \A q \in DOMAIN e : \/ e[q] = d[q]
                             \/ q # Root /\ e[q] = RedactedValue /\ rules # {}
      /\ \A q \in DOMAIN d \ DOMAIN e :
            \E g \in DOMAIN e : g # Root /\ IsStrictPrefix(g, q) /\ e[g] = RedactedValue /\ rules # {}
  <2>1. CASE rules = {}
    BY <2>1 DEF HiddenDocument
  <2>2. CASE rules # {}
    <3>1. rules \in SUBSET Seq(STRING) /\ \A r \in rules : r # << >> /\ r[1] = "/"
      BY DEF ArePointers
    <3>2. LET fields == {Position(r) : r \in rules}
          IN  /\ IsDocument(e) /\ DOMAIN e \subseteq DOMAIN d
              /\ \A q \in DOMAIN e : \/ q \notin fields /\ e[q] = d[q]
                                     \/ q \in fields /\ q # Root /\ e[q] = RedactedValue
              /\ \A q \in DOMAIN d \ DOMAIN e :
                    \E g \in DOMAIN e : g # Root /\ IsStrictPrefix(g, q) /\ e[g] = RedactedValue
      BY <3>1, HiddenDocumentMeans
    <3> HIDE DEF e
    <3> QED
      BY <2>2, <3>2
  <2> QED
    BY <2>1, <2>2
<1>5. rules # {} => /\ ~HiddenBelowMarker(e, DOMAIN by)
                    /\ \A p \in DOMAIN u \ {Root} : u[p] # RedactedValue
  OBVIOUS
<1> HIDE DEF e
<1>6. F \cap DOMAIN e = there
  <2>1. ASSUME NEW r \in DOMAIN by, Position(r) \in DOMAIN d, Position(r) \notin DOMAIN e
        PROVE  FALSE
    <3>1. PICK g \in DOMAIN e : IsStrictPrefix(g, Position(r)) /\ e[g] = RedactedValue /\ rules # {}
      BY <1>4, <2>1
    <3>2. IsPrefix(g, Position(r)) /\ g # Position(r)
      BY <3>1 DEF IsStrictPrefix
    <3>3. g \in Prefixes(Position(r))
      BY <1>2, <1>3, <1>4, <3>2, PrefixIsAmong DEF Positions
    <3>4. HiddenBelowMarker(e, DOMAIN by)
      BY <3>1, <3>2, <3>3 DEF HiddenBelowMarker
    <3> QED
      BY <1>5, <3>1, <3>4
  <2> QED
    BY <1>4, <2>1
<1>7. /\ DOMAIN u = {q \in DOMAIN e : \A f \in there : ~IsStrictPrefix(f, q)}
      /\ \A q \in DOMAIN u :
            IF q \in there THEN \E r \in DOMAIN by : Position(r) = q /\ u[q] = now(r) ELSE u[q] = e[q]
  <2>1. LET fields == {Position(r) : r \in DOMAIN by} \cap DOMAIN e
        IN  /\ DOMAIN u = {q \in DOMAIN e : \A f \in fields : ~IsStrictPrefix(f, q)}
            /\ \A q \in DOMAIN u :
                  IF q \in fields
                  THEN \E r \in DOMAIN by :
                          Position(r) = q /\ u[q] = [type |-> "string", value |-> by[r]]
                  ELSE u[q] = e[q]
    BY <1>4, FilledDocumentMeans
  <2> HIDE DEF u, there
  <2> QED
    BY <1>6, <2>1
<1> HIDE DEF u
<1>8. ASSUME NEW q \in DOMAIN u, q \notin there PROVE u[q] = d[q]
  BY <1>4, <1>5, <1>7, <1>8
<1>9. ASSUME NEW r \in DOMAIN by, Position(r) \in there
      PROVE  Position(r) \in DOMAIN u /\ u[Position(r)] = now(r)
  <2>1. \A s \in DOMAIN by : ~IsStrictPrefix(Position(s), Position(r))
    BY <1>1 DEF IsStrictPrefix
  <2>2. Position(r) \in DOMAIN u
    BY <1>6, <1>7, <1>9, <2>1
  <2>3. PICK s \in DOMAIN by : Position(s) = Position(r) /\ u[Position(r)] = now(s)
    BY <1>7, <1>9, <2>2
  <2>4. IsPrefix(Position(s), Position(r))
    BY <1>2, <2>3, PrefixReflexive
  <2>5. s = r
    BY <1>1, <2>4
  <2> QED
    BY <2>2, <2>3, <2>5
<1>10. kept = DOMAIN u \ there
  <2>1. ASSUME NEW p \in kept PROVE p \in DOMAIN u \ there
    <3>1. p \in DOMAIN d /\ \A f \in there : ~IsPrefix(f, p)
      OBVIOUS
    <3>2. p \notin there
      BY <1>3, <3>1, PrefixReflexive DEF Positions
    <3>3. p \in DOMAIN e
      <4> SUFFICES ASSUME p \notin DOMAIN e PROVE FALSE
        OBVIOUS
      <4>1. PICK g \in DOMAIN e : g # Root /\ IsStrictPrefix(g, p) /\ e[g] = RedactedValue /\ rules # {}
        BY <1>4, <3>1
      <4>2. g \in Positions /\ p \in Positions /\ IsPrefix(g, p)
        BY <1>3, <1>4, <3>1, <4>1 DEF IsStrictPrefix
      <4>3. ASSUME NEW f \in there, IsPrefix(f, g) PROVE FALSE
        <5>1. f \in Positions
          BY <1>3
        <5>2. IsPrefix(f, p)
          BY <4>2, <4>3, <5>1, PrefixTransitive DEF Positions
        <5> QED
          BY <3>1, <5>2
      <4>4. g \in DOMAIN u
        BY <1>7, <4>3 DEF IsStrictPrefix
      <4>5. g \notin there
        BY <4>2, <4>3, PrefixReflexive DEF Positions
      <4>6. u[g] = RedactedValue
        BY <1>7, <4>1, <4>4, <4>5
      <4> QED
        BY <1>5, <4>1, <4>4, <4>6
    <3>4. p \in DOMAIN u
      BY <1>7, <3>1, <3>3 DEF IsStrictPrefix
    <3> QED
      BY <3>2, <3>4
  <2>2. ASSUME NEW p \in DOMAIN u \ there PROVE p \in kept
    <3>1. p \in DOMAIN d /\ \A f \in there : ~IsStrictPrefix(f, p)
      BY <1>4, <1>7
    <3> QED
      BY <3>1 DEF IsStrictPrefix
  <2> QED
    BY <2>1, <2>2
<1> DEFINE filled == {g \in DOMAIN by : Position(g) \in there}
           content == {<< p, d[p] >> : p \in kept} \cup {<< Position(f), now(f) >> : f \in filled}
<1>11. RestoredDocument(d, by) = content
  BY DEF RestoredDocument
<1> HIDE DEF now
<1>12. ASSUME NEW p \in DOMAIN u PROVE << p, u[p] >> \in content
  <2>1. CASE p \in there
    <3>1. PICK r \in DOMAIN by : Position(r) = p
      BY <2>1
    <3>2. r \in filled /\ u[p] = now(r)
      BY <1>9, <2>1, <3>1
    <3> HIDE DEF filled, kept
    <3> QED
      BY <3>1, <3>2
  <2>2. CASE p \notin there
    <3>1. p \in kept /\ u[p] = d[p]
      BY <1>8, <1>10, <2>2
    <3> HIDE DEF filled, kept
    <3> QED
      BY <3>1
  <2> QED
    BY <2>1, <2>2
<1>13. ASSUME NEW c \in content PROVE \E p \in DOMAIN u : c = << p, u[p] >>
  <2>1. CASE \E p \in kept : c = << p, d[p] >>
    BY <1>8, <1>10, <2>1
  <2>2. CASE \E f \in filled : c = << Position(f), now(f) >>
    <3>1. PICK f \in filled : c = << Position(f), now(f) >>
      BY <2>2
    <3>2. Position(f) \in DOMAIN u /\ u[Position(f)] = now(f)
      BY <1>9
    <3> QED
      BY <3>1, <3>2
  <2> HIDE DEF filled, kept
  <2> QED
    BY <2>1, <2>2
<1>14. Content(u) = content
  <2> HIDE DEF content
  <2> QED
    BY <1>12, <1>13 DEF Content
<1> QED
  BY <1>11, <1>14 DEF u, e

-----------------------------------------------------------------------------
(* Filling in. *)

LEMMA GivenMeans ==
    ASSUME case \in Cases
    PROVE  /\ \A g \in Groups : \A f \in Given(g) : case.values[g][f] \in AnyText
           /\ AreApart(Given("json"))
           /\ ArePointers(case.capture.json)
           /\ case.capture \in Rules
<1>1. IsConfigured(case)
  BY CaseMeans
<1>2. case.capture.json \in SUBSET Seq(STRING) /\ case.capture \in Rules
  BY <1>1 DEF IsConfigured, Rules
<1>3. Given("json") = DOMAIN case.values.json
  BY DEF Given
<1>4. /\ Given("json") \in SUBSET Seq(STRING)
      /\ \A r \in case.capture.json \cup Given("json") : r # << >> /\ r[1] = "/"
      /\ \A r, s \in Given("json") : r # s => ~IsPrefix(Position(r), Position(s))
  BY <1>1, <1>3 DEF IsConfigured
<1>5. \A g \in Groups : \A f \in Given(g) : case.values[g][f] \in AnyText
  BY <1>1 DEF IsConfigured, Given
<1> QED
  BY <1>2, <1>4, <1>5 DEF AreApart, ArePointers

\* The query, with the values of its fields.
LEMMA SubstitutedQueryMeans ==
    ASSUME NEW r
    PROVE  SubstitutedQuery(r) = Filled(r.query, case.values.query)
<1>1. Given("query") = DOMAIN case.values.query
  BY DEF Given
<1>2. Matched(r, "query") = DOMAIN case.values.query \cap Keys(r.query)
  BY <1>1 DEF Matched
<1>3. By(r, "query") = [f \in DOMAIN case.values.query \cap Keys(r.query) |-> case.values.query[f]]
  BY <1>2 DEF By
<1> QED
  BY <1>2, <1>3 DEF SubstitutedQuery, Filled

\* A form, with the values of its fields.
LEMMA SubstitutedFormMeans ==
    ASSUME NEW r, r.headers[ContentType] = "form"
    PROVE  /\ Matched(r, "json") = {}
           /\ Matched(r, "form") = Given("form") \cap Keys(AsForm(r.body))
           /\ SubstitutedBody(r) = IF Matched(r, "form") = {} THEN r.body
                                   ELSE FormBody(Filled(AsForm(r.body), case.values.form))
           /\ AsForm(SubstitutedBody(r)) = Filled(AsForm(r.body), case.values.form)
<1>1. Given("form") = DOMAIN case.values.form
  BY DEF Given
<1>2. Matched(r, "json") = {}
  BY DEF Matched
<1>3. Matched(r, "form") = Given("form") \cap Keys(AsForm(r.body))
  <2>1. r.body = Empty => Keys(AsForm(r.body)) = {}
    BY BodyMeans, NoText
  <2> QED
    BY <2>1 DEF Matched
<1>4. By(r, "form") = [f \in DOMAIN case.values.form \cap Keys(AsForm(r.body)) |-> case.values.form[f]]
  BY <1>1, <1>3 DEF By
<1>5. SubstitutedBody(r) = IF Matched(r, "form") = {} THEN r.body
                           ELSE FormBody(ReplaceValues(AsForm(r.body), By(r, "form")))
  BY <1>2 DEF SubstitutedBody
<1>6. CASE Matched(r, "form") = {}
  BY <1>1, <1>2, <1>3, <1>5, <1>6 DEF Filled
<1>7. CASE Matched(r, "form") # {}
  BY <1>1, <1>2, <1>3, <1>4, <1>5, <1>7, BodyMeans DEF Filled
<1> QED
  BY <1>6, <1>7

\* A document, with the values of its fields.
LEMMA SubstitutedJSONMeans ==
    ASSUME NEW r, r.headers[ContentType] = "json", r.body.syntax = "json"
    PROVE  /\ Matched(r, "form") = {}
           /\ Matched(r, "json") = Existing(r.body.doc, Given("json"))
           /\ SubstitutedBody(r).syntax = "json"
           /\ SubstitutedBody(r).doc = FilledDocument(r.body.doc, case.values.json)
           /\ Matched(r, "json") = {} => SubstitutedBody(r) = r.body
<1>1. Given("json") = DOMAIN case.values.json
  BY DEF Given
<1>2. Matched(r, "form") = {}
  BY DEF Matched
<1>3. Matched(r, "json") = Existing(r.body.doc, Given("json"))
  <2>1. r.body # Empty
    BY BodyMeans
  <2>2. Given("json") = {} => Existing(r.body.doc, Given("json")) = {}
    BY DEF Existing
  <2> QED
    BY <2>1, <2>2 DEF Matched
<1>4. By(r, "json") = [f \in Existing(r.body.doc, DOMAIN case.values.json) |-> case.values.json[f]]
  BY <1>1, <1>3 DEF By
<1>5. SubstitutedBody(r) = IF Matched(r, "json") = {} THEN r.body
                           ELSE JSONBody(Replace(r.body.doc, By(r, "json")))
  BY <1>2 DEF SubstitutedBody
<1>6. CASE Matched(r, "json") = {}
  BY <1>1, <1>2, <1>3, <1>5, <1>6 DEF FilledDocument
<1>7. CASE Matched(r, "json") # {}
  BY <1>1, <1>2, <1>3, <1>4, <1>5, <1>7, BodyMeans DEF FilledDocument
<1> QED
  BY <1>6, <1>7

\* Any other body stays as it is.
LEMMA SubstitutedOtherMeans ==
    ASSUME NEW r, ~UnclearBody(r),
           ~(r.headers[ContentType] = "json" /\ ReadableJSON(r.body)),
           ~(r.headers[ContentType] = "form" /\ ReadableForm(r.body))
    PROVE  Matched(r, "json") = {} /\ Matched(r, "form") = {} /\ SubstitutedBody(r) = r.body
<1>1. Matched(r, "json") = {} /\ Matched(r, "form") = {}
  BY DEF Matched, UnclearBody
<1> QED
  BY <1>1 DEF SubstitutedBody


\* The rest of the request is not touched.
LEMMA SubstitutedOutgoing ==
    LET r == Outgoing
    IN  /\ Substituted(r).path = r.path /\ Substituted(r).headers = r.headers
        /\ Substituted(r).query = SubstitutedQuery(r) /\ Substituted(r).body = SubstitutedBody(r)
  BY DEF Substituted, Outgoing

\* What is filled in is a request again.
LEMMA SubstitutedIsRequest ==
    ASSUME case \in Cases, stored = Recorded, ~UnclearQuery(Outgoing), ~UnclearBody(Outgoing)
    PROVE  IsRequest(Substituted(Outgoing))
<1> DEFINE r == Outgoing
<1>1. /\ IsRequest(r)
      /\ r.query \in RawTexts /\ r.headers \in [HeaderNames -> AnyText \cup {"absent"}]
      /\ r.body.syntax \in Syntaxes /\ r.body.pairs \in RawTexts
      /\ r.body.syntax # "form" => r.body.pairs = << >>
      /\ r.body.syntax \in {"json", "dup"} => IsDocument(r.body.doc)
  BY OutgoingMeans DEF IsRequest
<1>2. /\ Substituted(r).headers = r.headers
      /\ Substituted(r).query = SubstitutedQuery(r) /\ Substituted(r).body = SubstitutedBody(r)
  BY SubstitutedOutgoing
<1>3. ~UnclearQuery(r) /\ ~UnclearBody(r)
  OBVIOUS
<1>4. (\A f \in DOMAIN case.values.query : case.values.query[f] \in AnyText)
      /\ (\A f \in DOMAIN case.values.form : case.values.form[f] \in AnyText)
  BY GivenMeans DEF Groups, Given
<1> HIDE DEF r
<1>5. SubstitutedQuery(r) \in RawTexts
  <2>1. DOMAIN case.values.query \cap Keys(r.query) # {} => ~Malformed(r.query)
    BY <1>3 DEF UnclearQuery, Given
  <2> QED
    BY <1>1, <1>4, <2>1, SubstitutedQueryMeans, FilledText
<1> DEFINE b == SubstitutedBody(r)
<1>6. /\ b.syntax \in Syntaxes /\ b.pairs \in RawTexts
      /\ b.syntax # "form" => b.pairs = << >>
      /\ b.syntax \in {"json", "dup"} => IsDocument(b.doc)
  <2>1. CASE b = r.body
    BY <1>1, <2>1
  <2>2. CASE r.headers[ContentType] = "json" /\ ReadableJSON(r.body)
    <3>1. r.body.syntax = "json"
      BY <2>2 DEF ReadableJSON
    <3>2. b.syntax = "json" /\ b.doc = FilledDocument(r.body.doc, case.values.json)
          /\ Matched(r, "form") = {}
      BY <2>2, <3>1, SubstitutedJSONMeans
    <3>3. IsDocument(b.doc)
      <4>1. IsDocument(r.body.doc)
        BY <1>1, <3>1
      <4>2. IsDocument(FilledDocument(r.body.doc, case.values.json))
        BY <4>1, FilledDocumentMeans
      <4> QED
        BY <3>2, <4>2
    <3>4. b = r.body \/ b = JSONBody(Replace(r.body.doc, By(r, "json")))
      BY <3>2 DEF SubstitutedBody
    <3> HIDE DEF b
    <3>5. b.pairs = << >>
      BY <1>1, <3>1, <3>4, BodyMeans
    <3> QED
      BY <3>2, <3>3, <3>5, NoText DEF Syntaxes
  <2>3. CASE r.headers[ContentType] = "form" /\ ReadableForm(r.body) /\ b # r.body
    <3>1. b = FormBody(Filled(AsForm(r.body), case.values.form))
      BY <2>3, SubstitutedFormMeans
    <3>2. AsForm(r.body) \in RawTexts /\ ~Malformed(AsForm(r.body))
      BY <1>1, <2>3, FormOfBody DEF ReadableForm
    <3>3. Filled(AsForm(r.body), case.values.form) \in RawTexts
      BY <1>4, <3>2, FilledText
    <3> HIDE DEF b
    <3> QED
      BY <3>1, <3>3, BodyMeans DEF Syntaxes
  <2>4. CASE ~(r.headers[ContentType] = "json" /\ ReadableJSON(r.body))
             /\ ~(r.headers[ContentType] = "form" /\ ReadableForm(r.body))
    BY <1>3, <2>1, <2>4, SubstitutedOtherMeans
  <2> HIDE DEF b
  <2> QED
    BY <2>1, <2>2, <2>3, <2>4
<1> HIDE DEF b
<1>7. IsRequest(Substituted(r))
  BY <1>1, <1>2, <1>5, <1>6 DEF IsRequest, b
<1> QED
  BY <1>7 DEF r

-----------------------------------------------------------------------------
(* The invariant. *)

\* What is made of a recorded request depends on the case and on what is stored,
\* and neither changes once it is stored.
LEMMA SameMeaning ==
    ASSUME UNCHANGED <<case, stored>>
    PROVE  /\ Outgoing' = Outgoing /\ Shown' = Shown /\ QueryRefused' = QueryRefused
           /\ UnclearQuery(Outgoing)' = UnclearQuery(Outgoing)
           /\ UnclearBody(Outgoing)' = UnclearBody(Outgoing)
           /\ ValueMissing(Outgoing)' = ValueMissing(Outgoing)
           /\ Substituted(Outgoing)' = Substituted(Outgoing)
<1>1. Outgoing' = Outgoing
  BY DEF Outgoing, OutgoingHeaders
<1>2. ProtectedKeys' = ProtectedKeys
  BY DEF ProtectedKeys
<1>3. Shown' = Shown
  BY <1>1, <1>2 DEF Shown, Policy
<1>4. QueryRefused' = QueryRefused
  BY <1>2 DEF QueryRefused
<1>5. \A g : Given(g)' = Given(g)
  BY DEF Given
<1>6. UnclearQuery(Outgoing)' = UnclearQuery(Outgoing)
  BY <1>1, <1>5 DEF UnclearQuery
<1>7. UnclearBody(Outgoing)' = UnclearBody(Outgoing)
  BY <1>1, <1>5 DEF UnclearBody
<1>8. \A g : Matched(Outgoing, g)' = Matched(Outgoing, g)
  BY <1>1, <1>5 DEF Matched
<1>9. ValueMissing(Outgoing)' = ValueMissing(Outgoing)
  <2> DEFINE missing == \E group \in Groups : \E f \in Matched(Outgoing, group) : case.values[group][f] = ""
             later == \E group \in Groups : \E f \in Matched(Outgoing, group)' : case'.values[group][f] = ""
  <2>1. missing => later
    BY <1>8
  <2>2. later => missing
    BY <1>8
  <2>3. ValueMissing(Outgoing) = missing /\ ValueMissing(Outgoing)' = later
    BY DEF ValueMissing
  <2> HIDE DEF missing, later
  <2>4. missing \in BOOLEAN /\ later \in BOOLEAN
    BY DEF missing, later
  <2> QED
    BY <2>1, <2>2, <2>3, <2>4
<1>10. \A g : By(Outgoing, g)' = By(Outgoing, g)
  BY <1>8 DEF By
<1>11. Substituted(Outgoing)' = Substituted(Outgoing)
  BY <1>1, <1>8, <1>10 DEF Substituted, SubstitutedQuery, SubstitutedBody
<1> QED
  BY <1>1, <1>3, <1>4, <1>6, <1>7, <1>9, <1>11

\* Recording is done once.
LEMMA RecordedOnce ==
    ASSUME UNCHANGED case
    PROVE  Recorded' = Recorded
  BY DEF Recorded

LEMMA InitInv == Init => IInv
<1> SUFFICES ASSUME Init PROVE IInv
  OBVIOUS
<1>1. IsRequest(NoRequest)
  <2>1. NoRequest.headers \in [HeaderNames -> AnyText \cup {"absent"}]
    BY DEF NoRequest
  <2>2. NoRequest.query = << >> /\ NoRequest.body = Empty
    BY DEF NoRequest
  <2>3. Empty.syntax = "empty" /\ Empty.pairs = << >> /\ << >> \in RawTexts
    BY BodyMeans, NoText
  <2> QED
    BY <2>1, <2>2, <2>3 DEF IsRequest, Syntaxes
<1>2. NoRequest.body # Withheld
  BY BodyMeans DEF NoRequest
<1>3. TypeOK
  BY <1>1, <1>2 DEF TypeOK, Init, Reasons
<1>4. BuildInv /\ ApplyInv /\ ReportInv
  BY DEF BuildInv, ApplyInv, ReportInv, Init
<1> QED
  BY <1>3, <1>4 DEF IInv

LEMMA CaptureInv == IInv /\ Capture => IInv'
<1> SUFFICES ASSUME IInv, Capture PROVE IInv'
  OBVIOUS
<1>1. /\ main = "capture" /\ main' = "build" /\ stored' = Recorded
      /\ case' = case /\ out' = out /\ report' = report /\ why' = why
  BY DEF Capture
<1>2. why = "none" /\ report = << >> /\ case \in Cases /\ IsRequest(out)
  BY <1>1 DEF IInv, TypeOK, ReportInv
<1>3. TypeOK'
  <2>1. LET r == Recorded.request
        IN  IsRequest(r) /\ Recorded.whole \in BOOLEAN /\ (Recorded.whole <=> case.whole /\ r.body # Withheld)
    BY <1>2, RecordedMeans
  <2> QED
    BY <1>1, <1>2, <2>1 DEF TypeOK, Reasons
<1>4. BuildInv'
  BY <1>1, <1>2, RecordedOnce DEF BuildInv
<1>5. ApplyInv' /\ ReportInv'
  BY <1>1, <1>2 DEF ApplyInv, ReportInv
<1> QED
  BY <1>3, <1>4, <1>5 DEF IInv

LEMMA BuildKeepsInv == IInv /\ Build => IInv'
<1> SUFFICES ASSUME IInv, Build PROVE IInv'
  OBVIOUS
<1>1. main = "build" /\ case' = case /\ stored' = stored
  BY DEF Build
<1>2. /\ why = "none" /\ case \in Cases /\ IsRequest(out) /\ IsRequest(stored.request)
      /\ stored.whole \in BOOLEAN /\ (stored.request.body = Withheld => ~stored.whole)
      /\ stored = Recorded
  BY <1>1 DEF IInv, TypeOK, BuildInv
<1>3. /\ Outgoing' = Outgoing /\ Shown' = Shown /\ QueryRefused' = QueryRefused
      /\ Recorded' = Recorded
  BY <1>1, SameMeaning, RecordedOnce
<1>4. \/ /\ Unparsable(stored.request.path) /\ report' = << Shown[1] >>
         /\ main' = "refused" /\ why' = "url" /\ out' = out
      \/ /\ ~Unparsable(stored.request.path) /\ QueryRefused /\ report' = Shown
         /\ main' = "refused" /\ why' = "query" /\ out' = out
      \/ /\ ~Unparsable(stored.request.path) /\ ~QueryRefused /\ ~stored.whole /\ report' = Shown
         /\ main' = "refused" /\ why' = "body" /\ out' = out
      \/ /\ ~Unparsable(stored.request.path) /\ ~QueryRefused /\ stored.whole /\ report' = Shown
         /\ main' = "substitute" /\ why' = "none" /\ out' = Outgoing
  BY <1>1, <1>2 DEF Build, Refuse
<1>5. IsRequest(Outgoing)
  BY <1>2, OutgoingMeans
<1>6. TypeOK'
  BY <1>1, <1>2, <1>4, <1>5 DEF TypeOK, Reasons
<1>7. BuildInv'
  BY <1>1, <1>2, <1>3, <1>4 DEF BuildInv
<1>8. ApplyInv'
  BY <1>3, <1>4 DEF ApplyInv
<1>9. ReportInv'
  BY <1>3, <1>4 DEF ReportInv
<1> QED
  BY <1>6, <1>7, <1>8, <1>9 DEF IInv

LEMMA ApplyKeepsInv == IInv /\ Apply => IInv'
<1> SUFFICES ASSUME IInv, Apply PROVE IInv'
  OBVIOUS
<1>1. main = "substitute" /\ case' = case /\ stored' = stored /\ report' = report
  BY DEF Apply
<1>2. /\ why = "none" /\ case \in Cases /\ IsRequest(out) /\ IsRequest(stored.request)
      /\ stored.whole \in BOOLEAN /\ (stored.request.body = Withheld => ~stored.whole)
  BY <1>1 DEF IInv, TypeOK
<1>3. /\ stored = Recorded /\ out = Outgoing /\ report = Shown
      /\ ~Unparsable(stored.request.path) /\ ~QueryRefused /\ stored.whole
  BY <1>1, <1>2 DEF IInv, BuildInv, ApplyInv, ReportInv
<1>4. /\ Outgoing' = Outgoing /\ Shown' = Shown /\ QueryRefused' = QueryRefused
      /\ UnclearQuery(Outgoing)' = UnclearQuery(Outgoing)
      /\ UnclearBody(Outgoing)' = UnclearBody(Outgoing)
      /\ ValueMissing(Outgoing)' = ValueMissing(Outgoing)
      /\ Substituted(Outgoing)' = Substituted(Outgoing)
      /\ Recorded' = Recorded
  BY <1>1, SameMeaning, RecordedOnce
<1>5. \/ /\ UnclearQuery(Outgoing) \/ UnclearBody(Outgoing)
         /\ main' = "refused" /\ why' = "unclear" /\ out' = out
      \/ /\ ~UnclearQuery(Outgoing) /\ ~UnclearBody(Outgoing) /\ ValueMissing(Outgoing)
         /\ main' = "refused" /\ why' = "novalue" /\ out' = out
      \/ /\ ~UnclearQuery(Outgoing) /\ ~UnclearBody(Outgoing) /\ ~ValueMissing(Outgoing)
         /\ main' = "check" /\ why' = "none" /\ out' = Substituted(Outgoing)
  BY <1>1, <1>2, <1>3 DEF Apply, Refuse
<1>6. ~UnclearQuery(Outgoing) /\ ~UnclearBody(Outgoing) => IsRequest(Substituted(Outgoing))
  BY <1>2, <1>3, SubstitutedIsRequest
<1>7. TypeOK'
  BY <1>1, <1>2, <1>5, <1>6 DEF TypeOK, Reasons
<1>8. BuildInv'
  BY <1>1, <1>3, <1>4, <1>5 DEF BuildInv
<1>9. ApplyInv'
  BY <1>3, <1>4, <1>5 DEF ApplyInv
<1>10. ReportInv'
  BY <1>1, <1>3, <1>4, <1>5 DEF ReportInv
<1> QED
  BY <1>7, <1>8, <1>9, <1>10 DEF IInv

LEMMA CheckKeepsInv == IInv /\ Check => IInv'
<1> SUFFICES ASSUME IInv, Check PROVE IInv'
  OBVIOUS
<1>1. main = "check" /\ case' = case /\ stored' = stored /\ out' = out /\ report' = report
  BY DEF Check
<1>2. /\ why = "none" /\ case \in Cases /\ IsRequest(out) /\ IsRequest(stored.request)
      /\ stored.whole \in BOOLEAN /\ (stored.request.body = Withheld => ~stored.whole)
  BY <1>1 DEF IInv, TypeOK
<1>3. /\ stored = Recorded /\ report = Shown
      /\ ~Unparsable(stored.request.path) /\ ~QueryRefused /\ stored.whole
      /\ ~UnclearQuery(Outgoing) /\ ~UnclearBody(Outgoing) /\ ~ValueMissing(Outgoing)
      /\ out = Substituted(Outgoing)
  BY <1>1, <1>2 DEF IInv, BuildInv, ApplyInv, ReportInv
<1>4. /\ Outgoing' = Outgoing /\ Shown' = Shown /\ QueryRefused' = QueryRefused
      /\ UnclearQuery(Outgoing)' = UnclearQuery(Outgoing)
      /\ UnclearBody(Outgoing)' = UnclearBody(Outgoing)
      /\ ValueMissing(Outgoing)' = ValueMissing(Outgoing)
      /\ Substituted(Outgoing)' = Substituted(Outgoing)
      /\ Recorded' = Recorded
  BY <1>1, SameMeaning, RecordedOnce
<1>5. MarkersRemain(out)' = MarkersRemain(out)
  BY <1>1 DEF MarkersRemain
<1>6. \/ MarkersRemain(out) /\ main' = "refused" /\ why' = "marker"
      \/ ~MarkersRemain(out) /\ main' = "sent" /\ why' = "none"
  BY <1>1, <1>2 DEF Check, Refuse
<1>7. TypeOK'
  BY <1>1, <1>2, <1>6 DEF TypeOK, Reasons
<1>8. BuildInv'
  BY <1>1, <1>3, <1>4, <1>6 DEF BuildInv
<1>9. ApplyInv'
  BY <1>1, <1>3, <1>4, <1>5, <1>6 DEF ApplyInv
<1>10. ReportInv'
  BY <1>1, <1>3, <1>4, <1>6 DEF ReportInv
<1> QED
  BY <1>7, <1>8, <1>9, <1>10 DEF IInv

LEMMA StutteringKeepsInv == IInv /\ UNCHANGED vars => IInv'
<1> SUFFICES ASSUME IInv, UNCHANGED vars PROVE IInv'
  OBVIOUS
<1>1. UNCHANGED <<case, stored>> /\ main' = main /\ why' = why /\ out' = out /\ report' = report
  BY DEF vars
<1>2. /\ Outgoing' = Outgoing /\ Shown' = Shown /\ QueryRefused' = QueryRefused
      /\ UnclearQuery(Outgoing)' = UnclearQuery(Outgoing)
      /\ UnclearBody(Outgoing)' = UnclearBody(Outgoing)
      /\ ValueMissing(Outgoing)' = ValueMissing(Outgoing)
      /\ Substituted(Outgoing)' = Substituted(Outgoing)
      /\ Recorded' = Recorded
  BY <1>1, SameMeaning, RecordedOnce
<1>3. MarkersRemain(out)' = MarkersRemain(out)
  BY <1>1 DEF MarkersRemain
<1>4. TypeOK'
  BY <1>1 DEF IInv, TypeOK
<1>5. BuildInv' /\ ReportInv'
  BY <1>1, <1>2 DEF IInv, BuildInv, ReportInv
<1>6. ApplyInv'
  BY <1>1, <1>2, <1>3 DEF IInv, ApplyInv
<1> QED
  BY <1>4, <1>5, <1>6 DEF IInv

\* Where a request stands says what it has passed, and what is made of it depends
\* on the case alone (Capture, Build, Apply, Check: CaptureBody, execute and
\* Replacements.apply, each with its refusals).
THEOREM InductiveInvariant == Spec => []IInv
<1>1. IInv /\ [Next]_vars => IInv'
  BY CaptureInv, BuildKeepsInv, ApplyKeepsInv, CheckKeepsInv, StutteringKeepsInv DEF Next
<1> QED
  BY <1>1, InitInv, PTL DEF Spec

\* The type invariant: what is stored and what is built are requests, and a body
\* that was withheld is never taken for a whole one.
THEOREM TypeCorrect == Spec => []TypeOK
<1>1. IInv => TypeOK
  BY DEF IInv
<1> QED
  BY <1>1, InductiveInvariant, PTL

-----------------------------------------------------------------------------
(* What is protected. *)

LEMMA ShowsFewer ==
    ASSUME NEW text, NEW keys, ~Shows(text, keys), NEW fewer \in SUBSET keys
    PROVE  ~Shows(text, fewer)
  BY DEF Shows

LEMMA NothingToShow ==
    ASSUME NEW text
    PROVE  ~Shows(text, {})
  BY DEF Shows

\* A URL that is shown hides what the policy protects and what was hidden before.
LEMMA ShownHides ==
    ASSUME case \in Cases, stored = Recorded
    PROVE  /\ ~Shows(Shown[1].query, case.capture.query \cup Reported)
           /\ ~Shows(Shown[2].query, case.capture.query \cup Reported)
<1> DEFINE q == Recorded.request.query
           all == ProtectedKeys \cup case.capture.query
           red == RedactQuery(Policy, q)
<1>1. q \in RawTexts /\ ~Shows(q, case.capture.query)
  BY RecordedMeans DEF IsRequest
<1>2. Policy.query = ProtectedKeys
  <2>1. case.current \in Rules
    BY CaseMeans DEF IsConfigured
  <2>2. case.current \in [headers : SUBSET HeaderNames, json : SUBSET Seq(STRING),
                          query : SUBSET STRING, form : SUBSET STRING]
    BY <2>1 DEF Rules
  <2> QED
    BY <2>2 DEF Policy
<1>3. Reported \subseteq ProtectedKeys
  BY DEF Reported, ProtectedKeys, Given
<1>4. ~Shows(red, all)
  <2>1. \A more : ~Shows(q, more) => ~Shows(red, Policy.query \cup more)
    BY <1>1, RedactQueryMeans
  <2> HIDE DEF red, q
  <2> QED
    BY <1>1, <1>2, <2>1
<1>5. Outgoing.query = q
  BY OutgoingMeans
<1>6. Shown[2].query = red
  BY <1>5 DEF Shown
<1>7. Shown[1].query = red \/ Shown[1].query = << >>
  BY DEF Shown, RedactURL, URL
<1>8. ~Shows(<< >>, all)
  BY NoText DEF Shows
<1>9. case.capture.query \cup Reported \subseteq all
  BY <1>3
<1> HIDE DEF red, all
<1> QED
  BY <1>4, <1>6, <1>7, <1>8, <1>9, ShowsFewer

\* The stored body has no value of a field that the recorder protects.
LEMMA BodyHides ==
    ASSUME case \in Cases
    PROVE  LET b == Recorded.request.body
               fields == {Position(f) : f \in case.capture.json}
           IN  /\ Sent.headers[ContentType] = "form" /\ b # Empty =>
                     b = Withheld \/ ~Shows(AsForm(b), case.capture.form)
               /\ Sent.headers[ContentType] = "json" /\ b # Empty /\ fields # {} =>
                     \/ b = Withheld
                     \/ \A p \in DOMAIN b.doc : \A f \in fields :
                           IsPrefix(f, p) => b.doc[p] = RedactedValue
<1> DEFINE b == Recorded.request.body
           rules == case.capture
<1>2. IsRequest(Sent) /\ rules.json \in SUBSET Seq(STRING)
  BY CaseMeans, GivenMeans DEF Sent, ArePointers
<1>3. \/ b = Withheld
      \/ HasNoBodyRules(rules)
      \/ b = Empty
      \/ /\ Sent.headers[ContentType] = "json" /\ rules.json # {} /\ Sent.body.syntax = "json"
         /\ b = JSONBody(Redact(Sent.body.doc, rules.json))
      \/ /\ Sent.headers[ContentType] = "form" /\ rules.form # {} /\ ReadableForm(Sent.body)
         /\ b = FormBody(Hidden(AsForm(Sent.body), rules.form))
      \/ Sent.headers[ContentType] = "json" /\ rules.json = {}
      \/ Sent.headers[ContentType] = "form" /\ rules.form = {}
  BY RecordedBody
<1> HIDE DEF b
<1>4. ASSUME Sent.headers[ContentType] = "form", b # Empty
      PROVE  b = Withheld \/ ~Shows(AsForm(b), rules.form)
  <2>1. CASE rules.form = {}
    BY <2>1, NothingToShow
  <2>2. CASE ReadableForm(Sent.body) /\ b = FormBody(Hidden(AsForm(Sent.body), rules.form))
    <3>1. AsForm(Sent.body) \in RawTexts /\ ~Malformed(AsForm(Sent.body))
      BY <1>2, <2>2, FormOfBody DEF ReadableForm
    <3>2. ~Shows(Hidden(AsForm(Sent.body), rules.form), rules.form)
      BY <3>1, HiddenText
    <3> QED
      BY <2>2, <3>2, BodyMeans
  <2> QED
    BY <1>3, <1>4, <2>1, <2>2 DEF HasNoBodyRules
<1>5. ASSUME Sent.headers[ContentType] = "json", b # Empty, rules.json # {}, b # Withheld,
             NEW p \in DOMAIN b.doc, NEW f \in rules.json, IsPrefix(Position(f), p)
      PROVE  b.doc[p] = RedactedValue
  <2>1. Sent.body.syntax = "json" /\ b = JSONBody(Redact(Sent.body.doc, rules.json))
    BY <1>3, <1>5 DEF HasNoBodyRules
  <2>2. IsDocument(Sent.body.doc)
    BY <1>2, <2>1 DEF IsRequest
  <2>3. b.doc = Redact(Sent.body.doc, rules.json)
    BY <2>1, BodyMeans
  <2>4. p \in DOMAIN Redact(Sent.body.doc, rules.json)
    BY <2>3
  <2>5. Redact(Sent.body.doc, rules.json)[p] = RedactedValue
    BY <1>2, <1>5, <2>2, <2>4, RedactHides
  <2> QED
    BY <2>3, <2>5
<1> QED
  BY <1>4, <1>5 DEF b

\* No value of a field that the recorder protects is stored, whatever its spelling,
\* number and place, and no URL that replay shows has a value that the recorder,
\* the user of replay or a runtime value protects (sanitize.Rules, execute).
THEOREM NothingProtectedShows == Spec => []ProtectedNowhere
<1>1. ASSUME IInv PROVE ProtectedNowhere
  <2>1. /\ case \in Cases /\ (main # "capture" => stored = Recorded)
        /\ report = IF main \in {"capture", "build"} THEN << >>
                    ELSE IF why = "url" THEN << Shown[1] >> ELSE Shown
    BY <1>1 DEF IInv, TypeOK, BuildInv, ReportInv
  <2>2. ASSUME main # "capture"
        PROVE  LET r == stored.request
                   fields == {Position(f) : f \in case.capture.json}
               IN  /\ ~Shows(r.query, case.capture.query)
                   /\ \A n \in Mandatory \cup case.capture.headers : r.headers[n] \in {"absent", Marker}
                   /\ Sent.headers[ContentType] = "form" /\ r.body # Empty =>
                         r.body = Withheld \/ ~Shows(AsForm(r.body), case.capture.form)
                   /\ Sent.headers[ContentType] = "json" /\ r.body # Empty /\ fields # {} =>
                         \/ r.body = Withheld
                         \/ \A p \in DOMAIN r.body.doc : \A f \in fields :
                               IsPrefix(f, p) => r.body.doc[p] = RedactedValue
    <3>1. stored = Recorded
      BY <2>1, <2>2
    <3>2. /\ ~Shows(Recorded.request.query, case.capture.query)
          /\ Recorded.request.headers = RedactHeaders(case.capture, Sent.headers)
      BY <2>1, RecordedMeans
    <3>3. Mandatory \cup case.capture.headers \subseteq HeaderNames
      <4>1. case.capture \in [headers : SUBSET HeaderNames, json : SUBSET Seq(STRING),
                              query : SUBSET STRING, form : SUBSET STRING]
        BY <2>1, GivenMeans DEF Rules
      <4> QED
        BY <4>1, NamesAssumption
    <3>4. \A n \in Mandatory \cup case.capture.headers :
             RedactHeaders(case.capture, Sent.headers)[n] \in {"absent", Marker}
      BY <3>3 DEF RedactHeaders
    <3> QED
      BY <2>1, <3>1, <3>2, <3>4, BodyHides
  <2>3. \A i \in DOMAIN report : ~Shows(report[i].query, case.capture.query \cup Reported)
    <3>1. CASE main \in {"capture", "build"}
      BY <2>1, <3>1
    <3>2. CASE main \notin {"capture", "build"}
      <4>1. /\ ~Shows(Shown[1].query, case.capture.query \cup Reported)
            /\ ~Shows(Shown[2].query, case.capture.query \cup Reported)
        BY <2>1, <3>2, ShownHides
      <4>2. DOMAIN Shown = {1, 2}
        BY DEF Shown
      <4>3. report = << Shown[1] >> \/ report = Shown
        BY <2>1, <3>2
      <4> QED
        BY <4>1, <4>2, <4>3
    <3> QED
      BY <3>1, <3>2
  <2> QED
    BY <2>2, <2>3 DEF ProtectedNowhere
<1> QED
  BY <1>1, InductiveInvariant, PTL

-----------------------------------------------------------------------------
(* What is sent. *)

\* Where a request that is sent has been.
LEMMA SentHasPassed ==
    ASSUME IInv, main = "sent"
    PROVE  /\ case \in Cases /\ stored = Recorded /\ why = "none"
           /\ ~Unparsable(Recorded.request.path) /\ Recorded.whole
           /\ ~UnclearQuery(Outgoing) /\ ~UnclearBody(Outgoing) /\ ~ValueMissing(Outgoing)
           /\ out = Substituted(Outgoing) /\ ~MarkersRemain(out)
           /\ out.path = Outgoing.path /\ out.headers = Outgoing.headers
           /\ out.query = Filled(Recorded.request.query, case.values.query)
           /\ out.body = SubstitutedBody(Outgoing)
           /\ Outgoing.body = Recorded.request.body
           /\ IsRequest(Outgoing) /\ IsRequest(out)
<1>1. /\ case \in Cases /\ stored = Recorded /\ why = "none" /\ IsRequest(out)
      /\ ~Unparsable(stored.request.path) /\ stored.whole
      /\ ~UnclearQuery(Outgoing) /\ ~UnclearBody(Outgoing) /\ ~ValueMissing(Outgoing)
      /\ out = Substituted(Outgoing) /\ ~MarkersRemain(out)
  BY DEF IInv, TypeOK, BuildInv, ApplyInv
<1>2. /\ out.path = Outgoing.path /\ out.headers = Outgoing.headers
      /\ out.query = SubstitutedQuery(Outgoing) /\ out.body = SubstitutedBody(Outgoing)
  BY <1>1, SubstitutedOutgoing
<1>3. Outgoing.query = Recorded.request.query /\ Outgoing.body = Recorded.request.body /\ IsRequest(Outgoing)
  BY <1>1, OutgoingMeans
<1> QED
  BY <1>1, <1>2, <1>3, SubstitutedQueryMeans

\* Without rules and values for its fields a query goes through as it was spelled;
\* so does a body, and a path that is not taken for a host (Rules.URL, Rules.Body,
\* Replacements.apply).
THEOREM VerbatimIfUntouched == Spec => []UntouchedIsVerbatim
<1>1. ASSUME IInv, main = "sent"
      PROVE  /\ case.capture.query \cup (Given("query") \cap Keys(Sent.query)) = {} => out.query = Sent.query
             /\ NoBodyRules => out.body = Sent.body
             /\ ~Authority(Sent.path) => out.path = Join(case.prefix, Sent.path)
  <2>1. /\ case \in Cases /\ stored = Recorded /\ Recorded.whole
        /\ out.path = Outgoing.path
        /\ out.query = Filled(Recorded.request.query, case.values.query)
        /\ out.body = SubstitutedBody(Outgoing)
        /\ Outgoing.body = Recorded.request.body
    BY <1>1, SentHasPassed
  <2>2. /\ case.capture.query = {} \/ ~Unparsable(Sent.path) =>
              /\ Recorded.request.path = Sent.path
              /\ Recorded.request.query = RedactQuery(case.capture, Sent.query)
        /\ case.whole => Recorded.request.body = RedactBody(case.capture, Sent.body, Sent.headers, TRUE)
        /\ Recorded.whole => case.whole
    BY <2>1, RecordedMeans
  <2>3. ASSUME case.capture.query \cup (Given("query") \cap Keys(Sent.query)) = {}
        PROVE  out.query = Sent.query
    <3>1. Recorded.request.query = Sent.query
      BY <2>2, <2>3 DEF RedactQuery
    <3>2. DOMAIN case.values.query \cap Keys(Sent.query) = {}
      BY <2>3 DEF Given
    <3> QED
      BY <2>1, <3>1, <3>2 DEF Filled
  <2>4. ASSUME NoBodyRules PROVE out.body = Sent.body
    <3>1. Recorded.request.body = Sent.body
      BY <2>1, <2>2, <2>4 DEF RedactBody, NoBodyRules
    <3>2. Matched(Outgoing, "json") = {} /\ Matched(Outgoing, "form") = {}
      BY <2>4 DEF Matched, NoBodyRules
    <3> QED
      BY <2>1, <3>1, <3>2 DEF SubstitutedBody
  <2>5. ASSUME ~Authority(Sent.path) PROVE out.path = Join(case.prefix, Sent.path)
    <3>1. Recorded.request.path = Sent.path
      BY <2>2, <2>5 DEF Unparsable
    <3>2. Outgoing.path = Join(case.prefix, ParsedPath(Recorded.request.path))
      BY <2>1, OutgoingMeans
    <3> QED
      BY <2>1, <2>5, <3>1, <3>2 DEF ParsedPath
  <2> QED
    BY <2>3, <2>4, <2>5
<1>2. IInv => UntouchedIsVerbatim
  BY <1>1 DEF UntouchedIsVerbatim
<1> QED
  BY <1>2, InductiveInvariant, PTL

\* The query of a request that is sent: the fields of the client's, with the values
\* that were given for them.
LEMMA QuerySent ==
    ASSUME IInv, main = "sent", ~Unparsable(Sent.path)
    PROVE  IF Malformed(Sent.query) THEN out.query = Sent.query
           ELSE ParseQuery(out.query) = RestoredPairs(Sent.query, case.values.query)
<1> DEFINE by == case.values.query
           keys == case.capture.query
           q == Recorded.request.query
<1>1. /\ case \in Cases /\ stored = Recorded /\ ~UnclearQuery(Outgoing) /\ ~MarkersRemain(out)
      /\ out.query = Filled(q, by)
  BY SentHasPassed
<1>2. Sent.query \in RawTexts
  BY <1>1, CaseMeans DEF Sent, IsRequest
<1>3. q = RedactQuery(case.capture, Sent.query)
  BY <1>1, RecordedMeans
<1>4. q = IF keys # {} /\ Malformed(Sent.query) THEN WithheldQuery ELSE Hidden(Sent.query, keys)
  BY <1>2, <1>3, RedactQueryMeans
<1>5. Outgoing.query = q
  BY <1>1, OutgoingMeans
<1>6. DOMAIN by = {} \/ (~QueryWithheld(q) /\ ~Malformed(q))
  BY <1>1, <1>5 DEF UnclearQuery, Given
<1>7. MarkedKeys(out.query) = {}
  BY <1>1 DEF MarkersRemain
<1>8. \A f \in DOMAIN by : by[f] \in AnyText
  BY <1>1, GivenMeans DEF Given, Groups
<1> HIDE DEF q, by
<1>9. DOMAIN by = {} => Filled(q, by) = q
  BY DEF Filled
<1>10. CASE keys # {} /\ Malformed(Sent.query)
  <2>1. q = WithheldQuery
    BY <1>4, <1>10
  <2>2. QueryWithheld(q) /\ MarkedKeys(q) # {}
    BY <2>1, WithheldQueryMeans
  <2> QED
    BY <1>1, <1>6, <1>7, <1>9, <2>2
<1>11. CASE keys = {} /\ Malformed(Sent.query)
  <2>1. q = Sent.query
    BY <1>4, <1>11 DEF Hidden
  <2> QED
    BY <1>1, <1>6, <1>9, <1>11, <2>1
<1>12. CASE ~Malformed(Sent.query)
  <2>1. q = Hidden(Sent.query, keys)
    BY <1>4, <1>12
  <2>2. MarkedKeys(Filled(Hidden(Sent.query, keys), by)) = {}
    BY <1>1, <1>7, <2>1
  <2> HIDE DEF keys
  <2>3. ParseQuery(Filled(Hidden(Sent.query, keys), by)) = RestoredPairs(Sent.query, by)
    BY <1>2, <1>8, <1>12, <2>2, FilledIsRestored
  <2> QED
    BY <1>1, <1>12, <2>1, <2>3 DEF by
<1> QED
  BY <1>10, <1>11, <1>12

\* The headers that say what the body is reach the upstream as they were.
LEMMA TypeSent ==
    ASSUME case \in Cases, stored = Recorded
    PROVE  /\ SameType => Outgoing.headers[ContentType] = Sent.headers[ContentType]
           /\ StillPlain /\ Sent.headers[ContentEncoding] = "absent" =>
                 Outgoing.headers[ContentEncoding] = "absent"
<1>1. ContentType \in HeaderNames /\ ContentEncoding \in HeaderNames
  BY NamesAssumption
<1>2. /\ Outgoing.headers[ContentType] = RestoredHeader(ContentType)
      /\ Outgoing.headers[ContentEncoding] = RestoredHeader(ContentEncoding)
  BY <1>1, HeadersRestored
<1> QED
  BY <1>2 DEF SameType, StillPlain

\* A form that is sent, likewise.
LEMMA FormSent ==
    ASSUME IInv, main = "sent", SameType, StillPlain, HasForm
    PROVE  ParseQuery(AsForm(out.body)) = RestoredPairs(AsForm(Sent.body), case.values.form)
<1> DEFINE by == case.values.form
           text == AsForm(Sent.body)
           b == Recorded.request.body
<1>1. /\ case \in Cases /\ stored = Recorded /\ Recorded.whole /\ ~MarkersRemain(out)
      /\ out.headers = Outgoing.headers /\ out.body = SubstitutedBody(Outgoing)
      /\ Outgoing.body = b
  BY SentHasPassed
<1>2. case.whole /\ b # Withheld
  BY <1>1, RecordedMeans
<1>3. text \in RawTexts /\ ~Malformed(text) /\ Sent.headers[ContentType] = "form"
  BY <1>1, CaseMeans, FormOfBody DEF HasForm, ReadableForm, Sent
<1>4. out.headers[ContentType] = "form"
      /\ (Sent.headers[ContentEncoding] = "absent" => out.headers[ContentEncoding] = "absent")
  BY <1>1, <1>3, TypeSent
<1>5. AsForm(out.body) = Filled(AsForm(b), by)
  BY <1>1, <1>4, SubstitutedFormMeans
<1>6. \A f \in DOMAIN by : by[f] \in AnyText
  BY <1>1, GivenMeans DEF Given, Groups
<1>7. \/ b = Sent.body
      \/ /\ Sent.headers[ContentEncoding] = "absent"
         /\ b = FormBody(Hidden(text, case.capture.form))
  BY <1>1, <1>2, <1>3, RecordedBody
<1> HIDE DEF b, by, text
<1>8. CASE b = Sent.body
  <2>1. AsForm(b) = Hidden(text, {})
    BY <1>8 DEF Hidden, text
  <2>2. ParseQuery(Filled(Hidden(text, {}), by)) = RestoredPairs(text, by)
    BY <1>3, <1>6, FilledIsRestored
  <2> QED
    BY <1>5, <2>1, <2>2 DEF text, by
<1>9. CASE Sent.headers[ContentEncoding] = "absent" /\ b = FormBody(Hidden(text, case.capture.form))
  <2>1. AsForm(b) = Hidden(text, case.capture.form)
    BY <1>9, BodyMeans
  <2>2. MarkedKeys(AsForm(out.body)) = {}
    BY <1>1, <1>4, <1>9 DEF MarkersRemain
  <2>3. MarkedKeys(Filled(Hidden(text, case.capture.form), by)) = {}
    BY <1>5, <2>1, <2>2
  <2>4. ParseQuery(Filled(Hidden(text, case.capture.form), by)) = RestoredPairs(text, by)
    BY <1>3, <1>6, <2>3, FilledIsRestored
  <2> QED
    BY <1>5, <2>1, <2>4 DEF text, by
<1> QED
  BY <1>7, <1>8, <1>9

\* A document that is sent: the client's, with the values that were given for its
\* fields.
LEMMA DocumentSent ==
    ASSUME IInv, main = "sent", SameType, StillPlain, HasJSON
    PROVE  Content(out.body.doc) = RestoredDocument(Sent.body.doc, case.values.json)
<1> DEFINE by == case.values.json
           d == Sent.body.doc
           b == Recorded.request.body
           rules == case.capture.json
<1>1. /\ case \in Cases /\ stored = Recorded /\ Recorded.whole /\ ~MarkersRemain(out)
      /\ out.headers = Outgoing.headers /\ out.body = SubstitutedBody(Outgoing)
      /\ Outgoing.body = b /\ ~UnclearBody(Outgoing)
  BY SentHasPassed
<1>2. case.whole /\ b # Withheld
  BY <1>1, RecordedMeans
<1>3. IsDocument(d) /\ Sent.headers[ContentType] = "json" /\ Sent.body.syntax = "json"
  BY <1>1, CaseMeans DEF HasJSON, ReadableJSON, Sent, IsRequest
<1>4. out.headers[ContentType] = "json"
      /\ (Sent.headers[ContentEncoding] = "absent" => out.headers[ContentEncoding] = "absent")
  BY <1>1, <1>3, TypeSent
<1>5. AreApart(DOMAIN by) /\ ArePointers(rules)
  BY <1>1, GivenMeans DEF Given
<1>6. \/ b = Sent.body
      \/ /\ Sent.headers[ContentEncoding] = "absent" /\ rules # {}
         /\ b = JSONBody(Redact(d, rules))
  BY <1>1, <1>2, <1>3, RecordedBody
<1>7. Outgoing.headers[ContentType] = "json" /\ Outgoing.body.syntax = "json" /\ Outgoing.body # Empty
  BY <1>1, <1>3, <1>4, <1>6, BodyMeans
<1>8. out.body.syntax = "json" /\ out.body.doc = FilledDocument(b.doc, by)
  BY <1>1, <1>7, SubstitutedJSONMeans
<1> HIDE DEF b, by, d, rules
<1>9. CASE b = Sent.body
  <2>1. b.doc = HiddenDocument(d, {})
    BY <1>9 DEF HiddenDocument, d
  <2>2. ArePointers({})
    BY DEF ArePointers
  <2>3. Content(FilledDocument(HiddenDocument(d, {}), by)) = RestoredDocument(d, by)
    BY <1>3, <1>5, <2>2, DocumentRestored
  <2> QED
    BY <1>8, <2>1, <2>3 DEF d, by
<1>10. CASE /\ Sent.headers[ContentEncoding] = "absent" /\ rules # {}
            /\ b = JSONBody(Redact(d, rules))
  <2> DEFINE e == HiddenDocument(d, rules)
             u == FilledDocument(e, by)
  <2>1. b.doc = e
    BY <1>10, BodyMeans DEF HiddenDocument
  <2>2. ~HiddenBelowMarker(e, DOMAIN by)
    <3>1. CASE DOMAIN by = {}
      BY <3>1 DEF HiddenBelowMarker
    <3>2. CASE DOMAIN by # {}
      <4>1. Given("json") # {} /\ Given("json") = DOMAIN by
        BY <3>2 DEF Given, by
      <4>2. Outgoing.body.doc = e
        BY <1>1, <2>1
      <4> HIDE DEF e
      <4> QED
        BY <1>1, <1>7, <4>1, <4>2 DEF UnclearBody
    <3> QED
      BY <3>1, <3>2
  <2>3. MarkerPointers(out.body.doc) = {}
    BY <1>1, <1>4, <1>8, <1>10 DEF MarkersRemain, ReadableJSON
  <2>4. out.body.doc = u
    BY <1>8, <2>1
  <2> HIDE DEF u
  <2>5. \A p \in DOMAIN u \ {Root} : u[p] # RedactedValue
    BY <2>3, <2>4 DEF MarkerPointers
  <2>6. Content(u) = RestoredDocument(d, by)
    BY <1>3, <1>5, <2>2, <2>5, DocumentRestored DEF u
  <2> QED
    BY <2>4, <2>6 DEF d, by
<1> QED
  BY <1>6, <1>9, <1>10

\* Any other body that is sent is the client's.
LEMMA OtherSent ==
    ASSUME IInv, main = "sent", SameType, ~HasJSON, ~HasForm
    PROVE  out.body = Sent.body
<1> DEFINE b == Recorded.request.body
<1>1. /\ case \in Cases /\ stored = Recorded /\ Recorded.whole
      /\ out.body = SubstitutedBody(Outgoing)
      /\ Outgoing.body = b /\ ~UnclearBody(Outgoing)
  BY SentHasPassed
<1>2. case.whole /\ b # Withheld
  BY <1>1, RecordedMeans
<1>3. ~(Sent.headers[ContentType] = "json" /\ Sent.body.syntax = "json")
      /\ ~(Sent.headers[ContentType] = "form" /\ ReadableForm(Sent.body))
  BY DEF HasJSON, HasForm, ReadableJSON
<1>4. b = Sent.body
  BY <1>1, <1>2, <1>3, RecordedBody
<1>5. Outgoing.headers[ContentType] = Sent.headers[ContentType]
  BY <1>1, TypeSent
<1>6. /\ ~(Outgoing.headers[ContentType] = "json" /\ ReadableJSON(Outgoing.body))
      /\ ~(Outgoing.headers[ContentType] = "form" /\ ReadableForm(Outgoing.body))
  BY <1>1, <1>3, <1>4, <1>5 DEF ReadableJSON
<1> QED
  BY <1>1, <1>4, <1>6, SubstitutedOtherMeans

\* What is sent is the client's request with the configured values in place of
\* redacted fields; nothing is lost, added or left as a marker on the way (Rules,
\* copyReplayHeaders, Replacements.apply, rejectRemainingMarkers).
THEOREM RestoredWhenSent == Spec => []SentIsRestored
<1>1. ASSUME IInv, main = "sent", ~Unparsable(Sent.path)
      PROVE  /\ case.whole
             /\ \A n \in HeaderNames : out.headers[n] = RestoredHeader(n)
             /\ IF Malformed(Sent.query) THEN out.query = Sent.query
                ELSE ParseQuery(out.query) = RestoredPairs(Sent.query, case.values.query)
             /\ SameType /\ StillPlain =>
                   /\ HasJSON => Content(out.body.doc) = RestoredDocument(Sent.body.doc, case.values.json)
                   /\ HasForm => ParseQuery(AsForm(out.body)) =
                                     RestoredPairs(AsForm(Sent.body), case.values.form)
                   /\ ~HasJSON /\ ~HasForm => out.body = Sent.body
  <2>1. case \in Cases /\ stored = Recorded /\ Recorded.whole /\ out.headers = Outgoing.headers
    BY <1>1, SentHasPassed
  <2>2. case.whole
    BY <2>1, RecordedMeans
  <2>3. \A n \in HeaderNames : out.headers[n] = RestoredHeader(n)
    BY <2>1, HeadersRestored
  <2>4. IF Malformed(Sent.query) THEN out.query = Sent.query
        ELSE ParseQuery(out.query) = RestoredPairs(Sent.query, case.values.query)
    BY <1>1, QuerySent
  <2>5. ASSUME SameType, StillPlain
        PROVE  /\ HasJSON => Content(out.body.doc) = RestoredDocument(Sent.body.doc, case.values.json)
               /\ HasForm => ParseQuery(AsForm(out.body)) =
                                 RestoredPairs(AsForm(Sent.body), case.values.form)
               /\ ~HasJSON /\ ~HasForm => out.body = Sent.body
    BY <1>1, <2>5, DocumentSent, FormSent, OtherSent
  <2> QED
    BY <2>2, <2>3, <2>4, <2>5
<1>2. IInv => SentIsRestored
  BY <1>1 DEF SentIsRestored
<1> QED
  BY <1>2, InductiveInvariant, PTL

-----------------------------------------------------------------------------
(* What is refused. *)

LEMMA MarkedAreKeys ==
    ASSUME NEW text
    PROVE  MarkedKeys(text) \subseteq Keys(text)
  BY DEF MarkedKeys, Keys

\* The fields that have a value which can be sent.
HaveValues(by) == {f \in DOMAIN by : by[f] \notin {"", Marker}}

\* If the fields that are redacted or marked have values, filling them in leaves no
\* marker.
LEMMA PairsResolved ==
    ASSUME NEW text \in RawTexts, NEW keys, NEW by, \A f \in DOMAIN by : by[f] \in AnyText,
           \/ keys \cup DOMAIN by = {} /\ MarkedKeys(text) = {}
           \/ /\ ~Malformed(text)
              /\ (keys \cap Keys(text)) \cup MarkedKeys(text) \subseteq HaveValues(by)
              /\ DOMAIN by \cap Keys(text) \subseteq HaveValues(by)
    PROVE  LET h == Hidden(text, keys)
           IN  /\ Malformed(text) => keys = {} /\ DOMAIN by = {}
               /\ h \in RawTexts /\ Keys(h) = Keys(text) /\ (Malformed(h) <=> Malformed(text))
               /\ ~Malformed(text) => MarkedKeys(h) = MarkedKeys(text) \cup (keys \cap Keys(text))
               /\ \A f \in DOMAIN by \cap Keys(h) : by[f] # ""
               /\ MarkedKeys(Filled(h, by)) = {}
<1> DEFINE h == Hidden(text, keys)
<1>1. Malformed(text) => keys = {} /\ DOMAIN by = {}
  OBVIOUS
<1>2. /\ h \in RawTexts /\ Keys(h) = Keys(text) /\ (Malformed(h) <=> Malformed(text))
      /\ ~Malformed(text) => MarkedKeys(h) = MarkedKeys(text) \cup (keys \cap Keys(text))
  BY <1>1, HiddenText
<1>3. keys = {} => h = text
  BY DEF Hidden
<1> HIDE DEF h
<1>4. CASE keys \cup DOMAIN by = {} /\ MarkedKeys(text) = {}
  <2>1. keys = {} /\ DOMAIN by = {} /\ h = text
    BY <1>3, <1>4
  <2>2. Filled(h, by) = text
    BY <2>1 DEF Filled
  <2> QED
    BY <1>1, <1>2, <1>4, <2>1, <2>2 DEF h
<1>5. CASE /\ ~Malformed(text)
           /\ (keys \cap Keys(text)) \cup MarkedKeys(text) \subseteq HaveValues(by)
           /\ DOMAIN by \cap Keys(text) \subseteq HaveValues(by)
  <2>1. /\ Keys(Filled(h, by)) = Keys(h)
        /\ MarkedKeys(Filled(h, by)) \subseteq
              {f \in DOMAIN by : by[f] = Marker} \cup (MarkedKeys(h) \ DOMAIN by)
    BY <1>2, <1>5, FilledText
  <2>2. MarkedKeys(Filled(h, by)) \subseteq Keys(text)
    BY <1>2, <2>1, MarkedAreKeys
  <2>3. MarkedKeys(h) \subseteq DOMAIN by
    BY <1>2, <1>5 DEF HaveValues
  <2>4. MarkedKeys(Filled(h, by)) = {}
    BY <1>5, <2>1, <2>2, <2>3 DEF HaveValues
  <2>5. \A f \in DOMAIN by \cap Keys(h) : by[f] # ""
    BY <1>2, <1>5 DEF HaveValues
  <2> QED
    BY <1>1, <1>2, <2>4, <2>5 DEF h
<1> QED
  BY <1>4, <1>5

\* The query of a request that can be restored is not refused.
LEMMA QueryNotRefused ==
    ASSUME case \in Cases, stored = Recorded, Restorable
    PROVE  /\ ~Unparsable(stored.request.path) /\ ~QueryRefused
           /\ ~UnclearQuery(Outgoing)
           /\ \A f \in Matched(Outgoing, "query") : case.values["query"][f] # ""
           /\ MarkedKeys(SubstitutedQuery(Outgoing)) = {}
<1> DEFINE text == Sent.query
           keys == case.capture.query
           by == case.values.query
           q == stored.request.query
<1>1. /\ ~Unparsable(Sent.path) /\ ResolvedPairs(text, "query")
      /\ ~(Keys(text) = {"redacted"} /\ "redacted" \in keys \cup MarkedKeys(text))
  BY DEF Restorable
<1>2. stored.request.path = Sent.path /\ q = RedactQuery(case.capture, text)
  BY <1>1, RecordedMeans
<1>3. text \in RawTexts
  BY CaseMeans DEF Sent, IsRequest
<1>4. q = IF keys # {} /\ Malformed(text) THEN WithheldQuery ELSE Hidden(text, keys)
  BY <1>2, <1>3, RedactQueryMeans
<1>5. \A f \in DOMAIN by : by[f] \in AnyText
  BY GivenMeans DEF Given, Groups
<1>6. \/ keys \cup DOMAIN by = {} /\ MarkedKeys(text) = {}
      \/ /\ ~Malformed(text)
         /\ (keys \cap Keys(text)) \cup MarkedKeys(text) \subseteq HaveValues(by)
         /\ DOMAIN by \cap Keys(text) \subseteq HaveValues(by)
  BY <1>1 DEF ResolvedPairs, Valued, Given, HaveValues
<1>7. Outgoing.query = q
  BY OutgoingMeans
<1>8. Matched(Outgoing, "query") = DOMAIN by \cap Keys(q)
  BY <1>7 DEF Matched, Given
<1>9. SubstitutedQuery(Outgoing) = Filled(q, by)
  BY <1>7, SubstitutedQueryMeans
<1> HIDE DEF text, keys, by, q
<1>10. LET h == Hidden(text, keys)
       IN  /\ Malformed(text) => keys = {} /\ DOMAIN by = {}
           /\ h \in RawTexts /\ Keys(h) = Keys(text) /\ (Malformed(h) <=> Malformed(text))
           /\ ~Malformed(text) => MarkedKeys(h) = MarkedKeys(text) \cup (keys \cap Keys(text))
           /\ \A f \in DOMAIN by \cap Keys(h) : by[f] # ""
           /\ MarkedKeys(Filled(h, by)) = {}
  BY <1>3, <1>5, <1>6, PairsResolved
<1>11. q = Hidden(text, keys)
  BY <1>4, <1>10
<1>12. ~QueryWithheld(q)
  <2> SUFFICES ASSUME QueryWithheld(q) PROVE FALSE
    OBVIOUS
  <2>1. ~Malformed(q) /\ Keys(q) = {"redacted"} /\ Values(q, "redacted") = << Marker >> /\ q \in RawTexts
    BY <1>10, <1>11 DEF QueryWithheld
  <2>2. 1 \in DOMAIN Values(q, "redacted") /\ Values(q, "redacted")[1] = Marker
    BY <2>1
  <2>3. \E i \in DOMAIN q : q[i].key = "redacted" /\ q[i].value = Values(q, "redacted")[1]
    BY <2>1, <2>2, ValuesMeans
  <2>4. "redacted" \in MarkedKeys(q)
    BY <2>1, <2>2, <2>3 DEF MarkedKeys
  <2>5. Keys(text) = {"redacted"} /\ "redacted" \in keys \cup MarkedKeys(text)
    BY <1>10, <1>11, <2>1, <2>4
  <2> QED
    BY <1>1, <2>5 DEF text, keys
<1>13. ~UnclearQuery(Outgoing)
  BY <1>7, <1>10, <1>11, <1>12 DEF UnclearQuery, Given, by
<1>14. ~QueryRefused
  BY <1>12 DEF QueryRefused, q
<1>15. MarkedKeys(SubstitutedQuery(Outgoing)) = {}
  BY <1>9, <1>10, <1>11
<1>16. \A f \in Matched(Outgoing, "query") : case.values["query"][f] # ""
  BY <1>8, <1>10, <1>11 DEF by
<1> QED
  BY <1>1, <1>2, <1>13, <1>14, <1>15, <1>16

\* If what is redacted or marked in a document has values, or is below a field
\* that has one, filling them in leaves no marker.
LEMMA DocumentResolved ==
    ASSUME NEW d, IsDocument(d), NEW rules, ArePointers(rules), NEW by, AreApart(DOMAIN by),
           \A p \in ({Position(f) : f \in rules} \cup {q \in DOMAIN d : d[q] = RedactedValue}) \cap DOMAIN d :
              \E f \in HaveValues(by) : IsPrefix(Position(f), p),
           Existing(d, DOMAIN by) \subseteq HaveValues(by)
    PROVE  LET e == HiddenDocument(d, rules)
           IN  /\ ~HiddenBelowMarker(e, DOMAIN by)
               /\ Existing(e, DOMAIN by) \subseteq HaveValues(by)
               /\ MarkerPointers(FilledDocument(e, by)) = {}
<1> DEFINE e == HiddenDocument(d, rules)
           u == FilledDocument(e, by)
           fields == {Position(r) : r \in DOMAIN by} \cap DOMAIN e
<1>1. /\ \A r \in DOMAIN by : r \in Seq(STRING)
      /\ \A r, s \in DOMAIN by : r # s => ~IsPrefix(Position(r), Position(s))
  BY DEF AreApart, ArePointers
<1>2. \A r \in DOMAIN by : Position(r) \in Seq(Range(Position(r)))
  BY <1>1, PointerNamesPosition
<1>3. /\ IsDocument(e) /\ DOMAIN e \subseteq DOMAIN d
      /\ \A q \in DOMAIN e : \/ q \notin {Position(r) : r \in rules} /\ e[q] = d[q]
                             \/ q \in {Position(r) : r \in rules}
  <2>1. rules \in SUBSET Seq(STRING) /\ \A r \in rules : r # << >> /\ r[1] = "/"
    BY DEF ArePointers
  <2> QED
    BY <2>1, HiddenDocumentMeans
<1>4. /\ DOMAIN u = {q \in DOMAIN e : \A f \in fields : ~IsStrictPrefix(f, q)}
      /\ \A q \in DOMAIN u :
            IF q \in fields
            THEN \E r \in DOMAIN by :
                    Position(r) = q /\ u[q] = [type |-> "string", value |-> by[r]]
            ELSE u[q] = e[q]
  <2>1. IsDocument(e)
    BY <1>3
  <2> HIDE DEF e
  <2> QED
    BY <2>1, FilledDocumentMeans
<1> HIDE DEF e, u
<1>5. ASSUME NEW p \in DOMAIN e, e[p] = RedactedValue
      PROVE  \E f \in HaveValues(by) : IsPrefix(Position(f), p)
  BY <1>3, <1>5
<1>6. \A p \in DOMAIN e : p \in Positions
  BY <1>3 DEF IsDocument, Positions
<1>7. HaveValues(by) \subseteq DOMAIN by
  BY DEF HaveValues
<1>8. ~HiddenBelowMarker(e, DOMAIN by)
  <2> SUFFICES ASSUME NEW r \in DOMAIN by, NEW q \in Prefixes(Position(r)) \ {Position(r)},
                      q \in DOMAIN e, e[q] = RedactedValue
               PROVE  FALSE
    BY DEF HiddenBelowMarker
  <2>1. PICK f \in HaveValues(by) : IsPrefix(Position(f), q)
    BY <1>5
  <2>2. q \in Seq(Range(Position(r))) /\ IsPrefix(q, Position(r))
    BY <1>2, AmongIsPrefix
  <2>3. IsPrefix(Position(f), Position(r))
    BY <1>2, <1>7, <2>1, <2>2, PrefixTransitive
  <2>4. f = r
    BY <1>1, <1>7, <2>3
  <2>5. Len(q) <= Len(Position(r)) /\ Len(Position(r)) <= Len(q)
    BY <2>1, <2>2, <2>4 DEF IsPrefix
  <2>6. q = Position(r)
    BY <1>2, <2>2, <2>5, PrefixOfSameLength
  <2> QED
    BY <2>6
<1>9. Existing(e, DOMAIN by) \subseteq HaveValues(by)
  BY <1>3 DEF Existing
<1>10. ASSUME NEW p \in DOMAIN u, u[p] = RedactedValue PROVE FALSE
  <2>1. p \in DOMAIN e
    BY <1>4
  <2>2. CASE p \in fields
    <3>1. PICK r \in DOMAIN by : Position(r) = p /\ u[p] = [type |-> "string", value |-> by[r]]
      BY <1>4, <2>2
    <3>2. r \in HaveValues(by)
      BY <1>9, <2>1, <3>1 DEF Existing
    <3>3. by[r] = RedactedValue.value
      BY <1>10, <3>1
    <3>4. RedactedValue.value = Marker
      BY DEF RedactedValue, Marker
    <3> QED
      BY <3>2, <3>3, <3>4 DEF HaveValues
  <2>3. CASE p \notin fields
    <3>1. e[p] = RedactedValue
      BY <1>4, <1>10, <2>3
    <3>2. PICK f \in HaveValues(by) : IsPrefix(Position(f), p)
      BY <1>5, <2>1, <3>1
    <3>3. Position(f) \in DOMAIN e
      BY <1>2, <1>3, <1>7, <2>1, <3>2, PrefixInDocument
    <3>4. Position(f) \in fields
      BY <1>7, <3>3
    <3>5. Position(f) = p
      BY <1>4, <3>2, <3>4 DEF IsStrictPrefix
    <3> QED
      BY <2>3, <3>4, <3>5
  <2> QED
    BY <2>2, <2>3
<1>11. MarkerPointers(u) = {}
  BY <1>10 DEF MarkerPointers
<1> QED
  BY <1>8, <1>9, <1>11 DEF e, u

\* The body of a request is not refused if ...
BodyPasses ==
    /\ Recorded.whole
    /\ ~UnclearBody(Outgoing)
    /\ \A g \in {"json", "form"} : \A f \in Matched(Outgoing, g) : case.values[g][f] # ""
    /\ LET b == SubstitutedBody(Outgoing)
           h == Outgoing.headers
       IN  /\ ~(h[ContentType] = "json" /\ ReadableJSON(b) /\ MarkerPointers(b.doc) # {})
           /\ ~(h[ContentType] = "form" /\ MarkedKeys(AsForm(b)) # {})

\* ... it is empty, ...
LEMMA EmptyBodyPasses ==
    ASSUME case \in Cases, stored = Recorded, case.whole, Sent.body = Empty
    PROVE  BodyPasses
<1>1. Recorded.request.body = Empty
  BY BodyMeans, RecordedBody
<1>2. Outgoing.body = Empty
  BY <1>1, OutgoingMeans
<1>3. Recorded.whole
  BY <1>1, BodyMeans, RecordedMeans
<1>4. Matched(Outgoing, "json") = {} /\ Matched(Outgoing, "form") = {} /\ ~UnclearBody(Outgoing)
  BY <1>2 DEF Matched, UnclearBody
<1>5. SubstitutedBody(Outgoing) = Empty
  BY <1>2, <1>4 DEF SubstitutedBody
<1> QED
  BY <1>3, <1>4, <1>5, BodyMeans, NoText DEF BodyPasses, ReadableJSON

\* ... nothing is to be done to it and it has no fields, ...
LEMMA PlainBodyPasses ==
    ASSUME case \in Cases, stored = Recorded, case.whole, NoBodyRules, SameType, ~HasJSON, ~HasForm
    PROVE  BodyPasses
<1>1. Recorded.request.body = Sent.body
  BY RecordedBody DEF NoBodyRules, HasNoBodyRules
<1>2. Outgoing.body = Sent.body /\ Outgoing.headers[ContentType] = Sent.headers[ContentType]
  BY <1>1, OutgoingMeans, TypeSent
<1>3. Recorded.whole
  BY <1>1, BodyMeans, CaseMeans, RecordedMeans DEF Sent
<1>4. Matched(Outgoing, "json") = {} /\ Matched(Outgoing, "form") = {} /\ ~UnclearBody(Outgoing)
  BY DEF Matched, UnclearBody, NoBodyRules
<1>5. SubstitutedBody(Outgoing) = Sent.body
  BY <1>2, <1>4 DEF SubstitutedBody
<1>6. ~(Sent.headers[ContentType] = "json" /\ ReadableJSON(Sent.body))
  BY DEF HasJSON
<1>7. ASSUME Sent.headers[ContentType] = "form" PROVE MarkedKeys(AsForm(Sent.body)) = {}
  <2>1. Sent.body.syntax = "binary" \/ Malformed(AsForm(Sent.body))
    BY <1>7 DEF HasForm, ReadableForm
  <2>2. CASE Sent.body.syntax = "binary"
    <3>1. IsRequest(Sent)
      BY CaseMeans DEF Sent
    <3>2. AsForm(Sent.body) = << >>
      BY <2>2, <3>1, FormOfBody DEF IsRequest
    <3> QED
      BY <3>2, NoText
  <2>3. CASE Malformed(AsForm(Sent.body))
    BY <2>3 DEF MarkedKeys
  <2> QED
    BY <2>1, <2>2, <2>3
<1> QED
  BY <1>2, <1>3, <1>4, <1>5, <1>6, <1>7 DEF BodyPasses

\* ... it is a document in which whatever is redacted has a value, ...
LEMMA DocumentPasses ==
    ASSUME case \in Cases, stored = Recorded, case.whole, HasJSON, ResolvedDocument(Sent.body.doc),
           Sent.headers[ContentEncoding] = "absent", SameType, StillPlain
    PROVE  BodyPasses
<1> DEFINE d == Sent.body.doc
           rules == case.capture.json
           by == case.values.json
           b == Recorded.request.body
           e == HiddenDocument(d, rules)
<1>1. IsDocument(d) /\ Sent.headers[ContentType] = "json" /\ Sent.body.syntax = "json"
  BY CaseMeans DEF HasJSON, ReadableJSON, Sent, IsRequest
<1>2. ~Unsafe(case.capture, Sent.body, Sent.headers, TRUE)
  BY <1>1 DEF Unsafe, ReadableJSON
<1>3. b.syntax = "json" /\ b.doc = e
  <2>1. \/ b = Sent.body /\ rules = {}
        \/ rules # {} /\ b = JSONBody(Redact(d, rules))
    BY <1>1, <1>2, BodyMeans, RecordedBody DEF HasNoBodyRules
  <2> HIDE DEF b
  <2> QED
    BY <1>1, <2>1, BodyMeans DEF HiddenDocument
<1>4. Recorded.whole
  BY <1>3, BodyMeans, RecordedMeans
<1>5. /\ Outgoing.body = b
      /\ Outgoing.headers[ContentType] = "json" /\ Outgoing.headers[ContentEncoding] = "absent"
  BY <1>1, OutgoingMeans, TypeSent
<1>6. AreApart(DOMAIN by) /\ ArePointers(rules) /\ Given("json") = DOMAIN by
  BY GivenMeans DEF Given
<1>7. Valued("json") = HaveValues(by)
  BY DEF Valued, Given, HaveValues
<1>8. /\ \A p \in ({Position(f) : f \in rules} \cup {q \in DOMAIN d : d[q] = RedactedValue}) \cap DOMAIN d :
            \E f \in HaveValues(by) : IsPrefix(Position(f), p)
      /\ Existing(d, DOMAIN by) \subseteq HaveValues(by)
  BY <1>6, <1>7 DEF ResolvedDocument
<1> HIDE DEF d, rules, by, b
<1>9. /\ ~HiddenBelowMarker(e, DOMAIN by)
      /\ Existing(e, DOMAIN by) \subseteq HaveValues(by)
      /\ MarkerPointers(FilledDocument(e, by)) = {}
  BY <1>1, <1>6, <1>8, DocumentResolved
<1> HIDE DEF e
<1>10. ~UnclearBody(Outgoing)
  BY <1>3, <1>5, <1>6, <1>9 DEF UnclearBody, ReadableJSON
<1>11. /\ Matched(Outgoing, "form") = {} /\ Matched(Outgoing, "json") = Existing(e, DOMAIN by)
       /\ SubstitutedBody(Outgoing).doc = FilledDocument(e, by)
  BY <1>3, <1>5, <1>6, SubstitutedJSONMeans DEF by
<1>12. \A f \in Matched(Outgoing, "json") : case.values["json"][f] # ""
  BY <1>9, <1>11 DEF HaveValues, by
<1> QED
  BY <1>4, <1>5, <1>9, <1>10, <1>11, <1>12 DEF BodyPasses

\* ... or a form, likewise.
LEMMA FormPasses ==
    ASSUME case \in Cases, stored = Recorded, case.whole, HasForm,
           ResolvedPairs(AsForm(Sent.body), "form"),
           Sent.headers[ContentEncoding] = "absent", SameType, StillPlain
    PROVE  BodyPasses
<1> DEFINE text == AsForm(Sent.body)
           keys == case.capture.form
           by == case.values.form
           b == Recorded.request.body
<1>1. text \in RawTexts /\ ~Malformed(text) /\ Sent.headers[ContentType] = "form"
      /\ Sent.body.syntax \notin {"binary", "withheld"}
  BY CaseMeans, FormOfBody DEF HasForm, ReadableForm, Sent
<1>2. ~Unsafe(case.capture, Sent.body, Sent.headers, TRUE)
  BY <1>1 DEF Unsafe, ReadableForm
<1>3. \/ b = Sent.body /\ (keys = {} \/ Sent.body = Empty)
      \/ b = FormBody(Hidden(text, keys))
  BY <1>1, <1>2, BodyMeans, RecordedBody DEF HasNoBodyRules
<1>4. Recorded.whole
  BY <1>1, <1>3, BodyMeans, RecordedMeans
<1>5. /\ Outgoing.body = b
      /\ Outgoing.headers[ContentType] = "form" /\ Outgoing.headers[ContentEncoding] = "absent"
  BY <1>1, OutgoingMeans, TypeSent
<1>6. \A f \in DOMAIN by : by[f] \in AnyText
  BY GivenMeans DEF Given, Groups
<1>7. \/ keys \cup DOMAIN by = {} /\ MarkedKeys(text) = {}
      \/ /\ ~Malformed(text)
         /\ (keys \cap Keys(text)) \cup MarkedKeys(text) \subseteq HaveValues(by)
         /\ DOMAIN by \cap Keys(text) \subseteq HaveValues(by)
  BY DEF ResolvedPairs, Valued, Given, HaveValues
<1>8. CASE Sent.body = Empty
  BY <1>8, EmptyBodyPasses
<1>9. CASE Sent.body # Empty
  <2>1. AsForm(b) = Hidden(text, keys) /\ b.syntax # "binary"
    BY <1>1, <1>3, <1>9, BodyMeans DEF Hidden
  <2> HIDE DEF text, keys, by, b
  <2>2. LET h == Hidden(text, keys)
        IN  /\ Malformed(h) <=> Malformed(text)
            /\ \A f \in DOMAIN by \cap Keys(h) : by[f] # ""
            /\ MarkedKeys(Filled(h, by)) = {}
    BY <1>1, <1>6, <1>7, PairsResolved
  <2>3. ReadableForm(b)
    BY <1>1, <2>1, <2>2 DEF ReadableForm
  <2>4. ~UnclearBody(Outgoing)
    BY <1>5, <2>3 DEF UnclearBody
  <2>5. /\ Matched(Outgoing, "json") = {} /\ Matched(Outgoing, "form") = DOMAIN by \cap Keys(AsForm(b))
        /\ AsForm(SubstitutedBody(Outgoing)) = Filled(AsForm(b), by)
    BY <1>5, SubstitutedFormMeans DEF by, Given
  <2>6. \A f \in Matched(Outgoing, "form") : case.values["form"][f] # ""
    BY <2>1, <2>2, <2>5 DEF by
  <2>7. MarkedKeys(AsForm(SubstitutedBody(Outgoing))) = {}
    BY <2>1, <2>2, <2>5
  <2> QED
    BY <1>4, <1>5, <2>4, <2>5, <2>6, <2>7 DEF BodyPasses
<1> QED
  BY <1>8, <1>9

\* A refusal has a reason in the request or in the configuration: a request that can
\* be restored is sent (the refusals of execute and of Replacements.apply).
THEOREM SentIfRestorable == Spec => []RestorableIsSent
<1>1. ASSUME IInv, main = "refused", Restorable PROVE FALSE
  <2>1. /\ case \in Cases /\ stored = Recorded /\ why # "none" /\ why \in Reasons
        /\ why = "url" => Unparsable(stored.request.path)
        /\ why = "query" => QueryRefused
        /\ why = "body" => ~stored.whole
        /\ why = "unclear" => UnclearQuery(Outgoing) \/ UnclearBody(Outgoing)
        /\ why = "novalue" => ValueMissing(Outgoing)
        /\ why = "marker" => out = Substituted(Outgoing) /\ MarkersRemain(out)
    BY <1>1 DEF IInv, TypeOK, BuildInv, ApplyInv
  <2>2. /\ ~Unparsable(stored.request.path) /\ ~QueryRefused
        /\ ~UnclearQuery(Outgoing)
        /\ \A f \in Matched(Outgoing, "query") : case.values["query"][f] # ""
        /\ MarkedKeys(SubstitutedQuery(Outgoing)) = {}
    BY <1>1, <2>1, QueryNotRefused
  <2>3. BodyPasses
    <3>1. case.whole
      BY <1>1 DEF Restorable
    <3>2. \/ Sent.body = Empty
          \/ /\ Sent.headers[ContentEncoding] = "absent" /\ SameType /\ StillPlain
             /\ \/ HasJSON /\ ResolvedDocument(Sent.body.doc)
                \/ HasForm /\ ResolvedPairs(AsForm(Sent.body), "form")
          \/ NoBodyRules /\ SameType /\ ~HasJSON /\ ~HasForm
      BY <1>1 DEF Restorable
    <3> QED
      BY <2>1, <3>1, <3>2, EmptyBodyPasses, PlainBodyPasses, DocumentPasses, FormPasses
  <2>4. stored.whole /\ ~UnclearBody(Outgoing)
    BY <2>1, <2>3 DEF BodyPasses
  <2>5. ~ValueMissing(Outgoing)
    BY <2>2, <2>3 DEF ValueMissing, BodyPasses, Groups
  <2>6. ~MarkersRemain(Substituted(Outgoing))
    <3>1. /\ Substituted(Outgoing).headers = Outgoing.headers
          /\ Substituted(Outgoing).query = SubstitutedQuery(Outgoing)
          /\ Substituted(Outgoing).body = SubstitutedBody(Outgoing)
      BY SubstitutedOutgoing
    <3> QED
      BY <2>2, <2>3, <3>1 DEF MarkersRemain, BodyPasses
  <2> QED
    BY <2>1, <2>2, <2>4, <2>5, <2>6 DEF Reasons
<1>2. IInv => RestorableIsSent
  BY <1>1 DEF RestorableIsSent
<1> QED
  BY <1>2, InductiveInvariant, PTL
=============================================================================
