------------------------- MODULE ResponseDiffProofs -------------------------
(***************************************************************************)
(* Proofs about ResponseDiff: any responses, policies and ignore rules     *)
(* that CasesAssumption allows, and documents of any size and depth.       *)
(***************************************************************************)
EXTENDS ResponseDiff, JSONDocumentProofs

-----------------------------------------------------------------------------
(* What counts of a document. *)

\* A document with numbers that are numbers and containers that hold nothing else.
IsTree(d) == IsDocument(d) /\ \A p \in DOMAIN d : IsNode(d[p])

Fields(rules) == {Position(r) : r \in rules}
Outermost(d, rules) ==
    {f \in Fields(rules) \cap DOMAIN d :
        \A h \in Fields(rules) \cap DOMAIN d : ~IsStrictPrefix(h, f)}

Counts(p) == \A r \in Ignore("response.body") : ~IsPrefix(Position(r), p)
ShownOf(d) ==
    {p \in DOMAIN d :
        Counts(p) /\ \A h \in Fields(policy.json) \cap DOMAIN d : ~IsStrictPrefix(h, p)}
ShownAt(d, p) == IF p \in Fields(policy.json) THEN RedactedValue ELSE Meaning(d[p])

LEMMA VisibleMeans ==
    ASSUME NEW d
    PROVE  Visible(d) = {<< p, ShownAt(d, p) >> : p \in ShownOf(d)}
BY DEF Visible, ShownOf, ShownAt, Counts, Fields

\* Documents with the same to show are seen as the same, ...
LEMMA SameShown ==
    ASSUME NEW d, NEW e, ShownOf(d) = ShownOf(e),
           \A p \in ShownOf(d) : ShownAt(d, p) = ShownAt(e, p)
    PROVE  Visible(d) = Visible(e)
BY VisibleMeans

\* ... and the other way round.
LEMMA SeenTheSame ==
    ASSUME NEW d, NEW e, Visible(d) = Visible(e)
    PROVE  ShownOf(d) = ShownOf(e) /\ \A p \in ShownOf(d) : ShownAt(d, p) = ShownAt(e, p)
<1>1. \A p : p \in ShownOf(d) => p \in ShownOf(e) /\ ShownAt(d, p) = ShownAt(e, p)
  <2> SUFFICES ASSUME NEW p \in ShownOf(d)
               PROVE  p \in ShownOf(e) /\ ShownAt(d, p) = ShownAt(e, p)
    OBVIOUS
  <2>1. << p, ShownAt(d, p) >> \in Visible(e)
    BY VisibleMeans
  <2>2. PICK q \in ShownOf(e) : << p, ShownAt(d, p) >> = << q, ShownAt(e, q) >>
    BY <2>1, VisibleMeans
  <2> QED
    BY <2>2
<1>2. \A p : p \in ShownOf(e) => p \in ShownOf(d)
  <2> SUFFICES ASSUME NEW p \in ShownOf(e) PROVE p \in ShownOf(d)
    OBVIOUS
  <2>1. << p, ShownAt(e, p) >> \in Visible(d)
    BY VisibleMeans
  <2>2. PICK q \in ShownOf(d) : << p, ShownAt(e, p) >> = << q, ShownAt(d, q) >>
    BY <2>1, VisibleMeans
  <2> QED
    BY <2>2
<1> QED
  BY <1>1, <1>2

\* What Redact leaves.
LEMMA RedactMeans ==
    ASSUME NEW d, NEW rules
    PROVE  LET fields == Fields(rules) \cap DOMAIN d
               e == Redact(d, rules)
           IN  /\ DOMAIN e = {q \in DOMAIN d : \A f \in fields : ~IsStrictPrefix(f, q)}
               /\ \A q \in DOMAIN e : e[q] = IF q \in fields THEN RedactedValue ELSE d[q]
<1> DEFINE by == [s \in rules |-> RedactedValue.value]
           fields == Fields(rules) \cap DOMAIN d
           e == Redact(d, rules)
<1>1. DOMAIN by = rules /\ \A s \in rules : by[s] = RedactedValue.value
  OBVIOUS
<1>2. fields = ReplacedFields(d, by) /\ e = Replace(d, by)
  BY <1>1 DEF ReplacedFields, Fields, Redact
<1> HIDE DEF by, fields, e
<1>3. /\ DOMAIN e = {q \in DOMAIN d : \A f \in fields : ~IsStrictPrefix(f, q)}
      /\ \A q \in DOMAIN e :
            IF q \in fields
            THEN \E r \in DOMAIN by :
                    Position(r) = q /\ e[q] = [type |-> "string", value |-> by[r]]
            ELSE e[q] = d[q]
  BY <1>2, ReplaceMeans
<1>4. ASSUME NEW q \in DOMAIN e
      PROVE  e[q] = IF q \in fields THEN RedactedValue ELSE d[q]
  <2>1. CASE q \in fields
    <3>1. PICK r \in DOMAIN by : e[q] = [type |-> "string", value |-> by[r]]
      BY <1>3, <2>1
    <3>2. by[r] = RedactedValue.value
      BY <1>1
    <3> QED
      BY <2>1, <3>1, <3>2 DEF RedactedValue
  <2>2. CASE q \notin fields
    BY <1>3, <2>2
  <2> QED
    BY <2>1, <2>2
<1> QED
  BY <1>3, <1>4 DEF fields, e

\* A tree stays one.
LEMMA RedactIsTree ==
    ASSUME NEW d, IsTree(d), NEW rules
    PROVE  IsTree(Redact(d, rules))
<1> DEFINE e == Redact(d, rules)
           fields == Fields(rules) \cap DOMAIN d
<1>1. /\ DOMAIN e = {q \in DOMAIN d : \A f \in fields : ~IsStrictPrefix(f, q)}
      /\ \A q \in DOMAIN e : e[q] = IF q \in fields THEN RedactedValue ELSE d[q]
  BY RedactMeans
<1>2. IsDocument(e)
  BY ReplaceIsDocument DEF Redact, IsTree
<1>3. IsNode(RedactedValue)
  BY DEF IsNode, RedactedValue, Containers
<1> HIDE DEF e, fields
<1>4. ASSUME NEW q \in DOMAIN e PROVE IsNode(e[q])
  BY <1>1, <1>3 DEF IsTree
<1>5. IsTree(e)
  BY <1>2, <1>4 DEF IsTree
<1> QED
  BY <1>5 DEF e

\* Positions of documents, and the fields that rules name, are sequences.
LEMMA FieldsAreSequences ==
    ASSUME NEW rules \in SUBSET Seq(Char), NEW f \in Fields(rules)
    PROVE  f \in Seq(Range(f))
BY PointerNamesPosition DEF Fields

\* A field that is there lies at or below one that no other is above.
LEMMA OutermostAbove ==
    ASSUME NEW d, IsTree(d), NEW rules \in SUBSET Seq(Char),
           NEW f \in Fields(rules) \cap DOMAIN d
    PROVE  \E g \in Outermost(d, rules) : IsPrefix(g, f)
<1> DEFINE fields == Fields(rules) \cap DOMAIN d
<1>1. f \in Seq(Seq(STRING)) /\ fields \in SUBSET DOMAIN d
  BY DEF IsTree, IsDocument
<1>2. IsPrefix(f, f)
  BY <1>1, PrefixReflexive
<1> HIDE DEF fields
<1>3. f \in fields
  BY DEF fields
<1>4. PICK g \in fields : IsPrefix(g, f) /\ \A h \in fields : ~IsStrictPrefix(h, g)
  BY <1>1, <1>2, <1>3, OutermostField DEF IsTree
<1> QED
  BY <1>4 DEF fields, Outermost

\* In the place of such a field is the marker.
LEMMA OutermostMarked ==
    ASSUME NEW d, NEW rules, NEW g \in Outermost(d, rules)
    PROVE  g \in DOMAIN Redact(d, rules) /\ Redact(d, rules)[g] = RedactedValue
<1> DEFINE e == Redact(d, rules)
           fields == Fields(rules) \cap DOMAIN d
<1>1. /\ DOMAIN e = {q \in DOMAIN d : \A f \in fields : ~IsStrictPrefix(f, q)}
      /\ \A q \in DOMAIN e : e[q] = IF q \in fields THEN RedactedValue ELSE d[q]
  BY RedactMeans
<1>2. g \in fields /\ \A h \in fields : ~IsStrictPrefix(h, g)
  BY DEF Outermost
<1> HIDE DEF e
<1>3. g \in DOMAIN e /\ e[g] = RedactedValue
  BY <1>1, <1>2
<1> QED
  BY <1>3 DEF e

\* Redaction does not change what is seen if diff knows of the fields it hides, of
\* those at least that no other is above.
LEMMA RedactionUnseen ==
    ASSUME NEW d, IsTree(d), NEW rules \in SUBSET Seq(Char),
           policy.json \in SUBSET Seq(Char), Outermost(d, rules) \subseteq Fields(policy.json)
    PROVE  Visible(Redact(d, rules)) = Visible(d)
<1> DEFINE e == Redact(d, rules)
           fields == Fields(rules) \cap DOMAIN d
           known == Fields(policy.json)
<1>1. /\ DOMAIN e = {q \in DOMAIN d : \A f \in fields : ~IsStrictPrefix(f, q)}
      /\ \A q \in DOMAIN e : e[q] = IF q \in fields THEN RedactedValue ELSE d[q]
  BY RedactMeans
<1>2. DOMAIN d \subseteq Seq(Seq(STRING))
  BY DEF IsTree, IsDocument
<1> HIDE DEF e
<1>3. ASSUME NEW p \in ShownOf(d) PROVE p \in ShownOf(e)
  <2>1. p \in DOMAIN d /\ Counts(p) /\ \A h \in known \cap DOMAIN d : ~IsStrictPrefix(h, p)
    BY DEF ShownOf
  <2>2. ASSUME NEW f \in fields, IsStrictPrefix(f, p) PROVE FALSE
    <3>1. PICK g \in Outermost(d, rules) : IsPrefix(g, f)
      BY OutermostAbove
    <3>2. g \in DOMAIN d /\ f \in DOMAIN d
      BY DEF Outermost
    <3>3. IsStrictPrefix(g, p)
      BY <1>2, <2>1, <2>2, <3>1, <3>2, StrictPrefixTransitive
    <3> QED
      BY <2>1, <3>2, <3>3
  <2>3. p \in DOMAIN e
    BY <1>1, <2>1, <2>2
  <2> QED
    BY <1>1, <2>1, <2>3 DEF ShownOf
<1>4. ASSUME NEW p \in ShownOf(e) PROVE p \in ShownOf(d)
  <2>1. p \in DOMAIN e /\ Counts(p) /\ \A h \in known \cap DOMAIN e : ~IsStrictPrefix(h, p)
    BY DEF ShownOf
  <2>2. p \in DOMAIN d /\ \A f \in fields : ~IsStrictPrefix(f, p)
    BY <1>1, <2>1
  <2>3. ASSUME NEW h \in known \cap DOMAIN d, IsStrictPrefix(h, p) PROVE FALSE
    <3>1. ASSUME NEW f \in fields, IsStrictPrefix(f, h) PROVE FALSE
      <4>1. IsPrefix(h, p)
        BY <2>3 DEF IsStrictPrefix
      <4>2. IsStrictPrefix(f, p)
        BY <1>2, <2>2, <3>1, <4>1, StrictPrefixTransitive
      <4> QED
        BY <2>2, <4>2
    <3>2. h \in DOMAIN e
      BY <1>1, <3>1
    <3> QED
      BY <2>1, <2>3, <3>2
  <2> QED
    BY <2>1, <2>2, <2>3 DEF ShownOf
<1>5. ASSUME NEW p \in ShownOf(e) PROVE ShownAt(d, p) = ShownAt(e, p)
  <2>1. CASE p \in known
    BY <2>1 DEF ShownAt
  <2>2. CASE p \notin known
    <3>1. p \in DOMAIN e
      BY DEF ShownOf
    <3>2. p \notin fields
      BY <1>1, <2>2, <3>1 DEF Outermost
    <3> QED
      BY <1>1, <3>1, <3>2 DEF ShownAt
  <2> QED
    BY <2>1, <2>2
<1>6. ShownOf(e) = ShownOf(d)
  BY <1>3, <1>4
<1>7. Visible(e) = Visible(d)
  BY <1>5, <1>6, SameShown
<1> QED
  BY <1>7 DEF e

\* The positions above one that counts count.
LEMMA CountsAbove ==
    ASSUME Ignore("response.body") \in SUBSET Seq(Char),
           NEW p \in Seq(Seq(STRING)), Counts(p),
           NEW q \in Seq(Seq(STRING)), IsPrefix(q, p)
    PROVE  Counts(q)
<1>1. ASSUME NEW r \in Ignore("response.body"), IsPrefix(Position(r), q) PROVE FALSE
  <2>1. Position(r) \in Seq(Range(Position(r)))
    BY PointerNamesPosition
  <2>2. IsPrefix(Position(r), p)
    BY <1>1, <2>1, PrefixTransitive
  <2> QED
    BY <2>2 DEF Counts
<1> QED
  BY <1>1 DEF Counts

\* Documents that agree wherever it counts are seen as the same.
Agree(d, e) ==
    \A p : Counts(p) =>
        /\ p \in DOMAIN d <=> p \in DOMAIN e
        /\ p \in DOMAIN d => Meaning(d[p]) = Meaning(e[p])

LEMMA AgreeShown ==
    ASSUME Ignore("response.body") \in SUBSET Seq(Char),
           NEW d, DOMAIN d \subseteq Seq(Seq(STRING)), NEW e, DOMAIN e \subseteq Seq(Seq(STRING)),
           Agree(d, e)
    PROVE  Visible(d) = Visible(e)
<1>1. ASSUME NEW x, NEW y, Agree(x, y), DOMAIN x \subseteq Seq(Seq(STRING)),
             DOMAIN y \subseteq Seq(Seq(STRING)), NEW p \in ShownOf(x)
      PROVE  p \in ShownOf(y) /\ ShownAt(x, p) = ShownAt(y, p)
  <2>1. /\ p \in DOMAIN x /\ Counts(p)
        /\ \A h \in Fields(policy.json) \cap DOMAIN x : ~IsStrictPrefix(h, p)
    BY DEF ShownOf
  <2>2. p \in DOMAIN y /\ Meaning(x[p]) = Meaning(y[p])
    BY <1>1, <2>1 DEF Agree
  <2>3. ASSUME NEW h \in Fields(policy.json) \cap DOMAIN y, IsStrictPrefix(h, p) PROVE FALSE
    <3>1. IsPrefix(h, p)
      BY <2>3 DEF IsStrictPrefix
    <3>2. Counts(h)
      BY <1>1, <2>1, <3>1, CountsAbove
    <3>3. h \in DOMAIN x
      BY <1>1, <3>2 DEF Agree
    <3> QED
      BY <2>1, <2>3, <3>3
  <2> QED
    BY <2>1, <2>2, <2>3 DEF ShownOf, ShownAt
<1>2. Agree(e, d)
  BY DEF Agree
<1>3. ShownOf(d) = ShownOf(e)
  <2>1. \A p \in ShownOf(d) : p \in ShownOf(e)
    BY <1>1
  <2>2. \A p \in ShownOf(e) : p \in ShownOf(d)
    BY <1>1, <1>2
  <2> QED
    BY <2>1, <2>2
<1>4. \A p \in ShownOf(d) : ShownAt(d, p) = ShownAt(e, p)
  BY <1>1
<1> QED
  BY <1>3, <1>4, SameShown

\* A document of which the policy left only markers: all of it that counts is seen.
IsClean(d) ==
    \A h \in Fields(policy.json) \cap DOMAIN d :
        d[h] = RedactedValue /\ \A q \in DOMAIN d : ~IsStrictPrefix(h, q)

LEMMA CleanAgree ==
    ASSUME NEW d, NEW e, IsClean(d), IsClean(e), Visible(d) = Visible(e)
    PROVE  Agree(d, e)
<1>1. Meaning(RedactedValue) = RedactedValue
  BY DEF Meaning, RedactedValue
<1>2. ASSUME NEW x, IsClean(x), NEW p, Counts(p)
      PROVE  /\ p \in ShownOf(x) <=> p \in DOMAIN x
             /\ p \in DOMAIN x => ShownAt(x, p) = Meaning(x[p])
  BY <1>1, <1>2 DEF IsClean, ShownOf, ShownAt
<1>3. ShownOf(d) = ShownOf(e) /\ \A p \in ShownOf(d) : ShownAt(d, p) = ShownAt(e, p)
  BY SeenTheSame
<1> QED
  BY <1>2, <1>3 DEF Agree

\* A document that the policy was applied to is such a one; so is any if there is
\* nothing to redact.
LEMMA RedactedIsClean ==
    ASSUME NEW d, IsTree(d), policy.json \in SUBSET Seq(Char)
    PROVE  IsClean(Redact(d, policy.json))
<1> DEFINE e == Redact(d, policy.json)
           fields == Fields(policy.json) \cap DOMAIN d
<1>1. /\ DOMAIN e = {q \in DOMAIN d : \A f \in fields : ~IsStrictPrefix(f, q)}
      /\ \A q \in DOMAIN e : e[q] = IF q \in fields THEN RedactedValue ELSE d[q]
  BY RedactMeans
<1> HIDE DEF e
<1>2. ASSUME NEW h \in Fields(policy.json) \cap DOMAIN e
      PROVE  e[h] = RedactedValue /\ \A q \in DOMAIN e : ~IsStrictPrefix(h, q)
  <2>1. h \in fields
    BY <1>1
  <2> QED
    BY <1>1, <2>1
<1> QED
  BY <1>2 DEF IsClean, e

-----------------------------------------------------------------------------
(* What the comparison of documents finds. *)

\* Two nodes are the same for it if they mean the same.
LEMMA SameMeaning ==
    ASSUME NEW x, IsNode(x), NEW y, IsNode(y)
    PROVE  (x.type = y.type /\ (x.type \in Containers \/ SameScalar(x, y)))
              <=> Meaning(x) = Meaning(y)
<1>1. CASE x.type = "number" /\ y.type = "number"
  <2>1. x.num \in Number /\ y.num \in Number
    BY <1>1 DEF IsNode
  <2>2. SameScalar(x, y) <=> Value(x.num) = Value(y.num)
    BY <1>1, <2>1, NumbersEqualMeans DEF SameScalar
  <2>3. x.type \notin Containers
    BY <1>1 DEF Containers
  <2>4. Meaning(x) = [type |-> "number", num |-> Value(x.num)]
        /\ Meaning(y) = [type |-> "number", num |-> Value(y.num)]
    BY <1>1 DEF Meaning
  <2> QED
    BY <1>1, <2>2, <2>3, <2>4
<1>2. CASE x.type # y.type
  <2>1. Meaning(x).type = x.type /\ Meaning(y).type = y.type
    BY DEF Meaning
  <2> QED
    BY <1>2, <2>1
<1>3. CASE x.type = y.type /\ x.type # "number"
  <2>1. Meaning(x) = x /\ Meaning(y) = y /\ (SameScalar(x, y) <=> x = y)
    BY <1>3 DEF Meaning, SameScalar
  <2>2. x.type \in Containers => x = y
    BY <1>3 DEF IsNode
  <2> QED
    BY <1>3, <2>1, <2>2
<1> QED
  BY <1>1, <1>2, <1>3

LEMMA VerdictMeans ==
    ASSUME NEW b, IsTree(b), NEW c, IsTree(c), NEW p \in DOMAIN b \cup DOMAIN c
    PROVE  Verdict(b, c, p) = "same" <=>
              p \in DOMAIN b /\ p \in DOMAIN c /\ Meaning(b[p]) = Meaning(c[p])
<1>1. CASE p \in DOMAIN b /\ p \in DOMAIN c
  <2>1. IsNode(b[p]) /\ IsNode(c[p])
    BY <1>1 DEF IsTree
  <2>2. Verdict(b, c, p) = "same" <=>
           b[p].type = c[p].type /\ (b[p].type \in Containers \/ SameScalar(b[p], c[p]))
    BY <1>1 DEF Verdict
  <2> QED
    BY <1>1, <2>1, <2>2, SameMeaning
<1>2. CASE p \notin DOMAIN b \/ p \notin DOMAIN c
  BY <1>2 DEF Verdict
<1> QED
  BY <1>1, <1>2

\* What is ignored by its pointer is what does not count.
LEMMA IgnoredDoesNotCount ==
    ASSUME Ignore("response.body") \in SUBSET Seq(Char),
           \A r \in Ignore("response.body") : IsPointer(r), NEW p \in Seq(Seq(Char))
    PROVE  Ignored(Ignore("response.body"), p) <=> ~Counts(p)
BY IgnoredMeans DEF Counts

LEMMA PositionsAreTexts == Seq(Seq(STRING)) \subseteq Seq(Seq(Char))
<1>1. \A s \in Seq(STRING) : s \in Seq(Char)
  BY DEF Char
<1>2. Seq(STRING) \subseteq Seq(Char)
  BY <1>1
<1> DEFINE S == Seq(STRING)
           T == Seq(Char)
<1> HIDE DEF S, T
<1>3. \A s \in Seq(S) : S \subseteq T => s \in Seq(T)
  OBVIOUS
<1> QED
  BY <1>2, <1>3 DEF S, T

\* The ignore rules for the body are pointers.
LEMMA IgnoredPaths ==
    ASSUME case \in Cases
    PROVE  /\ Ignore("response.body") \in SUBSET Seq(Char)
           /\ \A r \in Ignore("response.body") : IsPointer(r)
<1>1. \A r \in Ignore("response.body") : r \in Seq(STRING) /\ IsPointer(r)
  BY CasesAssumption DEF Ignore
<1>2. \A s \in Seq(STRING) : s \in Seq(Char)
  BY DEF Char
<1> QED
  BY <1>1, <1>2

\* The comparison comes to the positions that count and below which it went all the
\* way down.
LEMMA ReachedMeans ==
    ASSUME case \in Cases, NEW b, IsTree(b), NEW c, IsTree(c), NEW p \in DOMAIN b \cup DOMAIN c
    PROVE  p \in Reached(b, c, Ignore("response.body")) <=>
              /\ Counts(p)
              /\ \A q \in Seq(Seq(STRING)) :
                    IsStrictPrefix(q, p) => Entered(b, c, Ignore("response.body"), q)
<1> DEFINE ignored == Ignore("response.body")
<1>1. p \in Seq(Seq(STRING)) /\ p \in Seq(Seq(Char))
  BY PositionsAreTexts DEF IsTree, IsDocument
<1>2. Ignored(ignored, p) <=> ~Counts(p)
  BY <1>1, IgnoredPaths, IgnoredDoesNotCount
<1>3. \A q \in Prefixes(p) \ {p} : q \in Seq(Seq(STRING)) /\ IsStrictPrefix(q, p)
  BY <1>1, AmongIsPrefix DEF IsStrictPrefix
<1>4. \A q \in Seq(Seq(STRING)) : IsStrictPrefix(q, p) => q \in Prefixes(p) \ {p}
  BY <1>1, PrefixIsAmong DEF IsStrictPrefix
<1> HIDE DEF ignored
<1>5. p \in Reached(b, c, ignored) <=>
         ~Ignored(ignored, p) /\ \A q \in Prefixes(p) \ {p} : Entered(b, c, ignored, q)
  BY DEF Reached
<1>6. p \in Reached(b, c, ignored) <=>
         /\ Counts(p)
         /\ \A q \in Seq(Seq(STRING)) : IsStrictPrefix(q, p) => Entered(b, c, ignored, q)
  BY <1>2, <1>3, <1>4, <1>5
<1> QED
  BY <1>6 DEF ignored

\* What it went into is the same so far.
LEMMA EnteredIsSame ==
    ASSUME NEW b, NEW c, NEW ignored, NEW q, Entered(b, c, ignored, q)
    PROVE  Verdict(b, c, q) = "same"
BY DEF Entered, Verdict

\* Where the comparison has nothing to say, neither at a position nor above it, the
\* documents agree: it did come there, and looked.
Found(b, c) ==
    {q \in Reached(b, c, Ignore("response.body")) : Verdict(b, c, q) # "same"}

LEMMA NothingFound ==
    ASSUME case \in Cases, NEW b, IsTree(b), NEW c, IsTree(c), NEW p \in DOMAIN b \cup DOMAIN c,
           Counts(p), \A q \in Found(b, c) : ~IsPrefix(q, p)
    PROVE  p \in DOMAIN b /\ p \in DOMAIN c /\ Meaning(b[p]) = Meaning(c[p])
<1> DEFINE ignored == Ignore("response.body")
           Open(q) == q \in Seq(Seq(STRING)) /\ IsStrictPrefix(q, p) /\ ~Entered(b, c, ignored, q)
           lengths == {n \in Nat : \E q \in Seq(Seq(STRING)) : Open(q) /\ Len(q) = n}
<1>1. p \in Seq(Seq(STRING))
  BY DEF IsTree, IsDocument
<1>2. ASSUME NEW q \in Seq(Seq(STRING)), IsStrictPrefix(q, p)
      PROVE  /\ q \in DOMAIN b \cup DOMAIN c /\ Counts(q) /\ IsPrefix(q, p)
             /\ p \in DOMAIN b => q \in DOMAIN b /\ b[q].type \in Containers
             /\ p \in DOMAIN c => q \in DOMAIN c /\ c[q].type \in Containers
  <2>1. IsPrefix(q, p) /\ q # p
    BY <1>2 DEF IsStrictPrefix
  <2>2. p \in DOMAIN b => q \in DOMAIN b /\ b[q].type \in Containers
    BY <2>1, PrefixInDocument DEF IsTree
  <2>3. p \in DOMAIN c => q \in DOMAIN c /\ c[q].type \in Containers
    BY <2>1, PrefixInDocument DEF IsTree
  <2>4. Counts(q)
    BY <1>1, <2>1, IgnoredPaths, CountsAbove
  <2> QED
    BY <2>1, <2>2, <2>3, <2>4
<1>3. ASSUME NEW q \in DOMAIN b \cup DOMAIN c, q \in Seq(Seq(STRING)), IsPrefix(q, p),
             q \in Reached(b, c, ignored)
      PROVE  q \in DOMAIN b /\ q \in DOMAIN c /\ Meaning(b[q]) = Meaning(c[q])
  <2>1. Verdict(b, c, q) = "same"
    BY <1>3 DEF Found
  <2> QED
    BY <2>1, VerdictMeans
<1>4. ASSUME NEW q, Open(q), \A t : Open(t) => Len(q) <= Len(t)
      PROVE  FALSE
  <2>1. q \in DOMAIN b \cup DOMAIN c /\ Counts(q) /\ IsPrefix(q, p)
    BY <1>2, <1>4
  <2>2. ASSUME NEW t \in Seq(Seq(STRING)), IsStrictPrefix(t, q)
        PROVE  Entered(b, c, ignored, t)
    <3>1. Len(t) < Len(q) /\ Len(t) \in Nat /\ Len(q) \in Nat
      BY <1>4, <2>2, StrictPrefixShorter
    <3>2. IsStrictPrefix(t, p)
      BY <1>1, <1>4, <2>1, <2>2, StrictPrefixTransitive
    <3> QED
      BY <1>4, <3>1, <3>2
  <2>3. q \in Reached(b, c, ignored)
    BY <2>1, <2>2, ReachedMeans
  <2>4. q \in DOMAIN b /\ q \in DOMAIN c /\ Meaning(b[q]) = Meaning(c[q])
    BY <1>3, <1>4, <2>1, <2>3
  <2>5. b[q].type \in Containers /\ b[q].type = c[q].type
    <3>1. Meaning(b[q]).type = b[q].type /\ Meaning(c[q]).type = c[q].type
      BY DEF Meaning
    <3>2. b[q].type \in Containers \/ c[q].type \in Containers
      BY <1>2, <1>4
    <3> QED
      BY <2>4, <3>1, <3>2
  <2>6. ~Ignored(ignored, q)
    BY <2>3 DEF Reached
  <2>7. Entered(b, c, ignored, q)
    BY <2>4, <2>5, <2>6 DEF Entered
  <2> QED
    BY <1>4, <2>7
<1>5. \A q \in Seq(Seq(STRING)) : ~Open(q)
  <2> SUFFICES ASSUME NEW q \in Seq(Seq(STRING)), Open(q) PROVE FALSE
    OBVIOUS
  <2>1. Len(q) \in lengths
    BY LenProperties
  <2> HIDE DEF lengths
  <2>2. lengths \subseteq Nat
    BY DEF lengths
  <2>3. PICK n \in lengths : \A m \in lengths : n <= m
    BY <2>1, <2>2, LeastNatural
  <2>4. PICK t \in Seq(Seq(STRING)) : Open(t) /\ Len(t) = n
    BY <2>3 DEF lengths
  <2>5. \A u : Open(u) => Len(u) \in lengths
    BY LenProperties DEF lengths
  <2> QED
    BY <1>4, <2>3, <2>4, <2>5
<1>6. p \in Reached(b, c, ignored)
  BY <1>5, ReachedMeans
<1> QED
  BY <1>1, <1>3, <1>6, PrefixReflexive

\* If it finds nothing at all, the documents are seen as the same.
LEMMA NoneFoundAgree ==
    ASSUME case \in Cases, NEW b, IsTree(b), NEW c, IsTree(c), Found(b, c) = {}
    PROVE  Agree(b, c)
BY NothingFound DEF Agree

\* Where documents agree it finds nothing.
LEMMA AgreeNoneFound ==
    ASSUME case \in Cases, NEW b, IsTree(b), NEW c, IsTree(c), Agree(b, c)
    PROVE  Found(b, c) = {}
<1>1. ASSUME NEW p \in Found(b, c) PROVE FALSE
  <2>1. p \in DOMAIN b \cup DOMAIN c /\ p \in Reached(b, c, Ignore("response.body"))
        /\ Verdict(b, c, p) # "same"
    BY DEF Found, Reached
  <2>2. Counts(p)
    BY <2>1, ReachedMeans
  <2> QED
    BY <2>1, <2>2, VerdictMeans DEF Agree
<1> QED
  BY <1>1

\* What it finds counts, and stands apart.
LEMMA FoundApart ==
    ASSUME case \in Cases, NEW b, IsTree(b), NEW c, IsTree(c), NEW p \in Found(b, c)
    PROVE  Counts(p) /\ \A q \in Found(b, c) : ~IsStrictPrefix(q, p)
<1>1. p \in DOMAIN b \cup DOMAIN c /\ p \in Reached(b, c, Ignore("response.body"))
  BY DEF Found, Reached
<1>2. ASSUME NEW q \in Found(b, c), IsStrictPrefix(q, p) PROVE FALSE
  <2>1. q \in Seq(Seq(STRING))
    BY DEF Found, Reached, IsTree, IsDocument
  <2>2. Verdict(b, c, q) = "same"
    BY <1>1, <1>2, <2>1, ReachedMeans, EnteredIsSame
  <2> QED
    BY <2>2 DEF Found
<1> QED
  BY <1>1, <1>2, ReachedMeans

\* The baseline, patched with what was found, agrees with the answer.
LEMMA PatchedAgrees ==
    ASSUME case \in Cases, NEW b, IsTree(b), NEW c, IsTree(c), BodyDifferences = Found(b, c)
    PROVE  Visible(Patched(b, c)) = Visible(c)
<1> DEFINE kept  == {p \in DOMAIN b : \A q \in BodyDifferences : ~IsPrefix(q, p)}
           taken == {p \in DOMAIN c : \E q \in BodyDifferences : IsPrefix(q, p)}
           d == Patched(b, c)
<1>1. DOMAIN d = kept \cup taken
      /\ \A p \in kept \cup taken : d[p] = IF p \in kept THEN b[p] ELSE c[p]
  BY DEF Patched
<1> HIDE DEF d
<1>2. DOMAIN d \subseteq Seq(Seq(STRING)) /\ DOMAIN c \subseteq Seq(Seq(STRING))
  BY <1>1 DEF IsTree, IsDocument
<1>3. ASSUME NEW p, Counts(p)
      PROVE  /\ p \in DOMAIN d <=> p \in DOMAIN c
             /\ p \in DOMAIN d => Meaning(d[p]) = Meaning(c[p])
  <2>1. CASE \E q \in BodyDifferences : IsPrefix(q, p)
    BY <1>1, <2>1
  <2>2. CASE \A q \in BodyDifferences : ~IsPrefix(q, p)
    <3>1. p \in DOMAIN b \cup DOMAIN c =>
             p \in DOMAIN b /\ p \in DOMAIN c /\ Meaning(b[p]) = Meaning(c[p])
      BY <1>3, <2>2, NothingFound
    <3>2. p \in DOMAIN d <=> p \in DOMAIN b
      BY <1>1, <2>2
    <3>3. p \in DOMAIN d => d[p] = b[p]
      BY <1>1, <2>2
    <3> QED
      BY <3>1, <3>2, <3>3
  <2> QED
    BY <2>1, <2>2
<1>4. Agree(d, c)
  BY <1>3 DEF Agree
<1>5. Visible(d) = Visible(c)
  BY <1>2, <1>4, IgnoredPaths, AgreeShown
<1> QED
  BY <1>5 DEF d

-----------------------------------------------------------------------------
(* What becomes of a response. *)

IsResponse(r) ==
    /\ r = [status |-> r.status, headers |-> r.headers, body |-> r.body,
            truncated |-> r.truncated, complete |-> r.complete]
    /\ DOMAIN r.headers = HeaderNames /\ IsBody(r.body)
    /\ r.truncated \in BOOLEAN /\ r.complete \in BOOLEAN

LEMMA JSONIsTree ==
    ASSUME NEW body, IsBody(body), IsJSON(body) PROVE IsTree(body.doc)
BY DEF IsBody, IsJSON, IsTree

LEMMA RedactBodyIsBody ==
    ASSUME NEW rules, NEW body, IsBody(body), NEW type, NEW whole
    PROVE  IsBody(RedactBody(rules, body, type, whole))
<1>1. IsBody(Withheld)
  BY DEF IsBody, Withheld, Syntax
<1>2. ASSUME body.syntax = "json"
      PROVE  IsBody([syntax |-> "json", doc |-> Redact(body.doc, rules)])
  <2>1. IsTree(Redact(body.doc, rules))
    BY <1>2, JSONIsTree, RedactIsTree DEF IsJSON
  <2> QED
    BY <2>1 DEF IsBody, IsTree, Syntax
<1> QED
  BY <1>1, <1>2 DEF RedactBody

\* Sanitize, field by field.
LEMMA SanitizeMeans ==
    ASSUME NEW p, NEW r, IsResponse(r)
    PROVE  LET s == Sanitize(p, r)
               body == RedactBody(p.json, r.body, r.headers[ContentType], r.complete /\ ~r.truncated)
           IN  /\ IsResponse(s)
               /\ s.status = r.status /\ s.headers = RedactHeaders(p.headers, r.headers)
               /\ s.body = body /\ s.truncated = r.truncated
               /\ s.complete =
                     (r.complete /\ ~(body = Withheld /\ p.json # {} /\ r.body # Empty))
<1> DEFINE s == Sanitize(p, r)
           body == RedactBody(p.json, r.body, r.headers[ContentType], r.complete /\ ~r.truncated)
           headers == RedactHeaders(p.headers, r.headers)
           complete == r.complete /\ ~(body = Withheld /\ p.json # {} /\ r.body # Empty)
<1>1. s = [r EXCEPT !.headers = headers, !.body = body, !.complete = complete]
  BY DEF Sanitize
<1>2. IsBody(body)
  BY RedactBodyIsBody DEF IsResponse
<1>3. DOMAIN headers = HeaderNames
  BY DEF RedactHeaders
<1>4. complete \in BOOLEAN
  OBVIOUS
<1> HIDE DEF s, body, headers, complete
<1>5. s = [status |-> r.status, headers |-> headers, body |-> body,
           truncated |-> r.truncated, complete |-> complete]
  BY <1>1 DEF IsResponse
<1>6. IsResponse(s)
  BY <1>2, <1>3, <1>4, <1>5 DEF IsResponse
<1>7. /\ s.status = r.status /\ s.headers = headers /\ s.body = body
      /\ s.truncated = r.truncated /\ s.complete = complete
  BY <1>5
<1> QED
  BY <1>6, <1>7 DEF s, body, headers, complete

\* What is left of a body that was there in full, of which nothing was withheld.
Cleaned(rules, type, body) ==
    IF rules = {} \/ body = Empty \/ type = "form" THEN body
    ELSE [syntax |-> "json", doc |-> Redact(body.doc, rules)]
Readable(rules, type, body) ==
    rules = {} \/ body = Empty \/ type = "form" \/ (type = "json" /\ body.syntax = "json")

LEMMA ComparableMeans ==
    ASSUME NEW p, NEW r, IsResponse(r), Comparable(Sanitize(p, r))
    PROVE  /\ Comparable(r)
           /\ Sanitize(p, r).body = Cleaned(p.json, r.headers[ContentType], r.body)
           /\ Readable(p.json, r.headers[ContentType], r.body)
<1> DEFINE s == Sanitize(p, r)
           body == RedactBody(p.json, r.body, r.headers[ContentType], r.complete /\ ~r.truncated)
<1>1. /\ s.body = body /\ s.truncated = r.truncated
      /\ s.complete = (r.complete /\ ~(body = Withheld /\ p.json # {} /\ r.body # Empty))
  BY SanitizeMeans
<1> HIDE DEF s
<1>2. r.complete /\ ~r.truncated /\ ~(body = Withheld /\ p.json # {} /\ r.body # Empty)
  BY <1>1 DEF Comparable, s
<1>3. body = Cleaned(p.json, r.headers[ContentType], r.body)
      /\ Readable(p.json, r.headers[ContentType], r.body)
  BY <1>2 DEF RedactBody, Cleaned, Readable
<1> QED
  BY <1>1, <1>2, <1>3 DEF Comparable, s

\* Cleaning keeps the kind of a body, and leaves alone what is not JSON.
LEMMA CleanedKind ==
    ASSUME NEW rules, NEW type, NEW body, IsBody(body), Readable(rules, type, body)
    PROVE  LET x == Cleaned(rules, type, body)
           IN  IsBody(x) /\ x.syntax = body.syntax /\ (IsJSON(x) <=> IsJSON(body))
               /\ (~IsJSON(body) => x = body)
<1> DEFINE x == Cleaned(rules, type, body)
<1>1. CASE rules = {} \/ body = Empty \/ type = "form"
  BY <1>1 DEF Cleaned
<1>2. CASE ~(rules = {} \/ body = Empty \/ type = "form")
  <2>1. body.syntax = "json" /\ x = [syntax |-> "json", doc |-> Redact(body.doc, rules)]
    BY <1>2 DEF Cleaned, Readable
  <2>2. IsTree(Redact(body.doc, rules))
    BY <2>1, JSONIsTree, RedactIsTree DEF IsJSON
  <2>3. x.syntax = "json" /\ IsBody(x)
    BY <2>1, <2>2 DEF IsBody, IsTree, Syntax
  <2> QED
    BY <2>1, <2>3 DEF IsJSON
<1> QED
  BY <1>1, <1>2

\* Capture, of a response of the case.
LEMMA CaptureMeans ==
    ASSUME case \in Cases, NEW r \in {case.recorded, case.answered}, NEW broken \in BOOLEAN
    PROVE  LET c == Capture(r, broken)
           IN  /\ IsResponse(c) /\ c.status = r.status /\ c.headers = r.headers
               /\ Comparable(c) => ~broken /\ Fits(r) /\ c.body = r.body
<1> DEFINE c == Capture(r, broken)
           part == [syntax |-> "other", doc |-> (Root :> [type |-> "part"])]
           cut == Size(r.body) > CaptureLimit
           body == IF cut \/ broken THEN part ELSE r.body
<1>1. DOMAIN r.headers = HeaderNames /\ IsBody(r.body) /\ IsFiniteSet(DOMAIN r.body.doc)
  BY CasesAssumption
<1>2. Size(r.body) \in Nat /\ CaptureLimit \in Nat
  BY <1>1, LimitAssumption, FS_CardinalityType DEF Size
<1>3. ~cut => Fits(r)
  BY <1>2 DEF Fits
<1>4. cut \in BOOLEAN
  OBVIOUS
<1>5. IsBody(part)
  BY DEF IsBody, Syntax
<1>6. c = [status |-> r.status, headers |-> r.headers, body |-> body,
           truncated |-> cut, complete |-> ~broken]
  BY DEF Capture
<1> HIDE DEF c, part, cut
<1>7. /\ c.status = r.status /\ c.headers = r.headers /\ c.body = body
      /\ c.truncated = cut /\ c.complete = ~broken
  BY <1>6
<1>8. IsBody(body)
  BY <1>1, <1>5
<1>9. IsResponse(c)
  BY <1>1, <1>4, <1>6, <1>7, <1>8 DEF IsResponse
<1>10. Comparable(c) => ~broken /\ Fits(r) /\ c.body = r.body
  BY <1>3, <1>7 DEF Comparable
<1> QED
  BY <1>7, <1>9, <1>10 DEF c

-----------------------------------------------------------------------------
(* The exchange, step by step. *)

\* Nothing has come back yet, or the replay failed: there is nothing to compare.
Unanswered ==
    /\ \E broken \in BOOLEAN : baseline = Stored(broken)
    /\ policy = EffectiveFor(baseline)
    /\ observed = NoResponse /\ differences = {} /\ outcome = "failed"

\* The responses as they are compared, and what came of it.
Compared ==
    \E broken, failed \in BOOLEAN :
        /\ policy = EffectiveFor(Stored(broken))
        /\ baseline = Sanitize(policy, Stored(broken))
        /\ observed = Answer(policy, failed)
        /\ differences = Compare(baseline, observed)
        /\ outcome = Judged(failed, baseline, observed)

\* What leads to it.
Progress ==
    /\ main = "record" => baseline = NoResponse
    /\ main = "replay" => \E broken \in BOOLEAN : baseline = Stored(broken)
    /\ main \in {"record", "replay"} =>
          policy = NoPolicy /\ observed = NoResponse /\ outcome = "none"
    /\ main = "compare" =>
          \E broken, failed \in BOOLEAN :
              /\ baseline = Stored(broken) /\ policy = EffectiveFor(baseline)
              /\ observed = Answer(policy, failed)
              /\ outcome = IF failed THEN "failed" ELSE "none"
    /\ main \in {"record", "replay", "compare"} => differences = {}
    /\ main \in {"report", "done"} => Unanswered \/ Compared

IInv ==
    /\ case \in Cases
    /\ main \in {"record", "replay", "compare", "report", "done"}
    /\ Progress

LEMMA InitProgress == Init => IInv
BY DEF Init, IInv, Progress

\* The answer to the comparison of two responses is the case's: it stays.
LEMMA JudgementStays ==
    ASSUME case' = case, baseline' = baseline, observed' = observed, policy' = policy
    PROVE  /\ Compare(baseline, observed)' = Compare(baseline, observed)
           /\ BodyUnavailable(baseline, observed)' = BodyUnavailable(baseline, observed)
<1>1. \A component : Ignore(component)' = Ignore(component)
  BY DEF Ignore
<1>2. BodyUnavailable(baseline, observed)' = BodyUnavailable(baseline, observed)
  BY <1>1 DEF BodyUnavailable, IgnoresAll, Ignore
<1>3. CompareStatus(baseline, observed)' = CompareStatus(baseline, observed)
  BY DEF CompareStatus, IgnoresAll, Ignore
<1>4. CompareHeaders(baseline, observed)' = CompareHeaders(baseline, observed)
  BY DEF CompareHeaders, IgnoresAll, Ignore
<1>5. CompareBody(baseline, observed)' = CompareBody(baseline, observed)
  BY <1>2 DEF CompareBody, IgnoresAll, Ignore
<1> QED
  BY <1>2, <1>3, <1>4, <1>5 DEF Compare

LEMMA ComparedStays ==
    ASSUME case' = case, baseline' = baseline, observed' = observed, policy' = policy,
           differences' = differences, outcome' = outcome
    PROVE  (Unanswered => Unanswered') /\ (Compared => Compared')
<1>1. ASSUME Unanswered PROVE Unanswered'
  <2>1. PICK broken \in BOOLEAN : baseline = Stored(broken)
    BY <1>1 DEF Unanswered
  <2>2. baseline' = Stored(broken)'
    BY <2>1 DEF Stored
  <2>3. policy' = EffectiveFor(baseline)'
    BY <1>1 DEF Unanswered, EffectiveFor
  <2> QED
    BY <1>1, <2>2, <2>3 DEF Unanswered
<1>2. ASSUME Compared PROVE Compared'
  <2>1. PICK broken \in BOOLEAN, failed \in BOOLEAN :
           /\ policy = EffectiveFor(Stored(broken))
           /\ baseline = Sanitize(policy, Stored(broken))
           /\ observed = Answer(policy, failed)
           /\ differences = Compare(baseline, observed)
           /\ outcome = Judged(failed, baseline, observed)
    BY <1>2 DEF Compared
  <2>2. policy' = EffectiveFor(Stored(broken))'
    BY <2>1 DEF EffectiveFor, Stored
  <2>3. baseline' = Sanitize(policy, Stored(broken))'
    BY <2>1 DEF Stored
  <2>4. observed' = Answer(policy, failed)'
    BY <2>1 DEF Answer
  <2>5. differences' = Compare(baseline, observed)'
    BY <2>1, JudgementStays
  <2>6. outcome' = Judged(failed, baseline, observed)'
    BY <2>1, JudgementStays DEF Judged
  <2> QED
    BY <2>2, <2>3, <2>4, <2>5, <2>6 DEF Compared
<1> QED
  BY <1>1, <1>2

\* What has been recorded, answered and compared is, at every moment, what the steps so
\* far make of the case: IInv is an invariant.
THEOREM InductiveInvariant == Spec => []IInv
<1>1. ASSUME IInv, [Next]_vars PROVE IInv'
  <2> USE <1>1
  <2>1. CASE Record
    BY <2>1 DEF Record, IInv, Progress, Stored
  <2>2. CASE NoAnswer
    <3>1. PICK broken \in BOOLEAN : baseline = Stored(broken)
      BY <2>2 DEF NoAnswer, IInv, Progress
    <3>2. baseline' = Stored(broken)'
      BY <2>2, <3>1 DEF NoAnswer, Stored
    <3>3. policy' = EffectiveFor(baseline)'
      BY <2>2 DEF NoAnswer, EffectiveFor
    <3>4. observed' = NoResponse /\ differences' = {} /\ outcome' = "failed"
      BY <2>2 DEF NoAnswer, IInv, Progress
    <3>5. Unanswered'
      BY <3>2, <3>3, <3>4 DEF Unanswered
    <3> QED
      BY <2>2, <3>5 DEF NoAnswer, IInv, Progress
  <2>3. CASE Replay
    <3>1. PICK broken \in BOOLEAN : baseline = Stored(broken)
      BY <2>3 DEF Replay, IInv, Progress
    <3>2. PICK failed \in BOOLEAN :
             observed' = Answer(policy', failed) /\ outcome' = IF failed THEN "failed" ELSE "none"
      BY <2>3 DEF Replay
    <3>3. baseline' = Stored(broken)' /\ policy' = EffectiveFor(baseline)'
      BY <2>3, <3>1 DEF Replay, Stored, EffectiveFor
    <3>4. observed' = Answer(policy, failed)'
      BY <2>3, <3>2 DEF Replay, Answer
    <3>5. differences' = {} /\ main' = "compare" /\ case' = case
      BY <2>3 DEF Replay, IInv, Progress
    <3>6. Progress'
      BY <3>2, <3>3, <3>4, <3>5 DEF Progress
    <3> QED
      BY <3>5, <3>6 DEF IInv
  <2>4. CASE Visit
    <3>1. PICK broken \in BOOLEAN, failed \in BOOLEAN :
             /\ baseline = Stored(broken) /\ policy = EffectiveFor(baseline)
             /\ observed = Answer(policy, failed)
             /\ outcome = IF failed THEN "failed" ELSE "none"
      BY <2>4 DEF Visit, IInv, Progress
    <3>2. case' = case /\ policy' = policy /\ observed' = observed /\ main' = "report"
      BY <2>4 DEF Visit
    <3>3. policy' = EffectiveFor(Stored(broken))'
      BY <3>1, <3>2 DEF EffectiveFor, Stored
    <3>4. baseline' = Sanitize(policy, Stored(broken))'
      BY <2>4, <3>1, <3>2 DEF Visit, Stored
    <3>5. observed' = Answer(policy, failed)'
      BY <3>1, <3>2 DEF Answer
    <3>6. differences' = Compare(baseline, observed)'
      BY <2>4, <3>2 DEF Visit, Compare, CompareStatus, CompareHeaders, CompareBody,
            BodyUnavailable, IgnoresAll, Ignore
    <3>7. outcome' = Judged(failed, baseline, observed)'
      <4>1. (outcome = "failed") = failed
        BY <3>1
      <4>2. BodyUnavailable(baseline, observed)' = BodyUnavailable(baseline', observed)
        BY <3>2 DEF BodyUnavailable, IgnoresAll, Ignore
      <4>3. outcome' = IF failed \/ BodyUnavailable(baseline', observed) THEN "failed"
                       ELSE IF differences' = {} THEN "equivalent" ELSE "changed"
        BY <2>4, <4>1 DEF Visit, Judged
      <4> QED
        BY <3>6, <4>2, <4>3 DEF Judged
    <3>8. Compared'
      BY <3>3, <3>4, <3>5, <3>6, <3>7 DEF Compared
    <3> QED
      BY <3>2, <3>8 DEF IInv, Progress
  <2>5. CASE Report
    <3>1. /\ case' = case /\ policy' = policy /\ baseline' = baseline /\ observed' = observed
          /\ differences' = differences /\ outcome' = outcome /\ main' = "done"
      BY <2>5 DEF Report
    <3>2. Unanswered \/ Compared
      BY <2>5 DEF Report, IInv, Progress
    <3>3. (Unanswered \/ Compared)'
      BY <3>1, <3>2, ComparedStays
    <3> QED
      BY <3>1, <3>3 DEF IInv, Progress
  <2>6. CASE UNCHANGED vars
    <3>1. /\ case' = case /\ policy' = policy /\ baseline' = baseline /\ observed' = observed
          /\ differences' = differences /\ outcome' = outcome /\ main' = main
      BY <2>6 DEF vars
    <3>2. main \in {"report", "done"} => (Unanswered \/ Compared)'
      BY <3>1, ComparedStays DEF IInv, Progress
    <3>3. \A broken : Stored(broken)' = Stored(broken)
      BY <3>1 DEF Stored
    <3>4. main = "compare" =>
             \E broken, failed \in BOOLEAN :
                 /\ baseline' = Stored(broken)' /\ policy' = EffectiveFor(baseline)'
                 /\ observed' = Answer(policy, failed)'
                 /\ outcome' = IF failed THEN "failed" ELSE "none"
      BY <3>1 DEF IInv, Progress, Stored, EffectiveFor, Answer
    <3>5. Progress'
      BY <3>1, <3>2, <3>3, <3>4 DEF IInv, Progress
    <3> QED
      BY <3>1, <3>5 DEF IInv
  <2> QED
    BY <2>1, <2>2, <2>3, <2>4, <2>5, <2>6 DEF Next
<1> QED
  BY <1>1, InitProgress, PTL DEF Spec

-----------------------------------------------------------------------------
(* The policy, the headers and the bodies that are compared. *)

\* Both responses of the case, as they are compared.
Exchanged(broken, failed) ==
    /\ case \in Cases
    /\ policy = EffectiveFor(Stored(broken))
    /\ baseline = Sanitize(policy, Stored(broken))
    /\ observed = Answer(policy, failed)

LEMMA StoredMeans ==
    ASSUME case \in Cases, NEW broken \in BOOLEAN
    PROVE  LET s == Stored(broken)
               c == Capture(case.recorded, broken)
           IN  /\ s = Sanitize(case.capture, c) /\ IsResponse(c) /\ IsResponse(s)
               /\ s.status = case.recorded.status
               /\ s.headers = RedactHeaders(case.capture.headers, case.recorded.headers)
               /\ c.headers = case.recorded.headers
<1> DEFINE c == Capture(case.recorded, broken)
           s == Sanitize(case.capture, c)
<1>1. IsResponse(c) /\ c.status = case.recorded.status /\ c.headers = case.recorded.headers
  BY CaptureMeans
<1> HIDE DEF c
<1>2. /\ IsResponse(s) /\ s.status = c.status
      /\ s.headers = RedactHeaders(case.capture.headers, c.headers)
  BY <1>1, SanitizeMeans
<1> QED
  BY <1>1, <1>2 DEF Stored, c

\* What the policy of diff has: the configured rules, the recorder's if they were
\* found, and what the markers show.
LEMMA PolicyMeans ==
    ASSUME case \in Cases, NEW broken \in BOOLEAN, policy = EffectiveFor(Stored(broken))
    PROVE  LET s == Stored(broken)
           IN  /\ policy.json \in SUBSET Seq(Char) /\ policy.headers \subseteq HeaderNames
               /\ case.current.json \subseteq policy.json
               /\ case.current.headers \subseteq policy.headers
               /\ case.known => /\ case.capture.json \subseteq policy.json
                                /\ case.capture.headers \subseteq policy.headers
               /\ \A n \in HeaderNames \ Mandatory :
                     s.headers[n] = "marker" => n \in policy.headers
               /\ s.headers[ContentType] = "json" /\ s.body.syntax = "json" =>
                     MarkerPointers(s.body.doc) \subseteq policy.json
<1> DEFINE s == Stored(broken)
           p == IF case.known THEN Merge(case.current, case.capture) ELSE case.current
           markers == IF s.headers[ContentType] = "json" /\ s.body.syntax = "json"
                      THEN MarkerPointers(s.body.doc) ELSE {}
           marked == {n \in HeaderNames \ Mandatory : s.headers[n] = "marker"}
<1>1. policy.json = p.json \cup markers /\ policy.headers = p.headers \cup marked
  BY DEF EffectiveFor, WithRecordedMarkers, Merge
<1>2. /\ case.current.json \subseteq p.json /\ case.current.headers \subseteq p.headers
      /\ case.known => /\ case.capture.json \subseteq p.json
                       /\ case.capture.headers \subseteq p.headers
  BY DEF Merge
<1>3. \A q \in {case.capture, case.current} :
         q.headers \subseteq HeaderNames /\ q.json \subseteq Seq(Char)
  <2>1. \A t \in Seq(STRING) : t \in Seq(Char)
    BY DEF Char
  <2> QED
    BY <2>1, CasesAssumption
<1>4. p.headers \subseteq HeaderNames /\ p.json \subseteq Seq(Char)
  BY <1>3 DEF Merge
<1>5. markers \subseteq Seq(Char)
  <2> SUFFICES ASSUME NEW m \in markers PROVE m \in Seq(Char)
    OBVIOUS
  <2>1. s.body.syntax = "json" /\ m \in MarkerPointers(s.body.doc)
    OBVIOUS
  <2>2. IsTree(s.body.doc)
    BY <2>1, StoredMeans, JSONIsTree DEF IsResponse, IsJSON
  <2>3. PICK q \in DOMAIN s.body.doc : m = ToPointer(q)
    BY <2>1 DEF MarkerPointers
  <2>4. q \in Seq(Seq(Char))
    BY <2>2, PositionsAreTexts DEF IsTree, IsDocument
  <2> QED
    BY <2>3, <2>4, PositionOfPointer
<1> HIDE DEF s, p
<1>6. policy.json \in SUBSET Seq(Char) /\ policy.headers \subseteq HeaderNames
  BY <1>1, <1>4, <1>5
<1> QED
  BY <1>1, <1>2, <1>6 DEF s

\* A header that the recorder redacted is redacted for diff, ...
LEMMA RedactedHeaderIsKnown ==
    ASSUME case \in Cases, NEW broken \in BOOLEAN, policy = EffectiveFor(Stored(broken)),
           NEW n \in HeaderNames, case.recorded.headers[n] # "absent",
           n \in Mandatory \cup case.capture.headers
    PROVE  n \in Mandatory \cup policy.headers
<1>1. Stored(broken).headers[n] = "marker"
  BY StoredMeans DEF RedactHeaders
<1> QED
  BY <1>1, PolicyMeans

\* ... so the baseline has the headers as diff redacts them, whatever happened before.
LEMMA BaselineHeaders ==
    ASSUME NEW broken \in BOOLEAN, NEW failed \in BOOLEAN, Exchanged(broken, failed)
    PROVE  /\ IsResponse(baseline) /\ baseline.status = case.recorded.status
           /\ baseline.headers = RedactHeaders(policy.headers, case.recorded.headers)
<1> DEFINE R == case.recorded.headers
           S == Stored(broken).headers
<1>1. IsResponse(Stored(broken)) /\ Stored(broken).status = case.recorded.status
      /\ S = RedactHeaders(case.capture.headers, R)
  BY StoredMeans DEF Exchanged
<1>2. IsResponse(baseline) /\ baseline.status = Stored(broken).status
      /\ baseline.headers = RedactHeaders(policy.headers, S)
  BY <1>1, SanitizeMeans DEF Exchanged
<1>3. ASSUME NEW n \in HeaderNames
      PROVE  (IF S[n] # "absent" /\ n \in Mandatory \cup policy.headers THEN "marker" ELSE S[n])
                = (IF R[n] # "absent" /\ n \in Mandatory \cup policy.headers THEN "marker" ELSE R[n])
  <2>1. S[n] = IF R[n] # "absent" /\ n \in Mandatory \cup case.capture.headers
               THEN "marker" ELSE R[n]
    BY <1>1 DEF RedactHeaders
  <2>2. CASE R[n] # "absent" /\ n \in Mandatory \cup case.capture.headers
    BY <2>1, <2>2, RedactedHeaderIsKnown DEF Exchanged
  <2>3. CASE ~(R[n] # "absent" /\ n \in Mandatory \cup case.capture.headers)
    BY <2>1, <2>3
  <2> QED
    BY <2>2, <2>3
<1>4. RedactHeaders(policy.headers, S) = RedactHeaders(policy.headers, R)
  BY <1>3 DEF RedactHeaders
<1> QED
  BY <1>1, <1>2, <1>4

LEMMA ObservedHeaders ==
    ASSUME NEW broken \in BOOLEAN, NEW failed \in BOOLEAN, Exchanged(broken, failed)
    PROVE  /\ IsResponse(observed) /\ observed.status = case.answered.status
           /\ observed.headers = RedactHeaders(policy.headers, case.answered.headers)
<1> DEFINE c == Capture(case.answered, failed)
<1>1. IsResponse(c) /\ c.status = case.answered.status /\ c.headers = case.answered.headers
  BY CaptureMeans DEF Exchanged
<1>2. observed = Sanitize(policy, c)
  BY DEF Exchanged, Answer
<1> HIDE DEF c
<1> QED
  BY <1>1, <1>2, SanitizeMeans

\* Headers that no difference is found in are those that are the same up to what is
\* ignored or redacted.
LEMMA HeadersJudged ==
    ASSUME NEW broken \in BOOLEAN, NEW failed \in BOOLEAN, Exchanged(broken, failed)
    PROVE  CompareHeaders(baseline, observed) = {}
              <=> SameHeaders(case.recorded.headers, case.answered.headers)
<1> DEFINE x == case.recorded.headers
           y == case.answered.headers
           b == baseline.headers
           c == observed.headers
           Skipped(n) == n \in DefaultIgnored \/ << n >> \in Ignore("response.headers")
           hidden == Mandatory \cup policy.headers
<1>1. b = RedactHeaders(policy.headers, x) /\ c = RedactHeaders(policy.headers, y)
  BY BaselineHeaders, ObservedHeaders
<1>2. ASSUME NEW n \in HeaderNames
      PROVE  b[n] = c[n] <=> x[n] = y[n] \/ (n \in hidden /\ x[n] # "absent" /\ y[n] # "absent")
  <2>1. /\ b[n] = IF x[n] # "absent" /\ n \in hidden THEN "marker" ELSE x[n]
        /\ c[n] = IF y[n] # "absent" /\ n \in hidden THEN "marker" ELSE y[n]
    BY <1>1 DEF RedactHeaders
  <2> HIDE DEF b, c, hidden
  <2> QED
    BY <2>1
<1>3. CompareHeaders(baseline, observed) = {} <=>
         IgnoresAll("response.headers") \/ \A n \in HeaderNames : Skipped(n) \/ b[n] = c[n]
  BY DEF CompareHeaders
<1>4. SameHeaders(x, y) <=>
         \/ IgnoresAll("response.headers")
         \/ \A n \in HeaderNames :
               Skipped(n) \/ x[n] = y[n] \/ (n \in hidden /\ x[n] # "absent" /\ y[n] # "absent")
  BY DEF SameHeaders
<1> HIDE DEF b, c, x, y, hidden, Skipped
<1>5. CompareHeaders(baseline, observed) = {} <=> SameHeaders(x, y)
  BY <1>2, <1>3, <1>4
<1> QED
  BY <1>5 DEF x, y

\* The answer's body, if it can be compared: nothing was withheld of it.
LEMMA ObservedBody ==
    ASSUME NEW broken \in BOOLEAN, NEW failed \in BOOLEAN, Exchanged(broken, failed),
           Comparable(observed)
    PROVE  LET A == case.answered
           IN  /\ ~failed /\ Fits(A) /\ IsBody(A.body)
               /\ Readable(policy.json, A.headers[ContentType], A.body)
               /\ observed.body = Cleaned(policy.json, A.headers[ContentType], A.body)
<1> DEFINE c == Capture(case.answered, failed)
<1>1. IsResponse(c) /\ c.headers = case.answered.headers
      /\ (Comparable(c) => ~failed /\ Fits(case.answered) /\ c.body = case.answered.body)
  BY CaptureMeans DEF Exchanged
<1>2. observed = Sanitize(policy, c)
  BY DEF Exchanged, Answer
<1> HIDE DEF c
<1>3. /\ Comparable(c)
      /\ observed.body = Cleaned(policy.json, c.headers[ContentType], c.body)
      /\ Readable(policy.json, c.headers[ContentType], c.body)
  BY <1>1, <1>2, ComparableMeans
<1> QED
  BY <1>1, <1>3 DEF IsResponse

\* The baseline's body: what two redactions left of it.
LEMMA BaselineBody ==
    ASSUME NEW broken \in BOOLEAN, NEW failed \in BOOLEAN, Exchanged(broken, failed),
           Comparable(baseline)
    PROVE  LET R == case.recorded
               S == Stored(broken)
           IN  /\ Fits(R) /\ IsBody(R.body) /\ IsBody(S.body)
               /\ Readable(case.capture.json, R.headers[ContentType], R.body)
               /\ S.body = Cleaned(case.capture.json, R.headers[ContentType], R.body)
               /\ S.headers[ContentType] =
                     IF R.headers[ContentType] # "absent" /\ ContentType \in case.capture.headers
                     THEN "marker" ELSE R.headers[ContentType]
               /\ Readable(policy.json, S.headers[ContentType], S.body)
               /\ baseline.body = Cleaned(policy.json, S.headers[ContentType], S.body)
<1> DEFINE c == Capture(case.recorded, broken)
           S == Stored(broken)
<1>1. IsResponse(c) /\ c.headers = case.recorded.headers
      /\ (Comparable(c) => Fits(case.recorded) /\ c.body = case.recorded.body)
  BY CaptureMeans DEF Exchanged
<1>2. /\ S = Sanitize(case.capture, c) /\ IsResponse(S)
      /\ S.headers = RedactHeaders(case.capture.headers, case.recorded.headers)
  BY StoredMeans DEF Exchanged
<1>3. baseline = Sanitize(policy, S)
  BY DEF Exchanged
<1> HIDE DEF c, S
<1>4. /\ Comparable(S)
      /\ baseline.body = Cleaned(policy.json, S.headers[ContentType], S.body)
      /\ Readable(policy.json, S.headers[ContentType], S.body)
  BY <1>2, <1>3, ComparableMeans
<1>5. /\ Comparable(c)
      /\ S.body = Cleaned(case.capture.json, c.headers[ContentType], c.body)
      /\ Readable(case.capture.json, c.headers[ContentType], c.body)
  BY <1>1, <1>2, <1>4, ComparableMeans
<1>6. S.headers[ContentType] =
         IF case.recorded.headers[ContentType] # "absent" /\ ContentType \in case.capture.headers
         THEN "marker" ELSE case.recorded.headers[ContentType]
  BY <1>2, NamesAssumption DEF RedactHeaders
<1> QED
  BY <1>1, <1>2, <1>4, <1>5, <1>6 DEF IsResponse, S

\* diff knows of every field that the recorder redacted, and that no other was above:
\* by the recorder's rules, or by the marker that is there.
LEMMA RedactedFieldIsKnown ==
    ASSUME case \in Cases, NEW broken \in BOOLEAN, policy = EffectiveFor(Stored(broken)),
           case.recorded.body.syntax = "json",
           Stored(broken).body =
              [syntax |-> "json", doc |-> Redact(case.recorded.body.doc, case.capture.json)],
           case.known \/ Stored(broken).headers[ContentType] = "json"
    PROVE  Outermost(case.recorded.body.doc, case.capture.json) \subseteq Fields(policy.json)
<1> DEFINE d == case.recorded.body.doc
           rules == case.capture.json
           e == Redact(d, rules)
<1>1. IsTree(d)
  <2>1. IsBody(case.recorded.body) /\ IsJSON(case.recorded.body)
    BY CasesAssumption DEF IsJSON
  <2> QED
    BY <2>1, JSONIsTree
<1>2. \A r \in rules : r \in Seq(Char) /\ IsPointer(r) /\ r # << >>
  <2>1. \A t \in Seq(STRING) : t \in Seq(Char)
    BY DEF Char
  <2>2. \A r \in rules : r \in Seq(STRING) /\ IsPointer(r) /\ r # << >>
    BY CasesAssumption
  <2> QED
    BY <2>1, <2>2
<1>3. CASE case.known
  <2>1. rules \subseteq policy.json
    BY <1>3, PolicyMeans
  <2> QED
    BY <2>1 DEF Outermost, Fields
<1>4. CASE Stored(broken).headers[ContentType] = "json"
  <2> SUFFICES ASSUME NEW g \in Outermost(d, rules) PROVE g \in Fields(policy.json)
    OBVIOUS
  <2>1. MarkerPointers(e) \subseteq policy.json
    BY <1>4, PolicyMeans
  <2>2. g \in DOMAIN d /\ g \in Fields(rules)
        /\ \A h \in Fields(rules) \cap DOMAIN d : ~IsStrictPrefix(h, g)
    BY DEF Outermost
  <2>3. g \in DOMAIN e /\ e[g] = RedactedValue
    BY OutermostMarked
  <2>4. g # Root
    <3>1. PICK r \in rules : g = Position(r)
      BY <2>2 DEF Fields
    <3>2. ToPointer(g) = r
      BY <1>2, <3>1, PointerOfPosition
    <3>3. r # << >>
      BY <1>2
    <3> QED
      BY <3>2, <3>3, ToPointerEmpty DEF Root
  <2>5. ToPointer(g) \in policy.json
    BY <2>1, <2>3, <2>4 DEF MarkerPointers
  <2>6. g \in Seq(Seq(Char))
    BY <1>1, <2>2, PositionsAreTexts DEF IsTree, IsDocument
  <2>7. Position(ToPointer(g)) = g
    BY <2>6, PositionOfPointer
  <2> QED
    BY <2>5, <2>7 DEF Fields
<1> QED
  BY <1>3, <1>4

\* What was redacted is not seen, if diff knows of it.
LEMMA CleaningUnseen ==
    ASSUME policy.json \in SUBSET Seq(Char), NEW rules \in SUBSET Seq(Char), NEW type,
           NEW body, IsBody(body), IsJSON(body), Readable(rules, type, body),
           Cleaned(rules, type, body) = [syntax |-> "json", doc |-> Redact(body.doc, rules)] =>
              Outermost(body.doc, rules) \subseteq Fields(policy.json)
    PROVE  Visible(Cleaned(rules, type, body).doc) = Visible(body.doc)
<1>1. CASE rules = {} \/ body = Empty \/ type = "form"
  BY <1>1 DEF Cleaned
<1>2. CASE ~(rules = {} \/ body = Empty \/ type = "form")
  <2>1. Cleaned(rules, type, body) = [syntax |-> "json", doc |-> Redact(body.doc, rules)]
    BY <1>2 DEF Cleaned
  <2>2. Visible(Redact(body.doc, rules)) = Visible(body.doc)
    BY <2>1, JSONIsTree, RedactionUnseen
  <2> QED
    BY <2>1, <2>2
<1> QED
  BY <1>1, <1>2

\* The answer, as it is compared, is seen as it came.
LEMMA ObservedSeen ==
    ASSUME NEW broken \in BOOLEAN, NEW failed \in BOOLEAN, Exchanged(broken, failed),
           Comparable(observed)
    PROVE  LET A == case.answered.body
           IN  /\ IsBody(observed.body) /\ (IsJSON(observed.body) <=> IsJSON(A))
               /\ ~IsJSON(A) => observed.body = A
               /\ IsJSON(A) => Visible(observed.body.doc) = Visible(A.doc)
<1> DEFINE A == case.answered.body
           type == case.answered.headers[ContentType]
<1>1. IsBody(A) /\ Readable(policy.json, type, A) /\ observed.body = Cleaned(policy.json, type, A)
  BY ObservedBody
<1>2. policy.json \in SUBSET Seq(Char)
  BY PolicyMeans DEF Exchanged
<1> HIDE DEF A, type
<1>3. /\ IsBody(observed.body) /\ (IsJSON(observed.body) <=> IsJSON(A))
      /\ ~IsJSON(A) => observed.body = A
  BY <1>1, CleanedKind
<1>4. Outermost(A.doc, policy.json) \subseteq Fields(policy.json)
  BY DEF Outermost
<1>5. IsJSON(A) => Visible(observed.body.doc) = Visible(A.doc)
  BY <1>1, <1>2, <1>4, CleaningUnseen
<1> QED
  BY <1>3, <1>5 DEF A

\* So is the recorded response, in spite of two redactions, if the first is legible.
LEMMA BaselineSeen ==
    ASSUME NEW broken \in BOOLEAN, NEW failed \in BOOLEAN, Exchanged(broken, failed),
           Comparable(baseline)
    PROVE  LET R == case.recorded.body
           IN  /\ IsBody(baseline.body) /\ (IsJSON(baseline.body) <=> IsJSON(R))
               /\ ~IsJSON(R) => baseline.body = R
               /\ IsJSON(R) /\ Legible => Visible(baseline.body.doc) = Visible(R.doc)
<1> DEFINE R == case.recorded.body
           tR == case.recorded.headers[ContentType]
           S == Stored(broken).body
           tS == Stored(broken).headers[ContentType]
           cap == case.capture.json
<1>1. /\ IsBody(R) /\ IsBody(S) /\ Readable(cap, tR, R) /\ S = Cleaned(cap, tR, R)
      /\ tS = IF tR # "absent" /\ ContentType \in case.capture.headers THEN "marker" ELSE tR
      /\ Readable(policy.json, tS, S) /\ baseline.body = Cleaned(policy.json, tS, S)
  BY BaselineBody
<1>2. policy.json \in SUBSET Seq(Char) /\ cap \in SUBSET Seq(Char)
  <2>1. \A t \in Seq(STRING) : t \in Seq(Char)
    BY DEF Char
  <2>2. cap \subseteq Seq(STRING)
    BY CasesAssumption DEF Exchanged
  <2> QED
    BY <2>1, <2>2, PolicyMeans DEF Exchanged
<1>3. /\ (IsJSON(S) <=> IsJSON(R)) /\ S.syntax = R.syntax
      /\ ~IsJSON(R) => S = R
  BY <1>1, CleanedKind
<1>4. /\ IsBody(baseline.body) /\ (IsJSON(baseline.body) <=> IsJSON(S))
      /\ ~IsJSON(S) => baseline.body = S
  BY <1>1, CleanedKind
<1>5. ASSUME IsJSON(R), Legible PROVE Visible(baseline.body.doc) = Visible(R.doc)
  <2>1. Outermost(S.doc, policy.json) \subseteq Fields(policy.json)
    BY DEF Outermost
  <2>2. Visible(baseline.body.doc) = Visible(S.doc)
    BY <1>1, <1>2, <1>3, <1>5, <2>1, CleaningUnseen
  <2>3. CASE cap = {} \/ R = Empty \/ tR = "form"
    <3>1. S = R
      BY <1>1, <2>3 DEF Cleaned
    <3> QED
      BY <2>2, <3>1
  <2>4. CASE ~(cap = {} \/ R = Empty \/ tR = "form")
    <3>1. R.syntax = "json" /\ tR = "json" /\ S = [syntax |-> "json", doc |-> Redact(R.doc, cap)]
      BY <1>1, <2>4 DEF Cleaned, Readable
    <3>2. case.known \/ tS = "json"
      BY <1>1, <1>5, <2>4, <3>1 DEF Legible
    <3>3. Outermost(R.doc, cap) \subseteq Fields(policy.json)
      BY <3>1, <3>2, RedactedFieldIsKnown DEF Exchanged
    <3>4. Visible(S.doc) = Visible(R.doc)
      BY <1>1, <1>2, <1>5, <3>3, CleaningUnseen
    <3> QED
      BY <2>2, <3>4
  <2> QED
    BY <2>3, <2>4
<1> HIDE DEF R, S
<1> QED
  BY <1>3, <1>4, <1>5 DEF R

\* Where compareBody finds nothing, the documents it compared agree.
LEMMA NoBodyDifference ==
    ASSUME NEW b, NEW c, IsJSON(b.body), IsJSON(c.body), ~IgnoresAll("response.body"),
           ~BodyUnavailable(b, c)
    PROVE  CompareBody(b, c) = {} <=> b.body = c.body \/ Found(b.body.doc, c.body.doc) = {}
BY DEF CompareBody, CompareDocuments, Found

\* The bodies of which compareBody says that they are the same are.
LEMMA SameBodyEarned ==
    ASSUME NEW broken \in BOOLEAN, NEW failed \in BOOLEAN, Exchanged(broken, failed), Legible,
           ~BodyUnavailable(baseline, observed), CompareBody(baseline, observed) = {}
    PROVE  SameBody(case.recorded.body, case.answered.body)
<1> DEFINE R == case.recorded.body
           A == case.answered.body
           b == baseline.body
           c == observed.body
<1>1. CASE IgnoresAll("response.body")
  BY <1>1 DEF SameBody
<1>2. CASE ~IgnoresAll("response.body")
  <2>1. Comparable(baseline) /\ Comparable(observed)
    BY <1>2 DEF BodyUnavailable
  <2>2. /\ IsBody(b) /\ (IsJSON(b) <=> IsJSON(R)) /\ (~IsJSON(R) => b = R)
        /\ IsJSON(R) => Visible(b.doc) = Visible(R.doc)
    BY <2>1, BaselineSeen
  <2>3. /\ IsBody(c) /\ (IsJSON(c) <=> IsJSON(A)) /\ (~IsJSON(A) => c = A)
        /\ IsJSON(A) => Visible(c.doc) = Visible(A.doc)
    BY <2>1, ObservedSeen
  <2>4. b = c \/ (IsJSON(b) /\ IsJSON(c))
    BY <1>2 DEF CompareBody
  <2>5. CASE IsJSON(b) /\ IsJSON(c)
    <3>1. IsTree(b.doc) /\ IsTree(c.doc)
      BY <2>2, <2>3, <2>5, JSONIsTree
    <3>2. b = c \/ Found(b.doc, c.doc) = {}
      BY <1>2, <2>5, NoBodyDifference
    <3>3. Found(b.doc, c.doc) = {} => Agree(b.doc, c.doc)
      BY <3>1, NoneFoundAgree DEF Exchanged
    <3>4. DOMAIN b.doc \subseteq Seq(Seq(STRING)) /\ DOMAIN c.doc \subseteq Seq(Seq(STRING))
      BY <3>1 DEF IsTree, IsDocument
    <3>5. Ignore("response.body") \in SUBSET Seq(Char)
      BY IgnoredPaths DEF Exchanged
    <3>6. Found(b.doc, c.doc) = {} => Visible(b.doc) = Visible(c.doc)
      BY <3>3, <3>4, <3>5, AgreeShown
    <3> QED
      BY <2>2, <2>3, <2>5, <3>2, <3>6 DEF SameBody
  <2>6. CASE b = c /\ ~IsJSON(b)
    BY <2>2, <2>3, <2>6 DEF SameBody
  <2> QED
    BY <2>4, <2>5, <2>6
<1> QED
  BY <1>1, <1>2

\* Bodies that are the same are found to be, if both were looked into: what is in
\* the place of a redacted field is the marker in both.
LEMMA SameBodyFound ==
    ASSUME NEW broken \in BOOLEAN, NEW failed \in BOOLEAN, Exchanged(broken, failed), Legible,
           ~Uninspected(case.recorded), ~Uninspected(case.answered),
           ~BodyUnavailable(baseline, observed),
           SameBody(case.recorded.body, case.answered.body)
    PROVE  CompareBody(baseline, observed) = {}
<1> DEFINE R == case.recorded.body
           A == case.answered.body
           S == Stored(broken).body
           tS == Stored(broken).headers[ContentType]
           tA == case.answered.headers[ContentType]
           b == baseline.body
           c == observed.body
<1>1. CASE IgnoresAll("response.body")
  BY <1>1 DEF CompareBody
<1>2. CASE ~IgnoresAll("response.body")
  <2>1. Comparable(baseline) /\ Comparable(observed)
    BY <1>2 DEF BodyUnavailable
  <2>2. /\ IsBody(b) /\ (IsJSON(b) <=> IsJSON(R)) /\ (~IsJSON(R) => b = R)
        /\ IsJSON(R) => Visible(b.doc) = Visible(R.doc)
    BY <2>1, BaselineSeen
  <2>3. /\ IsBody(c) /\ (IsJSON(c) <=> IsJSON(A)) /\ (~IsJSON(A) => c = A)
        /\ IsJSON(A) => Visible(c.doc) = Visible(A.doc)
    BY <2>1, ObservedSeen
  <2>4. CASE ~IsJSON(R) \/ ~IsJSON(A)
    <3>1. R = A
      BY <1>2, <2>4 DEF SameBody
    <3>2. b = c
      BY <2>2, <2>3, <2>4, <3>1
    <3> QED
      BY <3>2 DEF CompareBody
  <2>5. CASE IsJSON(R) /\ IsJSON(A)
    <3>1. Visible(b.doc) = Visible(c.doc)
      BY <1>2, <2>2, <2>3, <2>5 DEF SameBody
    <3>2. /\ IsBody(R) /\ IsBody(S) /\ S = Cleaned(case.capture.json, case.recorded.headers[ContentType], R)
          /\ Readable(case.capture.json, case.recorded.headers[ContentType], R)
          /\ tS \in {"marker", case.recorded.headers[ContentType]}
          /\ Readable(policy.json, tS, S) /\ b = Cleaned(policy.json, tS, S)
      BY <2>1, BaselineBody
    <3>3. IsJSON(S)
      BY <2>5, <3>2, CleanedKind
    <3>4. IsBody(A) /\ Readable(policy.json, tA, A) /\ c = Cleaned(policy.json, tA, A)
      BY <2>1, ObservedBody
    <3>5. policy.json \in SUBSET Seq(Char)
      BY PolicyMeans DEF Exchanged
    <3>6. (policy.json # {} => tS # "form") /\ (policy.json # {} => tA # "form")
      BY <2>5, <3>2 DEF Uninspected
    <3>7. ASSUME NEW body, IsBody(body), IsJSON(body), NEW type, policy.json # {} => type # "form"
          PROVE  IsClean(Cleaned(policy.json, type, body).doc)
      <4>1. body # Empty
        BY <3>7 DEF IsJSON, Empty
      <4>2. CASE policy.json = {}
        BY <4>2 DEF IsClean, Fields
      <4>3. CASE policy.json # {}
        <5>1. Cleaned(policy.json, type, body) =
                 [syntax |-> "json", doc |-> Redact(body.doc, policy.json)]
          BY <3>7, <4>1, <4>3 DEF Cleaned
        <5>2. IsClean(Redact(body.doc, policy.json))
          BY <3>5, <3>7, JSONIsTree, RedactedIsClean
        <5> QED
          BY <5>1, <5>2
      <4> QED
        BY <4>2, <4>3
    <3>8. IsClean(b.doc) /\ IsClean(c.doc)
      <4> HIDE DEF b, c, S, A, tS, tA
      <4> QED
        BY <2>5, <3>2, <3>3, <3>4, <3>6, <3>7
    <3>9. Agree(b.doc, c.doc)
      BY <3>1, <3>8, CleanAgree
    <3>10. IsTree(b.doc) /\ IsTree(c.doc)
      BY <2>2, <2>3, <2>5, JSONIsTree
    <3>11. Found(b.doc, c.doc) = {}
      BY <3>9, <3>10, AgreeNoneFound DEF Exchanged
    <3> QED
      BY <1>2, <2>2, <2>3, <2>5, <3>11, NoBodyDifference
  <2> QED
    BY <2>4, <2>5
<1> QED
  BY <1>1, <1>2

-----------------------------------------------------------------------------
(* The theorems. *)

LEMMA StatusJudged ==
    ASSUME NEW broken \in BOOLEAN, NEW failed \in BOOLEAN, Exchanged(broken, failed)
    PROVE  CompareStatus(baseline, observed) = {}
              <=> case.recorded.status = case.answered.status \/ IgnoresAll("response.status")
BY BaselineHeaders, ObservedHeaders DEF CompareStatus

\* What is known of an exchange that came to a verdict other than "failed".
LEMMA Verdicts ==
    ASSUME IInv, outcome \in {"equivalent", "changed"}
    PROVE  \E broken, failed \in BOOLEAN :
              /\ Exchanged(broken, failed) /\ ~failed /\ ~BodyUnavailable(baseline, observed)
              /\ outcome = "equivalent" <=> Compare(baseline, observed) = {}
<1>1. Compared
  BY DEF IInv, Progress, Unanswered
<1>2. PICK broken \in BOOLEAN, failed \in BOOLEAN :
         /\ policy = EffectiveFor(Stored(broken))
         /\ baseline = Sanitize(policy, Stored(broken))
         /\ observed = Answer(policy, failed)
         /\ outcome = Judged(failed, baseline, observed)
  BY <1>1 DEF Compared
<1>3. Exchanged(broken, failed)
  BY <1>2 DEF Exchanged, IInv
<1>4. ~failed /\ ~BodyUnavailable(baseline, observed)
      /\ (outcome = "equivalent" <=> Compare(baseline, observed) = {})
  BY <1>2 DEF Judged
<1> QED
  BY <1>3, <1>4

\* Whoever is told "equivalent" can rely on it, whatever was recorded, answered,
\* redacted and ignored: EquivalentIsEarned.
THEOREM EquivalenceEarned == Spec => []EquivalentIsEarned
<1>1. ASSUME IInv PROVE EquivalentIsEarned
  <2> SUFFICES ASSUME outcome = "equivalent", Legible
               PROVE  /\ SameBehavior(case.recorded, case.answered)
                      /\ IgnoresAll("response.body") \/ (Fits(case.recorded) /\ Fits(case.answered))
    BY DEF EquivalentIsEarned
  <2>1. PICK broken \in BOOLEAN, failed \in BOOLEAN :
           /\ Exchanged(broken, failed) /\ ~BodyUnavailable(baseline, observed)
           /\ Compare(baseline, observed) = {}
    BY <1>1, Verdicts
  <2>2. /\ CompareStatus(baseline, observed) = {} /\ CompareHeaders(baseline, observed) = {}
        /\ CompareBody(baseline, observed) = {}
    BY <2>1 DEF Compare
  <2>3. SameBehavior(case.recorded, case.answered)
    BY <2>1, <2>2, StatusJudged, HeadersJudged, SameBodyEarned DEF SameBehavior
  <2>4. IgnoresAll("response.body") \/ (Fits(case.recorded) /\ Fits(case.answered))
    <3>1. IgnoresAll("response.body") \/ (Comparable(baseline) /\ Comparable(observed))
      BY <2>1 DEF BodyUnavailable
    <3> QED
      BY <2>1, <3>1, BaselineBody, ObservedBody
  <2> QED
    BY <2>3, <2>4
<1> QED
  BY <1>1, InductiveInvariant, PTL

\* Nor does diff cry wolf: ChangedIsReal.
THEOREM ChangeReal == Spec => []ChangedIsReal
<1>1. ASSUME IInv PROVE ChangedIsReal
  <2> SUFFICES ASSUME outcome = "changed", Legible, ~Uninspected(case.recorded),
                      ~Uninspected(case.answered), SameBehavior(case.recorded, case.answered)
               PROVE  FALSE
    BY DEF ChangedIsReal
  <2>1. PICK broken \in BOOLEAN, failed \in BOOLEAN :
           /\ Exchanged(broken, failed) /\ ~BodyUnavailable(baseline, observed)
           /\ Compare(baseline, observed) # {}
    BY <1>1, Verdicts
  <2>2. /\ CompareStatus(baseline, observed) = {} /\ CompareHeaders(baseline, observed) = {}
        /\ CompareBody(baseline, observed) = {}
    BY <2>1, StatusJudged, HeadersJudged, SameBodyFound DEF SameBehavior
  <2> QED
    BY <2>1, <2>2 DEF Compare
<1> QED
  BY <1>1, InductiveInvariant, PTL

LEMMA HeaderDifferences ==
    ASSUME NEW b, NEW c, NEW d \in CompareHeaders(b, c)
    PROVE  d.component = "response.headers"
<1>1. \E n, kind : d = [component |-> "response.headers", kind |-> kind, path |-> << n >>]
  BY DEF CompareHeaders
<1> QED
  BY <1>1

\* The places of the differences that are reported for the bodies.
LEMMA BodyDifferencesAre ==
    ASSUME Compared
    PROVE  /\ BodyDifferences = {d.path : d \in CompareBody(baseline, observed)}
           /\ \A p \in BodyDifferences :
                 /\ ~IgnoresAll("response.body") /\ Comparable(baseline) /\ Comparable(observed)
                 /\ \/ /\ ~(IsJSON(baseline.body) /\ IsJSON(observed.body))
                       /\ p = Root /\ BodyDifferences = {Root}
                    \/ /\ IsJSON(baseline.body) /\ IsJSON(observed.body)
                       /\ BodyDifferences = Found(baseline.body.doc, observed.body.doc)
<1> DEFINE D == CompareBody(baseline, observed)
<1>1. differences = CompareStatus(baseline, observed) \cup CompareHeaders(baseline, observed) \cup D
  BY DEF Compared, Compare
<1>2. \A d \in CompareStatus(baseline, observed) : d.component # "response.body"
  BY DEF CompareStatus
<1>3. \A d \in CompareHeaders(baseline, observed) : d.component # "response.body"
  BY HeaderDifferences
<1>4. \A d \in D : d.component = "response.body"
  BY DEF CompareBody
<1> HIDE DEF D
<1>5. {e \in differences : e.component = "response.body"} = D
  BY <1>1, <1>2, <1>3, <1>4
<1>6. BodyDifferences = {d.path : d \in D}
  BY <1>5 DEF BodyDifferences, DifferencesOf
<1>7. ASSUME NEW p \in BodyDifferences
      PROVE  /\ ~IgnoresAll("response.body") /\ Comparable(baseline) /\ Comparable(observed)
             /\ \/ /\ ~(IsJSON(baseline.body) /\ IsJSON(observed.body))
                   /\ p = Root /\ BodyDifferences = {Root}
                \/ /\ IsJSON(baseline.body) /\ IsJSON(observed.body)
                   /\ BodyDifferences = Found(baseline.body.doc, observed.body.doc)
  <2>1. D # {}
    BY <1>6
  <2>2. /\ ~IgnoresAll("response.body") /\ Comparable(baseline) /\ Comparable(observed)
        /\ baseline.body # observed.body /\ ~BodyUnavailable(baseline, observed)
    BY <2>1 DEF D, CompareBody, BodyUnavailable
  <2>3. CASE IsJSON(baseline.body) /\ IsJSON(observed.body)
    <3> DEFINE b == baseline.body.doc
               c == observed.body.doc
               found == CompareDocuments(b, c, Ignore("response.body"))
    <3>1. D = {[component |-> "response.body", kind |-> d.kind, path |-> d.path] : d \in found}
      BY <2>2, <2>3 DEF D, CompareBody
    <3>2. found = {[kind |-> Verdict(b, c, q), path |-> q] : q \in Found(b, c)}
      BY DEF CompareDocuments, Found
    <3> HIDE DEF b, c, found
    <3>3. ASSUME NEW q \in Found(b, c) PROVE \E d \in D : d.path = q
      <4> DEFINE e == [kind |-> Verdict(b, c, q), path |-> q]
      <4>1. e \in found /\ e.path = q
        BY <3>2
      <4> HIDE DEF e
      <4> DEFINE x == [component |-> "response.body", kind |-> e.kind, path |-> e.path]
      <4>2. x \in D
        BY <3>1, <4>1
      <4>3. x.path = q
        BY <4>1
      <4> QED
        BY <4>2, <4>3
    <3>4. ASSUME NEW d \in D PROVE d.path \in Found(b, c)
      <4>1. PICK e \in found : d.path = e.path
        BY <3>1
      <4>2. PICK q \in Found(b, c) : e = [kind |-> Verdict(b, c, q), path |-> q]
        BY <3>2
      <4> QED
        BY <4>1, <4>2
    <3>5. {d.path : d \in D} = Found(b, c)
      BY <3>3, <3>4
    <3> QED
      BY <1>6, <2>2, <2>3, <3>5 DEF b, c
  <2>4. CASE ~(IsJSON(baseline.body) /\ IsJSON(observed.body))
    <3>1. D = {[component |-> "response.body", kind |-> "body_changed", path |-> Root]}
      BY <2>2, <2>4 DEF D, CompareBody
    <3>2. \A d \in D : d.path = Root
      BY <3>1
    <3>3. BodyDifferences = {Root}
      BY <1>6, <2>1, <3>2
    <3> QED
      BY <2>2, <2>4, <3>3
  <2> QED
    BY <2>3, <2>4
<1> QED
  BY <1>6, <1>7 DEF D

LEMMA NoDifferenceYet ==
    ASSUME IInv, ~Compared
    PROVE  differences = {} /\ outcome \notin {"equivalent", "changed"}
<1>1. CASE main \in {"report", "done"}
  BY <1>1 DEF IInv, Progress, Unanswered
<1>2. CASE main \in {"record", "replay", "compare"}
  BY <1>2 DEF IInv, Progress
<1> QED
  BY <1>1, <1>2 DEF IInv

\* What diff reports of bodies is where they differ, all of it and nothing twice:
\* DifferencesExplain.
THEOREM DifferencesAreExact == Spec => []DifferencesExplain
<1>1. ASSUME IInv PROVE DifferencesExplain
  <2>1. CASE ~Compared
    BY <1>1, <2>1, NoDifferenceYet DEF DifferencesExplain, BodyDifferences, DifferencesOf
  <2>2. CASE Compared
    <3> DEFINE b == baseline.body.doc
               c == observed.body.doc
    <3>1. PICK broken \in BOOLEAN, failed \in BOOLEAN :
             /\ Exchanged(broken, failed) /\ differences = Compare(baseline, observed)
             /\ outcome = Judged(failed, baseline, observed)
      BY <1>1, <2>2 DEF Compared, Exchanged, IInv
    <3>2. case \in Cases
      BY <1>1 DEF IInv
    <3>3. IsBody(baseline.body) /\ IsBody(observed.body)
      BY <3>1, BaselineHeaders, ObservedHeaders DEF IsResponse
    <3>4. IsJSON(baseline.body) => IsTree(b)
      BY <3>3, JSONIsTree
    <3>5. IsJSON(observed.body) => IsTree(c)
      BY <3>3, JSONIsTree
    <3>6. ASSUME NEW p \in BodyDifferences
          PROVE  /\ \A q \in BodyDifferences : ~IsStrictPrefix(q, p)
                 /\ \A rule \in Ignore("response.body") : ~IsPrefix(Position(rule), p)
      <4>1. /\ ~IgnoresAll("response.body")
            /\ \/ p = Root /\ BodyDifferences = {Root}
               \/ /\ IsJSON(baseline.body) /\ IsJSON(observed.body)
                  /\ BodyDifferences = Found(b, c)
        BY <2>2, BodyDifferencesAre
      <4>2. CASE p = Root /\ BodyDifferences = {Root}
        <5>1. \A q \in BodyDifferences : ~IsStrictPrefix(q, p)
          BY <4>2 DEF IsStrictPrefix
        <5>2. ASSUME NEW rule \in Ignore("response.body"), IsPrefix(Position(rule), p)
              PROVE  FALSE
          <6>1. rule \in Seq(Char) /\ IsPointer(rule) /\ rule # << >>
            BY <3>2, <4>1, IgnoredPaths DEF IgnoresAll
          <6>2. Position(rule) \in Seq(Seq(Char)) /\ ToPointer(Position(rule)) = rule
            BY <6>1, PointerOfPosition
          <6>3. Root \in Seq(Seq(Char)) /\ Len(Root) = 0
            BY DEF Root
          <6>4. Position(rule) = Root
            <7>1. Len(Position(rule)) \in Nat
              BY <6>2, LenProperties
            <7>2. IsPrefix(Position(rule), Root) /\ Len(Root) <= Len(Position(rule))
              BY <4>2, <5>2, <6>3, <7>1
            <7> HIDE DEF b, c
            <7> QED
              BY <6>2, <6>3, <7>2, PrefixOfSameLength
          <6> QED
            BY <6>1, <6>2, <6>4, ToPointerEmpty DEF Root
        <5> QED
          BY <5>1, <5>2
      <4>3. CASE IsJSON(baseline.body) /\ IsJSON(observed.body) /\ BodyDifferences = Found(b, c)
        <5> HIDE DEF b, c
        <5>1. Counts(p) /\ \A q \in Found(b, c) : ~IsStrictPrefix(q, p)
          BY <3>2, <3>4, <3>5, <4>3, FoundApart
        <5> QED
          BY <4>3, <5>1 DEF Counts
      <4> QED
        BY <4>1, <4>2, <4>3
    <3>7. ASSUME outcome \in {"equivalent", "changed"}, IsJSON(baseline.body),
                 IsJSON(observed.body), ~IgnoresAll("response.body")
          PROVE  Visible(Patched(b, c)) = Visible(c)
      <4>1. ~BodyUnavailable(baseline, observed)
        BY <3>1, <3>7 DEF Judged
      <4>2. BodyDifferences = Found(b, c)
        <5>1. CASE BodyDifferences # {}
          BY <2>2, <3>7, <5>1, BodyDifferencesAre
        <5>2. CASE BodyDifferences = {}
          <6>1. CompareBody(baseline, observed) = {}
            BY <2>2, <5>2, BodyDifferencesAre
          <6>2. baseline.body = observed.body \/ Found(b, c) = {}
            BY <3>7, <4>1, <6>1, NoBodyDifference
          <6>3. Agree(b, b)
            BY DEF Agree
          <6>4. Found(b, b) = {}
            BY <3>2, <3>4, <3>7, <6>3, AgreeNoneFound
          <6> QED
            BY <5>2, <6>2, <6>4
        <5> QED
          BY <5>1, <5>2
      <4>3. Visible(Patched(b, c)) = Visible(c)
        BY <3>2, <3>4, <3>5, <3>7, <4>2, PatchedAgrees
      <4> QED
        BY <4>3
    <3> QED
      BY <3>6, <3>7 DEF DifferencesExplain
  <2> QED
    BY <2>1, <2>2
<1> QED
  BY <1>1, InductiveInvariant, PTL

\* A rule that protects is covered by one that diff applies: the same, or one for a
\* field above it.
LEMMA ProtectedIsKnown ==
    ASSUME NEW broken \in BOOLEAN, NEW failed \in BOOLEAN, Exchanged(broken, failed),
           Comparable(baseline), NEW rule \in Protected
    PROVE  \E r \in policy.json : IsPrefix(Position(r), Position(rule))
<1> DEFINE R == case.recorded.body
           cap == case.capture.json
<1>1. \A r \in cap \cup case.current.json :
         r \in Seq(Char) /\ Position(r) \in Seq(Seq(Char))
  <2>1. \A t \in Seq(STRING) : t \in Seq(Char)
    BY DEF Char
  <2>2. \A r \in cap \cup case.current.json : r \in Seq(STRING) /\ IsPointer(r)
    BY CasesAssumption DEF Exchanged
  <2>3. \A r \in cap \cup case.current.json : r \in Seq(Char)
    BY <2>1, <2>2
  <2> QED
    BY <2>2, <2>3, PointerOfPosition
<1>2. rule \in cap \cup case.current.json
  BY DEF Protected
<1>3. CASE rule \in policy.json
  <2>1. IsPrefix(Position(rule), Position(rule))
    BY <1>1, <1>2, PrefixReflexive
  <2> QED
    BY <1>3, <2>1
<1>4. CASE rule \notin policy.json
  <2>1. /\ rule \in cap /\ R.syntax = "json" /\ case.recorded.headers[ContentType] = "json"
        /\ Position(rule) \in DOMAIN R.doc /\ ContentType \notin case.capture.headers
    BY <1>4, PolicyMeans DEF Protected, Exchanged
  <2>2. /\ Stored(broken).body = Cleaned(cap, "json", R)
        /\ Stored(broken).headers[ContentType] = "json" /\ IsBody(R)
    BY <2>1, BaselineBody
  <2>3. Stored(broken).body = [syntax |-> "json", doc |-> Redact(R.doc, cap)]
    BY <2>1, <2>2 DEF Cleaned, Empty
  <2>4. Outermost(R.doc, cap) \subseteq Fields(policy.json)
    BY <2>1, <2>2, <2>3, RedactedFieldIsKnown DEF Exchanged
  <2>5. IsTree(R.doc)
    BY <2>1, <2>2, JSONIsTree DEF IsJSON
  <2>6. Position(rule) \in Fields(cap) \cap DOMAIN R.doc
    BY <2>1 DEF Fields
  <2>7. cap \in SUBSET Seq(Char)
    BY <1>1
  <2> HIDE DEF R, cap
  <2>8. PICK g \in Outermost(R.doc, cap) : IsPrefix(g, Position(rule))
    BY <2>5, <2>6, <2>7, OutermostAbove
  <2> QED
    BY <2>4, <2>8 DEF Fields
<1> QED
  BY <1>3, <1>4

\* Of a body that the policy was applied to, what is at or below a field of the policy
\* is the marker.
LEMMA CleanedHides ==
    ASSUME NEW body, IsBody(body), IsJSON(body), NEW type, type # "form",
           policy.json \in SUBSET Seq(Char), NEW r \in policy.json,
           NEW p \in DOMAIN Cleaned(policy.json, type, body).doc, IsPrefix(Position(r), p)
    PROVE  Cleaned(policy.json, type, body).doc[p] = RedactedValue
<1>1. body # Empty
  BY DEF IsJSON, Empty
<1>2. Cleaned(policy.json, type, body) = [syntax |-> "json", doc |-> Redact(body.doc, policy.json)]
  BY <1>1 DEF Cleaned
<1>3. IsDocument(body.doc)
  BY JSONIsTree DEF IsTree
<1>4. p \in DOMAIN Redact(body.doc, policy.json)
  BY <1>2
<1>5. Redact(body.doc, policy.json)[p] = RedactedValue
  BY <1>3, <1>4, RedactHides
<1> QED
  BY <1>2, <1>5

\* Headers that are protected are absent or marked.
LEMMA ProtectedHeadersHidden ==
    ASSUME NEW broken \in BOOLEAN, NEW failed \in BOOLEAN, Exchanged(broken, failed),
           NEW n \in ProtectedHeaders
    PROVE  /\ baseline.headers[n] \in {"absent", "marker"}
           /\ observed.headers[n] \in {"absent", "marker"}
<1>1. n \in HeaderNames
  BY NamesAssumption, CasesAssumption DEF ProtectedHeaders, Exchanged
<1>2. n \in Mandatory \cup policy.headers
  BY <1>1, PolicyMeans, RedactedHeaderIsKnown DEF ProtectedHeaders, Exchanged
<1>3. /\ baseline.headers = RedactHeaders(policy.headers, case.recorded.headers)
      /\ observed.headers = RedactHeaders(policy.headers, case.answered.headers)
  BY BaselineHeaders, ObservedHeaders
<1> QED
  BY <1>1, <1>2, <1>3 DEF RedactHeaders

\* Nothing that is protected shows in what diff reports: ProtectedStaysHidden.
THEOREM ProtectedHidden == Spec => []ProtectedStaysHidden
<1>1. ASSUME IInv PROVE ProtectedStaysHidden
  <2>1. CASE ~Compared
    BY <1>1, <2>1, NoDifferenceYet
    DEF ProtectedStaysHidden, StaysHidden, BodyDifferences, DifferencesOf
  <2>2. CASE Compared
    <3>1. PICK broken \in BOOLEAN, failed \in BOOLEAN : Exchanged(broken, failed)
      BY <1>1, <2>2 DEF Compared, Exchanged, IInv
    <3>2. policy.json \in SUBSET Seq(Char)
      BY <3>1, PolicyMeans DEF Exchanged
    <3>3. ASSUME NEW path \in BodyDifferences, NEW rule \in Protected, NEW p,
                 NEW r, IsTree(r.body.doc), p \in Under(r.body.doc, path),
                 IsPrefix(Position(rule), p)
          PROVE  \E s \in policy.json : IsPrefix(Position(s), p)
      <4>1. Comparable(baseline)
        BY <2>2, BodyDifferencesAre
      <4>2. PICK s \in policy.json : IsPrefix(Position(s), Position(rule))
        BY <3>1, <4>1, ProtectedIsKnown
      <4>3. p \in Seq(Seq(STRING))
        BY <3>3 DEF Under, IsTree, IsDocument
      <4>4. Position(s) \in Seq(Range(Position(s))) /\ Position(rule) \in Seq(Range(Position(rule)))
        <5>1. rule \in Seq(STRING)
          BY <3>1, CasesAssumption DEF Protected, Exchanged
        <5> QED
          BY <3>2, <5>1, PointerNamesPosition
      <4>5. IsPrefix(Position(s), p)
        BY <3>3, <4>2, <4>3, <4>4, PrefixTransitive
      <4> QED
        BY <4>5
    <3>4. ASSUME IsJSON(baseline.body), ~Uninspected(case.recorded),
                 NEW path \in BodyDifferences, NEW p \in Under(baseline.body.doc, path),
                 NEW rule \in Protected, IsPrefix(Position(rule), p)
          PROVE  baseline.body.doc[p] = RedactedValue
      <4> DEFINE S == Stored(broken).body
                 tS == Stored(broken).headers[ContentType]
                 tR == case.recorded.headers[ContentType]
      <4>1. Comparable(baseline)
        BY <2>2, BodyDifferencesAre
      <4>2. /\ IsBody(case.recorded.body) /\ IsBody(S) /\ Readable(case.capture.json, tR, case.recorded.body)
            /\ S = Cleaned(case.capture.json, tR, case.recorded.body) /\ tS \in {"marker", tR}
            /\ Readable(policy.json, tS, S) /\ baseline.body = Cleaned(policy.json, tS, S)
        BY <3>1, <4>1, BaselineBody
      <4>3. IsJSON(S) /\ IsJSON(case.recorded.body)
        BY <3>4, <4>2, CleanedKind
      <4>4. IsTree(baseline.body.doc) /\ p \in DOMAIN baseline.body.doc
        BY <3>1, <3>4, BaselineHeaders, JSONIsTree DEF IsResponse, Under
      <4>5. PICK s \in policy.json : IsPrefix(Position(s), p)
        BY <3>3, <3>4, <4>4
      <4>6. tS # "form"
        BY <3>4, <4>2, <4>3, <4>5 DEF Uninspected
      <4> HIDE DEF S, tS, tR
      <4> QED
        BY <3>2, <4>2, <4>3, <4>4, <4>5, <4>6, CleanedHides
    <3>5. ASSUME IsJSON(observed.body), ~Uninspected(case.answered),
                 NEW path \in BodyDifferences, NEW p \in Under(observed.body.doc, path),
                 NEW rule \in Protected, IsPrefix(Position(rule), p)
          PROVE  observed.body.doc[p] = RedactedValue
      <4> DEFINE A == case.answered.body
                 tA == case.answered.headers[ContentType]
      <4>1. Comparable(observed)
        BY <2>2, BodyDifferencesAre
      <4>2. /\ IsBody(A) /\ Readable(policy.json, tA, A) /\ observed.body = Cleaned(policy.json, tA, A)
        BY <3>1, <4>1, ObservedBody
      <4>3. IsJSON(A)
        BY <3>5, <4>2, CleanedKind
      <4>4. IsTree(observed.body.doc) /\ p \in DOMAIN observed.body.doc
        BY <3>1, <3>5, ObservedHeaders, JSONIsTree DEF IsResponse, Under
      <4>5. PICK s \in policy.json : IsPrefix(Position(s), p)
        BY <3>3, <3>5, <4>4
      <4>6. tA # "form"
        BY <3>5, <4>3, <4>5 DEF Uninspected
      <4> HIDE DEF A, tA
      <4> QED
        BY <3>2, <4>2, <4>3, <4>4, <4>5, <4>6, CleanedHides
    <3>6. StaysHidden(baseline, case.recorded)
      BY <3>1, <3>4, ProtectedHeadersHidden DEF StaysHidden
    <3>7. StaysHidden(observed, case.answered)
      BY <3>1, <3>5, ProtectedHeadersHidden DEF StaysHidden
    <3> QED
      BY <3>6, <3>7 DEF ProtectedStaysHidden
  <2> QED
    BY <2>1, <2>2
<1> QED
  BY <1>1, InductiveInvariant, PTL

\* Every variable keeps its type; redaction in particular leaves documents that are
\* trees: TypeOK.
THEOREM TypeCorrect == Spec => []TypeOK
<1>1. IsResponse(NoResponse)
  BY DEF IsResponse, NoResponse, IsBody, Empty, Syntax
<1>2. ASSUME IInv
      PROVE  IsResponse(baseline) /\ IsResponse(observed) /\ policy.headers \subseteq HeaderNames
  <2>1. case \in Cases
    BY <1>2 DEF IInv
  <2>2. ASSUME NEW failed \in BOOLEAN, observed = Answer(policy, failed)
        PROVE  IsResponse(observed)
    BY <2>1, <2>2, CaptureMeans, SanitizeMeans DEF Answer
  <2>3. CASE main = "record"
    BY <1>1, <1>2, <2>3 DEF IInv, Progress, NoPolicy
  <2>4. CASE main = "replay"
    BY <1>1, <1>2, <2>1, <2>4, StoredMeans DEF IInv, Progress, NoPolicy
  <2>5. CASE main = "compare"
    BY <1>2, <2>1, <2>2, <2>5, StoredMeans, PolicyMeans DEF IInv, Progress
  <2>6. CASE Unanswered
    BY <1>1, <2>1, <2>6, StoredMeans, PolicyMeans DEF Unanswered
  <2>7. CASE Compared
    <3>1. PICK broken \in BOOLEAN, failed \in BOOLEAN : Exchanged(broken, failed)
      BY <2>1, <2>7 DEF Compared, Exchanged
    <3> QED
      BY <3>1, BaselineHeaders, ObservedHeaders, PolicyMeans DEF Exchanged
  <2> QED
    BY <1>2, <2>3, <2>4, <2>5, <2>6, <2>7 DEF IInv, Progress
<1>3. ASSUME IInv
      PROVE  /\ \A d \in differences : d.component \in Component
             /\ outcome \in {"none", "equivalent", "changed", "failed"}
  <2>1. CASE ~Compared
    <3>1. CASE main \in {"report", "done"}
      BY <1>3, <2>1, <3>1 DEF IInv, Progress, Unanswered
    <3>2. CASE main \in {"record", "replay", "compare"}
      BY <1>3, <3>2 DEF IInv, Progress
    <3> QED
      BY <1>3, <3>1, <3>2 DEF IInv
  <2>2. CASE Compared
    <3>1. differences = Compare(baseline, observed)
      BY <2>2 DEF Compared
    <3>2. \A d \in CompareStatus(baseline, observed) : d.component \in Component
      BY DEF CompareStatus, Component
    <3>3. \A d \in CompareHeaders(baseline, observed) : d.component \in Component
      BY HeaderDifferences DEF Component
    <3>4. \A d \in CompareBody(baseline, observed) : d.component \in Component
      BY DEF CompareBody, Component
    <3>5. outcome \in {"equivalent", "changed", "failed"}
      BY <2>2 DEF Compared, Judged
    <3> QED
      BY <3>1, <3>2, <3>3, <3>4, <3>5 DEF Compare
  <2> QED
    BY <2>1, <2>2
<1>4. ASSUME IInv PROVE TypeOK
  BY <1>2, <1>3, <1>4 DEF IInv, TypeOK, IsResponse
<1> QED
  BY <1>4, InductiveInvariant, PTL

-----------------------------------------------------------------------------
(* The redactor as a walk over a text. *)

\* The texts that a walk from left to right makes: at each place it puts down
\* one character and goes on somewhere behind it.
Walks(n, next, out, f) ==
    f = [i \in 1 .. n + 1 |-> IF i > n THEN << >> ELSE << out[i] >> \o f[next[i]]]

Forward(n, next) == \A i \in 1 .. n : next[i] \in Nat /\ i < next[i] /\ next[i] <= n + 1

\* There is such a walk if it always goes forward.
LEMMA WalkExists ==
    ASSUME NEW n \in Nat, NEW next, NEW out, Forward(n, next)
    PROVE  \E f : Walks(n, next, out, f)
<1> DEFINE Body(f, i) == IF i > n THEN << >> ELSE << out[i] >> \o f[next[i]]
           Good(f, m) == \A i \in 1 .. n + 1 : n + 1 - m <= i => f[i] = Body(f, i)
           Solvable(m) == \E f : Good(f, m)
           Bad == {m \in 0 .. n : ~Solvable(m)}
<1>0. \A i \in 1 .. n : next[i] \in Nat /\ i < next[i] /\ next[i] <= n + 1
  BY DEF Forward
<1>1. Bad = {}
  <2> SUFFICES ASSUME Bad # {} PROVE FALSE
    OBVIOUS
  <2>1. PICK m \in Bad : \A k \in Bad : m <= k
    <3>1. Bad \in SUBSET Nat
      OBVIOUS
    <3> QED
      BY <3>1, LeastNatural
  <2>2. m \in 0 .. n /\ ~Solvable(m)
    BY <2>1
  <2>3. m # 0
    <3> SUFFICES ASSUME m = 0 PROVE FALSE
      OBVIOUS
    <3> DEFINE g == [i \in 1 .. n + 1 |-> << >>]
    <3>1. \A i \in 1 .. n + 1 : n + 1 - m <= i => i > n
      OBVIOUS
    <3>2. Good(g, m)
      BY <3>1
    <3> QED
      BY <2>2, <3>2
  <2>4. Solvable(m - 1)
    <3> HIDE DEF Solvable
    <3>1. m - 1 \in 0 .. n /\ ~(m <= m - 1)
      BY <2>2, <2>3
    <3> QED
      BY <2>1, <3>1
  <2>5. PICK f : Good(f, m - 1)
    BY <2>4
  <2> DEFINE j == n + 1 - m
             g == [i \in 1 .. n + 1 |-> IF i = j THEN << out[j] >> \o f[next[j]] ELSE f[i]]
  <2>6. j \in 1 .. n
    BY <2>2, <2>3
  <2>7. \A i \in 1 .. n + 1 : j <= i => i = j \/ n + 1 - (m - 1) <= i
    BY <2>2
  <2> HIDE DEF j, Solvable, Bad
  <2>8. ASSUME NEW i \in 1 .. n + 1, j <= i PROVE g[i] = Body(g, i)
    <3>1. ASSUME i \in 1 .. n PROVE next[i] \in 1 .. n + 1 /\ next[i] # j
      <4>1. next[i] \in Nat /\ i < next[i] /\ next[i] <= n + 1
        BY <1>0, <3>1
      <4> QED
        BY <2>6, <2>8, <3>1, <4>1
    <3>2. i \in 1 .. n => g[next[i]] = f[next[i]]
      BY <3>1
    <3>3. CASE i = j
      <4>1. g[i] = << out[i] >> \o f[next[i]] /\ i \in 1 .. n /\ ~(i > n)
        BY <2>6, <3>3
      <4> HIDE DEF g
      <4> QED
        BY <3>2, <4>1
    <3>4. CASE i # j
      <4>1. f[i] = Body(f, i)
        BY <2>5, <2>7, <2>8, <3>4
      <4>2. i > n \/ i \in 1 .. n
        OBVIOUS
      <4>3. g[i] = f[i]
        BY <3>4
      <4> HIDE DEF g
      <4> QED
        BY <3>2, <4>1, <4>2, <4>3
    <3> QED
      BY <3>3, <3>4
  <2>9. Good(g, m)
    BY <2>8 DEF j
  <2> QED
    BY <2>2, <2>9 DEF Solvable
<1>2. Solvable(n)
  <2>1. n \in 0 .. n
    OBVIOUS
  <2> HIDE DEF Solvable
  <2> QED
    BY <1>1, <2>1
<1>3. PICK f : Good(f, n)
  BY <1>2
<1>4. \A i \in 1 .. n + 1 : f[i] = Body(f, i)
  BY <1>3
<1> DEFINE h == [i \in 1 .. n + 1 |-> f[i]]
<1>5. \A i \in 1 .. n + 1 : Body(f, i) = Body(h, i)
  <2>1. \A i \in 1 .. n + 1 : ~(i > n) => next[i] \in 1 .. n + 1
    BY <1>0
  <2> QED
    BY <2>1
<1>6. h = [i \in 1 .. n + 1 |-> Body(h, i)]
  <2> HIDE DEF Body
  <2>1. h = [i \in 1 .. n + 1 |-> Body(f, i)]
    BY <1>4
  <2> HIDE DEF h
  <2> QED
    BY <1>5, <2>1
<1> QED
  BY <1>6 DEF Walks

\* It puts down nothing but what it may put down at the places it comes to.
LEMMA WalkStays ==
    ASSUME NEW n \in Nat, NEW next, NEW out,
           Forward(n, next), NEW f, Walks(n, next, out, f), NEW C, NEW Visited \in SUBSET (1 .. n + 1),
           \A i \in Visited : i <= n => next[i] \in Visited /\ out[i] \in C
    PROVE  \A i \in Visited : f[i] \in Seq(C)
<1> DEFINE Bad == {m \in 0 .. n : n + 1 - m \in Visited /\ f[n + 1 - m] \notin Seq(C)}
<1>0. \A i \in 1 .. n : next[i] \in Nat /\ i < next[i] /\ next[i] <= n + 1
  BY DEF Forward
<1>1. Bad = {}
  <2> SUFFICES ASSUME Bad # {} PROVE FALSE
    OBVIOUS
  <2>1. Bad \in SUBSET Nat
    OBVIOUS
  <2>2. PICK m \in Bad : \A k \in Bad : m <= k
    BY <2>1, LeastNatural
  <2> DEFINE i == n + 1 - m
  <2>3. m \in 0 .. n /\ i \in Visited /\ f[i] \notin Seq(C) /\ i \in 1 .. n + 1
    BY <2>2
  <2>4. f[i] = IF i > n THEN << >> ELSE << out[i] >> \o f[next[i]]
    BY <2>3 DEF Walks
  <2>5. CASE i > n
    BY <2>3, <2>4, <2>5, EmptySeq
  <2>6. CASE ~(i > n)
    <3> DEFINE k == n + 1 - next[i]
    <3>1. next[i] \in Visited /\ out[i] \in C /\ next[i] \in Nat /\ i < next[i]
          /\ next[i] <= n + 1
      BY <1>0, <2>3, <2>6
    <3>2. k \in 0 .. n /\ k < m /\ n + 1 - k = next[i]
      BY <2>3, <3>1
    <3>3. k \notin Bad
      BY <2>2, <2>3, <3>2
    <3>4. f[next[i]] \in Seq(C)
      BY <3>1, <3>2, <3>3
    <3>5. << out[i] >> \in Seq(C)
      BY <3>1
    <3> DEFINE a == << out[i] >>
               b == f[next[i]]
    <3> HIDE DEF a, b
    <3>6. a \o b \in Seq(C)
      BY <3>4, <3>5, ConcatProperties DEF a, b
    <3> QED
      BY <2>3, <2>4, <2>6, <3>6 DEF a, b
  <2> QED
    BY <2>5, <2>6
<1>2. ASSUME NEW i \in Visited PROVE f[i] \in Seq(C)
  <2> DEFINE m == n + 1 - i
  <2>1. m \in 0 .. n /\ n + 1 - m = i
    OBVIOUS
  <2> QED
    BY <1>1, <2>1
<1> QED
  BY <1>2

\* A spelling stands in a text at a place.
StandsAt(s, t, k) ==
    k \in DOMAIN t /\ k + Len(s) - 1 <= Len(t) /\ \A j \in 1 .. Len(s) : t[k + j - 1] = s[j]
Span(s, k) == k .. k + Len(s) - 1

\* That is where Scrub finds it.
LEMMA FoundMeans ==
    ASSUME NEW Y, NEW t \in Seq(Y), NEW D, NEW H \in SUBSET Seq(D), NEW k \in DOMAIN t, NEW s \in H
    PROVE  IsPrefix(s, SubSeq(t, k, Len(t))) <=> StandsAt(s, t, k)
<1> DEFINE u == SubSeq(t, k, Len(t))
<1>1. /\ Len(t) \in Nat /\ Len(s) \in Nat /\ k \in 1 .. Len(t) /\ k \in Int /\ Len(t) \in Int
      /\ DOMAIN t = 1 .. Len(t)
  BY LenProperties
<1>2. \A i \in k .. Len(t) : t[i] \in Y
  BY <1>1, ElementOfSeq
<1>3. /\ u \in Seq(Y) /\ Len(u) = Len(t) - k + 1
      /\ \A i \in 1 .. Len(t) - k + 1 : u[i] = t[k + i - 1]
  BY <1>1, <1>2, SubSeqProperties
<1> HIDE DEF u
<1>4. IsPrefix(s, u) <=> Len(s) <= Len(u) /\ \A i \in 1 .. Len(s) : s[i] = u[i]
  BY <1>3, PrefixMeans
<1>5. Len(s) <= Len(u) <=> k + Len(s) - 1 <= Len(t)
  BY <1>1, <1>3
<1>6. ASSUME Len(s) <= Len(u), NEW i \in 1 .. Len(s) PROVE u[i] = t[k + i - 1]
  <2>1. i \in 1 .. Len(t) - k + 1
    BY <1>1, <1>3, <1>6
  <2> QED
    BY <1>3, <2>1
<1>7. IsPrefix(s, u) <=> StandsAt(s, t, k)
  BY <1>1, <1>4, <1>5, <1>6 DEF StandsAt
<1> QED
  BY <1>7 DEF u

\* The occurrences are the spans of the spellings, where they stand.
LEMMA OccurrenceMeans ==
    ASSUME NEW Y, NEW t \in Seq(Y), NEW D, NEW H \in SUBSET (Seq(D) \ {<< >>}), NEW a
    PROVE  a \in Occurrences(t, H) <=> \E s \in H : \E k \in DOMAIN t : StandsAt(s, t, k) /\ a = Span(s, k)
<1>1. \A s \in H : \A k \in DOMAIN t : IsPrefix(s, SubSeq(t, k, Len(t))) <=> StandsAt(s, t, k)
  BY FoundMeans
<1>2. Len(t) \in Nat /\ DOMAIN t = 1 .. Len(t)
  BY LenProperties
<1>3. ASSUME NEW s \in H, NEW k \in DOMAIN t, StandsAt(s, t, k)
      PROVE  Span(s, k) \in {i .. j : i, j \in DOMAIN t}
  <2>1. Len(s) \in Nat /\ Len(s) # 0
    <3>1. s \in Seq(D) /\ s # << >>
      OBVIOUS
    <3> QED
      BY <3>1, EmptySeq
  <2>2. k + Len(s) - 1 \in DOMAIN t
    BY <1>2, <1>3, <2>1 DEF StandsAt
  <2> QED
    BY <2>2 DEF Span
<1> DEFINE at(s) == {k \in DOMAIN t : IsPrefix(s, SubSeq(t, k, Len(t)))}
           spans(s) == {i .. i + Len(s) - 1 : i \in at(s)}
           all == UNION {spans(s) : s \in H}
<1>4. a \in all <=> \E s \in H : \E k \in DOMAIN t : StandsAt(s, t, k) /\ a = Span(s, k)
  BY <1>1 DEF Span
<1>5. Occurrences(t, H) = {i .. j : i, j \in DOMAIN t} \cap all
  BY DEF Occurrences
<1> HIDE DEF all
<1> QED
  BY <1>3, <1>4, <1>5

\* Each place of a text, as the replacer treats it.
Replaces(t, H, next, out) ==
    \A i \in 1 .. Len(t) :
        \/ /\ \A s \in H : ~StandsAt(s, t, i)
           /\ next[i] = i + 1 /\ out[i] = t[i]
        \/ /\ \E s \in H : StandsAt(s, t, i) /\ next[i] = i + Len(s)
           /\ \A s \in H : StandsAt(s, t, i) => i + Len(s) <= next[i]
           /\ out[i] = Mark

\* The replacer as a walk: where a spelling stands it puts down the marker and goes on
\* behind the longest one, elsewhere it copies.
LEMMA ScrubWalks ==
    ASSUME NEW Y, NEW t \in Seq(Y), NEW D, NEW H \in SUBSET (Seq(D) \ {<< >>})
    PROVE  \E next, out, f :
              /\ Forward(Len(t), next) /\ Replaces(t, H, next, out)
              /\ Walks(Len(t), next, out, f) /\ Scrub(t, H) = f[1]
<1> DEFINE n == Len(t)
           found(i) == {s \in H : IsPrefix(s, SubSeq(t, i, Len(t)))}
           lengths(i) == {Len(s) : s \in found(i)}
           next == [i \in 1 .. n |-> IF found(i) = {} THEN i + 1 ELSE i + Max(lengths(i))]
           out == [i \in 1 .. n |-> IF found(i) = {} THEN t[i] ELSE Mark]
<1>1. n \in Nat /\ DOMAIN t = 1 .. n
  BY LenProperties
<1>2. \A i \in 1 .. n : \A s \in H : s \in found(i) <=> StandsAt(s, t, i)
  BY <1>1, FoundMeans
<1>3. \A s \in H : Len(s) \in Nat \ {0}
  <2>1. \A s \in H : s \in Seq(D) /\ s # << >>
    OBVIOUS
  <2> QED
    BY <2>1, EmptySeq
<1>4. ASSUME NEW i \in 1 .. n, found(i) # {}
      PROVE  /\ Max(lengths(i)) \in lengths(i) /\ Max(lengths(i)) \in Nat \ {0}
             /\ \A s \in found(i) : Len(s) <= Max(lengths(i))
             /\ i + Max(lengths(i)) <= n + 1
  <2>1. \A s \in found(i) : Len(s) \in Nat \ {0} /\ Len(s) <= n - i + 1
    <3> SUFFICES ASSUME NEW s \in found(i) PROVE Len(s) \in Nat \ {0} /\ Len(s) <= n - i + 1
      OBVIOUS
    <3>1. s \in H /\ StandsAt(s, t, i)
      BY <1>2
    <3>2. i + Len(s) - 1 <= n
      BY <3>1 DEF StandsAt
    <3> HIDE DEF n
    <3> QED
      BY <1>1, <1>3, <3>1, <3>2
  <2> DEFINE L == lengths(i)
  <2>2. L # {}
    BY <1>4
  <2>3. \A x \in L : x \in Nat \ {0} /\ x <= n - i + 1
    BY <2>1
  <2>4. \A s \in found(i) : Len(s) \in L
    OBVIOUS
  <2> HIDE DEF L
  <2>5. L \in SUBSET Nat /\ n - i + 1 \in Nat
    BY <1>1, <2>3
  <2>6. Max(L) \in L /\ \A x \in L : x <= Max(L)
    BY <2>2, <2>3, <2>5, MaxOfBounded
  <2>7. Max(L) \in Nat \ {0} /\ i + Max(L) <= n + 1
    BY <1>1, <2>3, <2>6
  <2>8. \A s \in found(i) : Len(s) <= Max(L)
    BY <2>4, <2>6
  <2> QED
    BY <2>6, <2>7, <2>8 DEF L
<1>5. \A i \in 1 .. n : next[i] \in Nat /\ i < next[i] /\ next[i] <= n + 1
  <2> SUFFICES ASSUME NEW i \in 1 .. n
               PROVE  next[i] \in Nat /\ i < next[i] /\ next[i] <= n + 1
    OBVIOUS
  <2>1. CASE found(i) = {}
    BY <1>1, <2>1
  <2>2. CASE found(i) # {}
    <3>1. next[i] = i + Max(lengths(i))
      BY <2>2
    <3> DEFINE m == Max(lengths(i))
    <3>2. m \in Nat \ {0} /\ i + m <= n + 1
      BY <1>4, <2>2
    <3> HIDE DEF m, next, n
    <3> QED
      BY <1>1, <3>1, <3>2 DEF m
  <2> QED
    BY <2>1, <2>2
<1>6. \A i \in 1 .. n :
         \/ /\ \A s \in H : ~StandsAt(s, t, i)
            /\ next[i] = i + 1 /\ out[i] = t[i]
         \/ /\ \E s \in H : StandsAt(s, t, i) /\ next[i] = i + Len(s)
            /\ \A s \in H : StandsAt(s, t, i) => i + Len(s) <= next[i]
            /\ out[i] = Mark
  <2> SUFFICES ASSUME NEW i \in 1 .. n
               PROVE  \/ /\ \A s \in H : ~StandsAt(s, t, i)
                         /\ next[i] = i + 1 /\ out[i] = t[i]
                      \/ /\ \E s \in H : StandsAt(s, t, i) /\ next[i] = i + Len(s)
                         /\ \A s \in H : StandsAt(s, t, i) => i + Len(s) <= next[i]
                         /\ out[i] = Mark
    OBVIOUS
  <2>1. CASE found(i) = {}
    BY <1>2, <2>1
  <2>2. CASE found(i) # {}
    <3> DEFINE m == Max(lengths(i))
    <3>1. next[i] = i + m /\ out[i] = Mark
      BY <2>2
    <3>2. /\ m \in lengths(i) /\ m \in Nat \ {0}
          /\ \A s \in found(i) : Len(s) <= m
      BY <1>4, <2>2
    <3>3. PICK s \in found(i) : Len(s) = m
      BY <3>2
    <3> HIDE DEF m, next, out
    <3>4. s \in H /\ StandsAt(s, t, i) /\ next[i] = i + Len(s)
      BY <1>2, <3>1, <3>3
    <3>5. ASSUME NEW u \in H, StandsAt(u, t, i) PROVE i + Len(u) <= next[i]
      <4>1. Len(u) <= m /\ Len(u) \in Nat
        BY <1>2, <1>3, <3>2, <3>5
      <4> HIDE DEF n
      <4> QED
        BY <1>1, <3>1, <3>2, <4>1
    <3> QED
      BY <3>1, <3>4, <3>5
  <2> QED
    BY <2>1, <2>2
<1>7. PICK f : Walks(n, next, out, f)
  <2> HIDE DEF n, next, out
  <2> QED
    BY <1>1, <1>5, WalkExists DEF Forward, n
<1> DEFINE Body(g) == [i \in 1 .. n + 1 |->
               IF i > n THEN << >>
               ELSE IF found(i) = {} THEN << t[i] >> \o g[i + 1]
               ELSE << Mark >> \o g[i + Max({Len(s) : s \in found(i)})]]
           Step(g) == [i \in 1 .. n + 1 |-> IF i > n THEN << >> ELSE << out[i] >> \o g[next[i]]]
           w == CHOOSE g : g = Body(g)
<1>8. \A g : Body(g) = Step(g)
  <2> SUFFICES ASSUME NEW g, NEW i \in 1 .. n + 1, ~(i > n)
               PROVE  (IF found(i) = {} THEN << t[i] >> \o g[i + 1]
                       ELSE << Mark >> \o g[i + Max({Len(s) : s \in found(i)})])
                      = << out[i] >> \o g[next[i]]
    OBVIOUS
  <2>1. i \in 1 .. n
    BY <1>1
  <2>2. CASE found(i) = {}
    <3>1. out[i] = t[i] /\ next[i] = i + 1
      BY <2>1, <2>2
    <3> QED
      BY <2>2, <3>1
  <2>3. CASE found(i) # {}
    <3>1. out[i] = Mark /\ next[i] = i + Max({Len(s) : s \in found(i)})
      BY <2>1, <2>3
    <3> QED
      BY <2>3, <3>1
  <2> QED
    BY <2>2, <2>3
<1>9. f = Step(f)
  BY <1>7 DEF Walks
<1>10. w = Body(w)
  <2> HIDE DEF Body, Step
  <2>1. f = Body(f)
    BY <1>8, <1>9
  <2> QED
    BY <2>1
<1>11. Scrub(t, H) = w[1]
  BY DEF Scrub
<1>12. w = Step(w)
  <2> HIDE DEF Body, Step, w
  <2> QED
    BY <1>8, <1>10
<1>13. Walks(n, next, out, w)
  <2> HIDE DEF w
  <2> QED
    BY <1>12 DEF Walks
<1> HIDE DEF w, next, out
<1>14. Forward(n, next) /\ Replaces(t, H, next, out)
  BY <1>5, <1>6 DEF Forward, Replaces
<1> QED
  BY <1>11, <1>13, <1>14

\* The characters of a text that are outside of all spellings.
Bare(t, H) == {t[i] : i \in DOMAIN t \ UNION Occurrences(t, H)}

\* In any text the replacer puts nothing new but the marker.
LEMMA ScrubKeeps ==
    ASSUME NEW Y, NEW t \in Seq(Y), NEW D, NEW H \in SUBSET (Seq(D) \ {<< >>})
    PROVE  Scrub(t, H) \in Seq(Y \cup {Mark})
<1> DEFINE n == Len(t)
<1>1. n \in Nat /\ \A i \in 1 .. n : t[i] \in Y
  BY LenProperties, ElementOfSeq
<1>2. PICK next, out, f :
              /\ Forward(Len(t), next) /\ Replaces(t, H, next, out)
              /\ Walks(Len(t), next, out, f) /\ Scrub(t, H) = f[1]
  BY ScrubWalks
<1> HIDE DEF n
<1>3. /\ Forward(n, next) /\ Walks(n, next, out, f) /\ Scrub(t, H) = f[1]
      /\ \A i \in 1 .. n : next[i] \in Nat /\ i < next[i] /\ next[i] <= n + 1
  BY <1>2 DEF n, Forward
<1> DEFINE Visited == 1 .. n + 1
           C == Y \cup {Mark}
<1>4. \A i \in 1 .. n : out[i] \in C
  BY <1>1, <1>2 DEF n, Replaces
<1>5. \A i \in Visited : i <= n => next[i] \in Visited /\ out[i] \in C
  <2> SUFFICES ASSUME NEW i \in Visited, i <= n PROVE next[i] \in Visited /\ out[i] \in C
    OBVIOUS
  <2>1. i \in 1 .. n
    BY <1>1
  <2>2. next[i] \in Nat /\ i < next[i] /\ next[i] <= n + 1
    BY <1>3, <2>1
  <2> QED
    BY <1>1, <1>4, <2>1, <2>2
<1>6. Visited \in SUBSET (1 .. n + 1) /\ 1 \in Visited
  BY <1>1
<1> HIDE DEF Visited, C
<1>7. \A i \in Visited : f[i] \in Seq(C)
  BY <1>1, <1>3, <1>5, <1>6, WalkStays
<1> QED
  BY <1>3, <1>6, <1>7 DEF C

\* Where spellings lie apart or one within the other, the replacer leaves nothing of them:
\* wherever the walk comes to, every spelling that began before has ended.
LEMMA ScrubHides ==
    ASSUME NEW Y, NEW t \in Seq(Y), NEW D, NEW H \in SUBSET (Seq(D) \ {<< >>}),
           Nested(Occurrences(t, H))
    PROVE  Scrub(t, H) \in Seq(Bare(t, H) \cup {Mark})
<1> DEFINE n == Len(t)
<1>1. n \in Nat /\ DOMAIN t = 1 .. n
  BY LenProperties
<1>2. PICK next, out, f :
              /\ Forward(Len(t), next) /\ Replaces(t, H, next, out)
              /\ Walks(Len(t), next, out, f) /\ Scrub(t, H) = f[1]
  BY ScrubWalks
<1> HIDE DEF n
<1>3. /\ Forward(n, next) /\ Walks(n, next, out, f) /\ Scrub(t, H) = f[1]
      /\ \A i \in 1 .. n : next[i] \in Nat /\ i < next[i] /\ next[i] <= n + 1
  BY <1>2 DEF n, Forward
<1>4. \A a : a \in Occurrences(t, H) <=> \E s \in H : \E k \in DOMAIN t : StandsAt(s, t, k) /\ a = Span(s, k)
  BY OccurrenceMeans
<1>5. \A s \in H : Len(s) \in Nat \ {0}
  <2>1. \A s \in H : s \in Seq(D) /\ s # << >>
    OBVIOUS
  <2> QED
    BY <2>1, EmptySeq
<1> DEFINE Ended(i) == \A s \in H : \A k \in DOMAIN t : StandsAt(s, t, k) /\ k < i => k + Len(s) <= i
           Visited == {i \in 1 .. n + 1 : Ended(i)}
           C == Bare(t, H) \cup {Mark}
<1>6. ASSUME NEW i \in Visited, i <= n PROVE next[i] \in Visited /\ out[i] \in C
  <2>1. i \in 1 .. n /\ Ended(i) /\ next[i] \in 1 .. n + 1
    BY <1>1, <1>3, <1>6
  <2>2. CASE (\A s \in H : ~StandsAt(s, t, i)) /\ next[i] = i + 1 /\ out[i] = t[i]
    <3>1. ASSUME NEW s \in H, NEW k \in DOMAIN t, StandsAt(s, t, k), k < i + 1
          PROVE  k + Len(s) <= i
      <4>1. k # i /\ k < i
        BY <1>1, <2>1, <2>2, <3>1
      <4> QED
        BY <2>1, <3>1, <4>1
    <3>2. Ended(next[i])
      <4> SUFFICES ASSUME NEW s \in H, NEW k \in DOMAIN t, StandsAt(s, t, k), k < next[i]
                   PROVE  k + Len(s) <= next[i]
        OBVIOUS
      <4>1. k + Len(s) <= i
        BY <2>2, <3>1
      <4> QED
        BY <1>1, <1>5, <2>1, <2>2, <4>1
    <3>3. i \notin UNION Occurrences(t, H)
      <4> SUFFICES ASSUME NEW a \in Occurrences(t, H), i \in a PROVE FALSE
        OBVIOUS
      <4>1. PICK s \in H, k \in DOMAIN t : StandsAt(s, t, k) /\ a = Span(s, k)
        BY <1>4
      <4>2. k <= i /\ i <= k + Len(s) - 1
        BY <1>1, <1>5, <2>1, <4>1 DEF Span
      <4>3. k + Len(s) <= i
        BY <1>1, <2>1, <3>1, <4>1, <4>2
      <4> QED
        BY <1>1, <1>5, <2>1, <4>2, <4>3
    <3>4. out[i] \in Bare(t, H)
      BY <1>1, <2>1, <2>2, <3>3 DEF Bare
    <3> QED
      BY <2>1, <3>2, <3>4
  <2>3. CASE /\ \E s \in H : StandsAt(s, t, i) /\ next[i] = i + Len(s)
             /\ \A s \in H : StandsAt(s, t, i) => i + Len(s) <= next[i]
             /\ out[i] = Mark
    <3>1. PICK u \in H : StandsAt(u, t, i) /\ next[i] = i + Len(u)
      BY <2>3
    <3>2. ASSUME NEW s \in H, NEW k \in DOMAIN t, StandsAt(s, t, k), k < next[i]
          PROVE  k + Len(s) <= next[i]
      <4>0. /\ Len(s) \in Nat /\ Len(s) > 0 /\ Len(u) \in Nat /\ Len(u) > 0
            /\ k \in Nat /\ i \in Nat /\ next[i] \in Nat
        BY <1>1, <1>5, <2>1
      <4>1. CASE k < i
        <5>1. k + Len(s) <= i
          BY <2>1, <3>2, <4>1
        <5> QED
          BY <3>1, <4>0, <5>1
      <4>2. CASE k = i
        BY <2>3, <3>2, <4>2
      <4>3. CASE k > i
        <5>1. Span(s, k) \in Occurrences(t, H) /\ Span(u, i) \in Occurrences(t, H)
          BY <1>1, <1>4, <2>1, <3>1, <3>2
        <5>2. \/ Span(s, k) \subseteq Span(u, i) \/ Span(u, i) \subseteq Span(s, k)
              \/ Span(s, k) \cap Span(u, i) = {}
          BY <5>1 DEF Nested
        <5>3. k \in Span(s, k) /\ k \in Span(u, i)
          BY <3>1, <3>2, <4>0, <4>3 DEF Span
        <5>4. i \in Span(u, i) /\ i \notin Span(s, k)
          BY <4>0, <4>3 DEF Span
        <5>5. k + Len(s) - 1 \in Span(s, k)
          BY <4>0 DEF Span
        <5>6. k + Len(s) - 1 \in Span(u, i)
          BY <5>2, <5>3, <5>4, <5>5
        <5>7. k + Len(s) - 1 <= i + Len(u) - 1
          BY <5>6 DEF Span
        <5> QED
          BY <3>1, <4>0, <5>7
      <4> QED
        BY <4>0, <4>1, <4>2, <4>3
    <3> QED
      BY <2>1, <2>3, <3>2
  <2> QED
    BY <1>2, <2>1, <2>2, <2>3 DEF n, Replaces
<1>7. Visited \in SUBSET (1 .. n + 1) /\ 1 \in Visited
  <2>1. 1 \in 1 .. n + 1
    BY <1>1
  <2>2. Ended(1)
    BY <1>1
  <2> QED
    BY <2>1, <2>2
<1> HIDE DEF Visited, C
<1>8. \A i \in Visited : f[i] \in Seq(C)
  BY <1>1, <1>3, <1>6, <1>7, WalkStays
<1> QED
  BY <1>3, <1>7, <1>8 DEF C

-----------------------------------------------------------------------------
(* Texts that are put together from pieces. *)

\* What is made of each character is a sequence again.
LEMMA MapType ==
    ASSUME NEW Y, NEW t \in Seq(Y), NEW Z, NEW f, f = [i \in DOMAIN t |-> f[i]],
           \A i \in DOMAIN t : f[i] \in Z
    PROVE  f \in Seq(Z) /\ Len(f) = Len(t) /\ DOMAIN f = DOMAIN t
<1>1. Len(t) \in Nat /\ DOMAIN t = 1 .. Len(t)
  BY LenProperties
<1> DEFINE n == Len(t)
<1> HIDE DEF n
<1>2. f \in [1 .. n -> Z] /\ n \in Nat
  BY <1>1 DEF n
<1>3. f \in Seq(Z)
  BY <1>2, SeqDef
<1>4. Len(f) = n
  BY <1>2, <1>3, LenProperties
<1> QED
  BY <1>1, <1>2, <1>3, <1>4 DEF n

\* A text spelled with escapes consists of its characters and theirs.
LEMMA SpellType ==
    ASSUME NEW Y, NEW t \in Seq(Y), NEW by, NEW Z, Y \subseteq Z,
           \A c \in Y \cap DOMAIN by : by[c] \in Seq(Z)
    PROVE  Spell(t, by) \in Seq(Z)
<1> DEFINE f == [i \in DOMAIN t |-> IF t[i] \in DOMAIN by THEN by[t[i]] ELSE << t[i] >>]
<1>1. \A i \in DOMAIN t : t[i] \in Y
  BY LenProperties, ElementOfSeq
<1>2. \A i \in DOMAIN t : f[i] \in Seq(Z)
  <2> SUFFICES ASSUME NEW i \in DOMAIN t PROVE f[i] \in Seq(Z)
    OBVIOUS
  <2>1. t[i] \in Y /\ t[i] \in Z
    BY <1>1
  <2>2. << t[i] >> \in Seq(Z)
    BY <2>1
  <2> QED
    BY <2>1, <2>2
<1>3. f = [i \in DOMAIN t |-> f[i]]
  OBVIOUS
<1> HIDE DEF f
<1>4. f \in Seq(Seq(Z))
  BY <1>2, <1>3, MapType
<1>5. FlattenSeq(f) \in Seq(Z)
  BY <1>4, FlattenType
<1> QED
  BY <1>5 DEF Spell, f

\* So does one in which a character was substituted.
LEMMA SubstituteOver ==
    ASSUME NEW Y, NEW t \in Seq(Y), NEW char, NEW by \in Seq(Y)
    PROVE  Substitute(t, char, by) \in Seq(Y)
<1> DEFINE f == [i \in DOMAIN t |-> IF t[i] = char THEN by ELSE << t[i] >>]
<1>1. \A i \in DOMAIN t : t[i] \in Y
  BY LenProperties, ElementOfSeq
<1>2. \A i \in DOMAIN t : f[i] \in Seq(Y)
  <2> SUFFICES ASSUME NEW i \in DOMAIN t PROVE f[i] \in Seq(Y)
    OBVIOUS
  <2>1. t[i] \in Y
    BY <1>1
  <2>2. << t[i] >> \in Seq(Y)
    BY <2>1
  <2> QED
    BY <2>2
<1>3. f = [i \in DOMAIN t |-> f[i]]
  OBVIOUS
<1> HIDE DEF f
<1>4. f \in Seq(Seq(Y))
  BY <1>2, <1>3, MapType
<1>5. FlattenSeq(f) \in Seq(Y)
  BY <1>4, FlattenType
<1> QED
  BY <1>5 DEF Substitute, f

\* A text of which no character is escaped stays.
LEMMA SpellNothing ==
    ASSUME NEW Y
    PROVE  \A t \in Seq(Y) : Spell(t, << >>) = t
<1> DEFINE parts(t) == [i \in DOMAIN t |-> IF t[i] \in DOMAIN << >> THEN << >>[t[i]] ELSE << t[i] >>]
           T == {t \in Seq(Y) : Spell(t, << >>) = t}
<1>1. << >> \in T
  <2>1. parts(<< >>) = << >>
    OBVIOUS
  <2> QED
    BY <2>1, FlattenEmpty, EmptySeq DEF Spell
<1>2. ASSUME NEW t \in Seq(Y), NEW c \in Y, t \in T PROVE Append(t, c) \in T
  <2> DEFINE a == Append(t, c)
             f == [i \in DOMAIN t |-> << t[i] >>]
             g == [i \in DOMAIN a |-> << a[i] >>]
             z == << c >>
  <2>1. /\ Len(t) \in Nat /\ DOMAIN t = 1 .. Len(t) /\ DOMAIN a = 1 .. Len(t) + 1
        /\ (\A i \in DOMAIN t : a[i] = t[i] /\ i \in DOMAIN a /\ t[i] \in Y)
        /\ a[Len(t) + 1] = c /\ Len(t) + 1 \in DOMAIN a /\ a \in Seq(Y)
    BY AppendProperties, LenProperties, ElementOfSeq
  <2>2. parts(t) = f /\ parts(a) = g
    OBVIOUS
  <2>3. Spell(t, << >>) = FlattenSeq(f) /\ Spell(a, << >>) = FlattenSeq(g)
    BY <2>2 DEF Spell
  <2>4. z \in Seq(Y)
    OBVIOUS
  <2> HIDE DEF a
  <2>5. (\A i \in DOMAIN t : f[i] \in Seq(Y) /\ g[i] = f[i]) /\ g[Len(t) + 1] = z
    BY <2>1
  <2>6. DOMAIN f = DOMAIN t /\ DOMAIN g = DOMAIN a /\ f = [i \in DOMAIN f |-> f[i]]
        /\ g = [i \in DOMAIN g |-> g[i]]
    OBVIOUS
  <2> HIDE DEF f, g, z
  <2>7. f \in Seq(Seq(Y)) /\ g = Append(f, z)
    BY <2>4, <2>5, <2>6, MapAppend DEF a
  <2>8. FlattenSeq(g) = FlattenSeq(f) \o z
    BY <2>4, <2>7, FlattenAppend
  <2>9. FlattenSeq(f) = t
    BY <1>2, <2>3
  <2>10. t \o << c >> = Append(t, c)
    OBVIOUS
  <2> QED
    BY <2>1, <2>3, <2>8, <2>9, <2>10 DEF a, z
<1> HIDE DEF T
<1>3. \A t \in Seq(Y) : t \in T
  BY <1>1, <1>2, SequenceInduction
<1> QED
  BY <1>3 DEF T

\* What stands where in two sequences, one behind the other.
LEMMA ConcatMeans ==
    ASSUME NEW Y, NEW s \in Seq(Y), NEW t \in Seq(Y)
    PROVE  /\ s \o t \in Seq(Y) /\ Len(s \o t) = Len(s) + Len(t)
           /\ Len(s) \in Nat /\ Len(t) \in Nat
           /\ \A k \in 1 .. Len(s) : (s \o t)[k] = s[k]
           /\ \A k \in 1 .. Len(t) : (s \o t)[Len(s) + k] = t[k]
<1> DEFINE u == s \o t
           m == Len(s)
           n == Len(t)
<1>1. m \in Nat /\ n \in Nat
  BY LenProperties
<1>2. /\ u \in Seq(Y) /\ Len(u) = m + n
      /\ \A k \in 1 .. m + n : u[k] = IF k <= m THEN s[k] ELSE t[k - m]
  BY ConcatProperties
<1> HIDE DEF u, m, n
<1>3. ASSUME NEW k \in 1 .. m PROVE u[k] = s[k]
  BY <1>1, <1>2
<1>4. ASSUME NEW k \in 1 .. n PROVE u[m + k] = t[k]
  <2>1. m + k \in 1 .. m + n /\ ~(m + k <= m) /\ (m + k) - m = k
    BY <1>1
  <2> QED
    BY <1>2, <2>1
<1> QED
  BY <1>1, <1>2, <1>3, <1>4 DEF u, m, n

\* Texts with the layout behind each.
Joined(ts) == FlattenSeq([i \in DOMAIN ts |-> ts[i] \o << Layout >>])

\* One more text is one more at the end.
LEMMA JoinedAppend ==
    ASSUME NEW Y, Layout \in Y, NEW ts \in Seq(Seq(Y)), NEW t \in Seq(Y)
    PROVE  Joined(Append(ts, t)) = Joined(ts) \o (t \o << Layout >>) /\ Joined(ts) \in Seq(Y)
<1> DEFINE a == Append(ts, t)
           f == [i \in DOMAIN ts |-> ts[i] \o << Layout >>]
           g == [i \in DOMAIN a |-> a[i] \o << Layout >>]
           z == t \o << Layout >>
<1>1. /\ Len(ts) \in Nat /\ DOMAIN ts = 1 .. Len(ts) /\ DOMAIN a = 1 .. Len(ts) + 1
      /\ (\A i \in DOMAIN ts : a[i] = ts[i] /\ i \in DOMAIN a /\ ts[i] \in Seq(Y))
      /\ a[Len(ts) + 1] = t /\ Len(ts) + 1 \in DOMAIN a
  BY AppendProperties, LenProperties, ElementOfSeq
<1>2. Joined(ts) = FlattenSeq(f) /\ Joined(a) = FlattenSeq(g)
  BY DEF Joined
<1>3. \A s \in Seq(Y) : s \o << Layout >> \in Seq(Y)
  <2> DEFINE e == << Layout >>
  <2>1. e \in Seq(Y)
    OBVIOUS
  <2> HIDE DEF e
  <2>2. \A s \in Seq(Y) : s \o e \in Seq(Y)
    BY <2>1, ConcatProperties
  <2> QED
    BY <2>2 DEF e
<1>4. z \in Seq(Y)
  BY <1>3
<1> HIDE DEF a
<1>5. (\A i \in DOMAIN ts : f[i] \in Seq(Y) /\ g[i] = f[i]) /\ g[Len(ts) + 1] = z
  BY <1>1, <1>3
<1>6. DOMAIN f = DOMAIN ts /\ DOMAIN g = DOMAIN a /\ f = [i \in DOMAIN f |-> f[i]]
      /\ g = [i \in DOMAIN g |-> g[i]]
  OBVIOUS
<1> HIDE DEF f, g, z
<1>7. f \in Seq(Seq(Y)) /\ g = Append(f, z)
  BY <1>4, <1>5, <1>6, MapAppend DEF a
<1>8. FlattenSeq(g) = FlattenSeq(f) \o z
  BY <1>4, <1>7, FlattenAppend
<1>9. FlattenSeq(f) \in Seq(Y)
  BY <1>7, FlattenType
<1> QED
  BY <1>2, <1>8, <1>9 DEF a, z

\* The text t stands in r behind the first o characters, between layout.
Within(r, o, t) ==
    /\ o + Len(t) + 1 <= Len(r)
    /\ \A k \in 1 .. Len(t) : r[o + k] = t[k]
    /\ r[o + Len(t) + 1] = Layout
    /\ o = 0 \/ r[o] = Layout

\* Each of the texts stands within.
LEMMA JoinedHasAll ==
    ASSUME NEW Y, Layout \in Y
    PROVE  \A ts \in Seq(Seq(Y)) :
              /\ Joined(ts) \in Seq(Y)
              /\ \A i \in DOMAIN ts : \E o \in Nat : Within(Joined(ts), o, ts[i])
<1> DEFINE T == {ts \in Seq(Seq(Y)) :
                   /\ Joined(ts) \in Seq(Y)
                   /\ Len(Joined(ts)) = 0 \/ Joined(ts)[Len(Joined(ts))] = Layout
                   /\ \A i \in DOMAIN ts : \E o \in Nat : Within(Joined(ts), o, ts[i])}
<1>1. << >> \in T
  <2> DEFINE f == [i \in DOMAIN << >> |-> << >>[i] \o << Layout >>]
  <2>1. f = << >>
    OBVIOUS
  <2>2. FlattenSeq(f) = << >>
    BY <2>1, FlattenEmpty
  <2>3. Joined(<< >>) = << >>
    BY <2>2 DEF Joined
  <2>4. DOMAIN << >> = {}
    OBVIOUS
  <2> QED
    BY <2>3, <2>4, EmptySeq
<1>2. ASSUME NEW ts \in Seq(Seq(Y)), NEW t \in Seq(Y), ts \in T PROVE Append(ts, t) \in T
  <2> DEFINE r == Joined(ts)
             e == << Layout >>
             z == t \o e
             u == r \o z
             m == Len(r)
             l == Len(t)
  <2>1. /\ r \in Seq(Y) /\ (m = 0 \/ r[m] = Layout)
        /\ \A i \in DOMAIN ts : \E o \in Nat : Within(r, o, ts[i])
    BY <1>2
  <2>2. Joined(Append(ts, t)) = u
    BY JoinedAppend
  <2> HIDE DEF r
  <2>3. e \in Seq(Y) /\ Len(e) = 1 /\ e[1] = Layout
    OBVIOUS
  <2> HIDE DEF e
  <2>4. /\ z \in Seq(Y) /\ Len(z) = l + Len(e) /\ l \in Nat
        /\ \A k \in 1 .. l : z[k] = t[k]
        /\ \A k \in 1 .. Len(e) : z[l + k] = e[k]
    <3>0. e \in Seq(Y)
      BY <2>3
    <3>1. t \o e \in Seq(Y) /\ Len(t \o e) = Len(t) + Len(e) /\ Len(t) \in Nat
      BY <3>0, ConcatMeans
    <3>2. \A k \in 1 .. Len(t) : (t \o e)[k] = t[k]
      BY <3>0, ConcatMeans
    <3>3. \A k \in 1 .. Len(e) : (t \o e)[Len(t) + k] = e[k]
      BY <3>0, ConcatMeans
    <3> QED
      BY <3>1, <3>2, <3>3
  <2> HIDE DEF z
  <2>5. /\ u \in Seq(Y) /\ Len(u) = m + Len(z) /\ m \in Nat
        /\ \A k \in 1 .. m : u[k] = r[k]
        /\ \A k \in 1 .. Len(z) : u[m + k] = z[k]
    <3>1. r \o z \in Seq(Y) /\ Len(r \o z) = Len(r) + Len(z) /\ Len(r) \in Nat
      BY <2>1, <2>4, ConcatMeans
    <3>2. \A k \in 1 .. Len(r) : (r \o z)[k] = r[k]
      BY <2>1, <2>4, ConcatMeans
    <3>3. \A k \in 1 .. Len(z) : (r \o z)[Len(r) + k] = z[k]
      BY <2>1, <2>4, ConcatMeans
    <3> QED
      BY <3>1, <3>2, <3>3
  <2> HIDE DEF u
  <2>6. Len(z) = l + 1 /\ z[l + 1] = Layout /\ \A k \in 1 .. l : z[k] = t[k]
    <3>1. 1 \in 1 .. Len(e)
      BY <2>3
    <3> QED
      BY <2>3, <2>4, <3>1
  <2>7. /\ Len(u) = m + (l + 1)
        /\ \A k \in 1 .. m : u[k] = r[k]
        /\ \A k \in 1 .. l + 1 : u[m + k] = z[k]
    BY <2>5, <2>6
  <2>8. u[Len(u)] = Layout
    <3>1. l + 1 \in 1 .. l + 1 /\ Len(u) = m + (l + 1)
      BY <2>4, <2>7
    <3> QED
      BY <2>6, <2>7, <3>1
  <2>9. Within(u, m, t)
    <3>1. m + Len(t) + 1 <= Len(u)
      BY <2>4, <2>5, <2>7
    <3>2. \A k \in 1 .. Len(t) : u[m + k] = t[k]
      <4>1. \A k \in 1 .. l : k \in 1 .. l + 1
        BY <2>4
      <4> QED
        BY <2>6, <2>7, <4>1
    <3>3. u[m + Len(t) + 1] = Layout
      <4>1. l + 1 \in 1 .. l + 1 /\ m + Len(t) + 1 = m + (l + 1)
        BY <2>4, <2>5, <2>7
      <4>2. u[m + (l + 1)] = Layout
        BY <2>6, <2>7, <4>1
      <4> QED
        BY <4>1, <4>2
    <3>4. m = 0 \/ u[m] = Layout
      <4>1. m = 0 \/ m \in 1 .. m
        BY <2>5
      <4> QED
        BY <2>1, <2>7, <4>1
    <3> QED
      BY <3>1, <3>2, <3>3, <3>4 DEF Within
  <2>10. ASSUME NEW s, NEW o \in Nat, Within(r, o, s), Len(s) \in Nat PROVE Within(u, o, s)
    <3> DEFINE j == Len(s)
    <3>1. /\ o + j + 1 <= m /\ (\A k \in 1 .. j : r[o + k] = s[k])
          /\ r[o + j + 1] = Layout /\ (o = 0 \/ r[o] = Layout)
      BY <2>10 DEF Within
    <3> HIDE DEF m, l
    <3>2. o + j + 1 <= Len(u)
      BY <2>4, <2>5, <2>7, <2>10, <3>1
    <3>3. ASSUME NEW k \in 1 .. j PROVE u[o + k] = s[k]
      <4>1. o + k \in 1 .. m
        BY <2>5, <2>10, <3>1
      <4> QED
        BY <2>7, <3>1, <4>1
    <3>4. u[o + j + 1] = Layout
      <4>1. o + j + 1 \in 1 .. m
        BY <2>5, <2>10, <3>1
      <4> QED
        BY <2>7, <3>1, <4>1
    <3>5. o = 0 \/ u[o] = Layout
      <4>1. o = 0 \/ o \in 1 .. m
        BY <2>5, <2>10, <3>1
      <4> QED
        BY <2>7, <3>1, <4>1
    <3> QED
      BY <3>2, <3>3, <3>4, <3>5 DEF Within
  <2>11. \A i \in DOMAIN Append(ts, t) : \E o \in Nat : Within(u, o, Append(ts, t)[i])
    <3>1. /\ Len(ts) \in Nat /\ DOMAIN ts = 1 .. Len(ts) /\ DOMAIN Append(ts, t) = 1 .. Len(ts) + 1
          /\ (\A i \in DOMAIN ts : Append(ts, t)[i] = ts[i] /\ ts[i] \in Seq(Y))
          /\ Append(ts, t)[Len(ts) + 1] = t
      BY AppendProperties, LenProperties, ElementOfSeq
    <3> SUFFICES ASSUME NEW i \in DOMAIN Append(ts, t)
                 PROVE  \E o \in Nat : Within(u, o, Append(ts, t)[i])
      OBVIOUS
    <3>2. CASE i = Len(ts) + 1
      BY <2>5, <2>9, <3>1, <3>2
    <3>3. CASE i # Len(ts) + 1
      <4>1. i \in DOMAIN ts
        BY <3>1, <3>3
      <4>2. PICK o \in Nat : Within(r, o, ts[i])
        BY <2>1, <4>1
      <4>3. Len(ts[i]) \in Nat
        BY <3>1, <4>1, LenProperties
      <4>4. Within(u, o, ts[i])
        BY <2>10, <4>2, <4>3
      <4> QED
        BY <3>1, <4>1, <4>4
    <3> QED
      BY <3>2, <3>3
  <2>12. Append(ts, t) \in Seq(Seq(Y))
    BY AppendProperties
  <2> QED
    BY <2>2, <2>5, <2>8, <2>11, <2>12
<1> HIDE DEF T
<1>3. \A ts \in Seq(Seq(Y)) : ts \in T
  BY <1>1, <1>2, SequenceInduction
<1> QED
  BY <1>3 DEF T

\* What stands in a piece stands in the whole, and what stands in the whole and touches
\* the piece stands in it: no spelling has layout.
LEMMA WithinStands ==
    ASSUME NEW Y, NEW t \in Seq(Y), NEW r \in Seq(Y), NEW o \in Nat, Within(r, o, t),
           NEW D, Layout \notin D, NEW s \in Seq(D), s # << >>, NEW k \in Nat
    PROVE  /\ StandsAt(s, t, k) => StandsAt(s, r, o + k)
           /\ (\E x \in 1 .. Len(t) : o + x \in Span(s, o + k)) /\ StandsAt(s, r, o + k)
                 => StandsAt(s, t, k)
<1> DEFINE l == Len(t)
           n == Len(r)
           c == Len(s)
<1>1. /\ l \in Nat /\ n \in Nat /\ DOMAIN t = 1 .. l /\ DOMAIN r = 1 .. n
      /\ \A j \in 1 .. c : s[j] \in D
  BY LenProperties, ElementOfSeq
<1>2. c \in Nat /\ c # 0
  BY EmptySeq
<1>3. /\ o + l + 1 <= n /\ (\A j \in 1 .. l : r[o + j] = t[j])
      /\ r[o + l + 1] = Layout /\ (o = 0 \/ r[o] = Layout)
  BY DEF Within
<1>4. ASSUME StandsAt(s, t, k) PROVE StandsAt(s, r, o + k)
  <2>1. k \in 1 .. l /\ k + c - 1 <= l /\ \A j \in 1 .. c : t[k + j - 1] = s[j]
    BY <1>1, <1>4 DEF StandsAt
  <2> HIDE DEF l, n, c
  <2>2. o + k \in 1 .. n /\ (o + k) + c - 1 <= n
    BY <1>1, <1>2, <1>3, <2>1
  <2>3. ASSUME NEW j \in 1 .. c PROVE r[(o + k) + j - 1] = s[j]
    <3>1. k + j - 1 \in 1 .. l /\ o + (k + j - 1) = (o + k) + j - 1
      BY <1>1, <1>2, <2>1
    <3> QED
      BY <1>3, <2>1, <3>1
  <2> QED
    BY <1>1, <2>2, <2>3 DEF StandsAt, l, n, c
<1>5. ASSUME NEW x \in 1 .. l, o + x \in Span(s, o + k), StandsAt(s, r, o + k)
      PROVE  StandsAt(s, t, k)
  <2>1. o + k \in 1 .. n /\ (o + k) + c - 1 <= n /\ \A j \in 1 .. c : r[(o + k) + j - 1] = s[j]
    BY <1>1, <1>5 DEF StandsAt
  <2>2. k <= x /\ x <= k + c - 1
    BY <1>1, <1>2, <1>5 DEF Span
  <2> HIDE DEF l, n, c
  <2>3. k # 0
    <3> SUFFICES ASSUME k = 0 PROVE FALSE
      OBVIOUS
    <3>1. 1 \in 1 .. c /\ (o + k) + 1 - 1 = o /\ o # 0
      BY <1>2, <2>1
    <3>2. r[o] = s[1]
      BY <2>1, <3>1
    <3> QED
      BY <1>1, <1>3, <3>1, <3>2
  <2>4. k + c - 1 <= l
    <3> SUFFICES ASSUME ~(k + c - 1 <= l) PROVE FALSE
      OBVIOUS
    <3> DEFINE j == l + 2 - k
    <3>1. j \in 1 .. c /\ (o + k) + j - 1 = o + l + 1
      BY <1>1, <1>2, <2>2
    <3>2. r[o + l + 1] = s[j]
      BY <2>1, <3>1
    <3> QED
      BY <1>1, <1>3, <3>1, <3>2
  <2>5. k \in 1 .. l
    BY <1>1, <1>2, <2>2, <2>3, <2>4
  <2>6. ASSUME NEW j \in 1 .. c PROVE t[k + j - 1] = s[j]
    <3>1. k + j - 1 \in 1 .. l /\ o + (k + j - 1) = (o + k) + j - 1
      BY <1>1, <1>2, <2>4, <2>5
    <3>2. r[o + (k + j - 1)] = t[k + j - 1]
      BY <1>3, <3>1
    <3> QED
      BY <2>1, <3>1, <3>2
  <2> QED
    BY <1>1, <2>4, <2>5, <2>6 DEF StandsAt, l, c
<1> QED
  BY <1>4, <1>5

\* So what is outside of all spellings in the piece is outside of them in the whole.
LEMMA WithinBare ==
    ASSUME NEW Y, NEW t \in Seq(Y), NEW r \in Seq(Y), NEW o \in Nat, Within(r, o, t),
           NEW D, Layout \notin D, NEW H \in SUBSET (Seq(D) \ {<< >>})
    PROVE  /\ Bare(t, H) \subseteq Bare(r, H)
           /\ Nested(Occurrences(r, H)) => Nested(Occurrences(t, H))
<1>1. /\ \A a : a \in Occurrences(t, H) <=> \E s \in H : \E k \in DOMAIN t : StandsAt(s, t, k) /\ a = Span(s, k)
      /\ \A a : a \in Occurrences(r, H) <=> \E s \in H : \E k \in DOMAIN r : StandsAt(s, r, k) /\ a = Span(s, k)
  BY OccurrenceMeans
<1>2. /\ Len(t) \in Nat /\ Len(r) \in Nat /\ DOMAIN t = 1 .. Len(t) /\ DOMAIN r = 1 .. Len(r)
      /\ o + Len(t) + 1 <= Len(r) /\ \A j \in 1 .. Len(t) : r[o + j] = t[j]
  BY LenProperties DEF Within
<1>3. \A s \in H : s \in Seq(D) /\ s # << >>
  OBVIOUS
<1>4. \A s \in H : Len(s) \in Nat /\ Len(s) # 0
  BY <1>3, EmptySeq
<1>5. ASSUME NEW s \in H, NEW k \in DOMAIN t, StandsAt(s, t, k)
      PROVE  o + k \in DOMAIN r /\ StandsAt(s, r, o + k)
  <2>1. k \in Nat
    BY <1>2
  <2>2. StandsAt(s, r, o + k)
    BY <1>3, <1>5, <2>1, WithinStands
  <2> QED
    BY <2>2 DEF StandsAt
<1>6. ASSUME NEW s \in H, NEW k \in DOMAIN r, StandsAt(s, r, k), NEW x \in DOMAIN t,
             o + x \in Span(s, k)
      PROVE  \E i \in DOMAIN t : StandsAt(s, t, i) /\ k = o + i
  <2>1. CASE k < o
    <3>1. o \in Span(s, k) /\ o # 0
      BY <1>2, <1>4, <1>6, <2>1 DEF Span
    <3> DEFINE j == o - k + 1
    <3>2. j \in 1 .. Len(s) /\ k + j - 1 = o
      BY <1>2, <1>4, <2>1, <3>1 DEF Span
    <3>3. r[o] = s[j]
      BY <1>6, <3>2 DEF StandsAt
    <3>4. s[j] \in D
      BY <1>3, <3>2, ElementOfSeq
    <3> QED
      BY <3>1, <3>3, <3>4 DEF Within
  <2>2. CASE k >= o
    <3> DEFINE i == k - o
    <3>1. i \in Nat /\ k = o + i
      BY <1>2, <2>2
    <3> HIDE DEF i
    <3>2. StandsAt(s, r, o + i) /\ o + x \in Span(s, o + i) /\ x \in 1 .. Len(t)
      BY <1>2, <1>6, <3>1
    <3>3. StandsAt(s, t, i)
      BY <1>3, <3>1, <3>2, WithinStands
    <3>4. i \in DOMAIN t
      BY <3>3 DEF StandsAt
    <3> QED
      BY <3>1, <3>3, <3>4
  <2> QED
    BY <1>2, <2>1, <2>2
<1>7. ASSUME NEW c \in Bare(t, H) PROVE c \in Bare(r, H)
  <2>1. PICK x \in DOMAIN t : x \notin UNION Occurrences(t, H) /\ c = t[x]
    BY DEF Bare
  <2>2. o + x \in DOMAIN r /\ r[o + x] = c
    BY <1>2, <2>1
  <2>3. o + x \notin UNION Occurrences(r, H)
    <3> SUFFICES ASSUME NEW a \in Occurrences(r, H), o + x \in a PROVE FALSE
      OBVIOUS
    <3>1. PICK s \in H, k \in DOMAIN r : StandsAt(s, r, k) /\ a = Span(s, k)
      BY <1>1
    <3>2. PICK i \in DOMAIN t : StandsAt(s, t, i) /\ k = o + i
      BY <1>6, <3>1
    <3>3. x \in Span(s, i)
      BY <1>2, <1>4, <3>1, <3>2 DEF Span
    <3>4. Span(s, i) \in Occurrences(t, H)
      BY <1>1, <3>2
    <3> QED
      BY <2>1, <3>3, <3>4
  <2> QED
    BY <2>2, <2>3 DEF Bare
<1>8. ASSUME Nested(Occurrences(r, H)), NEW a \in Occurrences(t, H), NEW b \in Occurrences(t, H)
      PROVE  a \subseteq b \/ b \subseteq a \/ a \cap b = {}
  <2>1. PICK s \in H, k \in DOMAIN t : StandsAt(s, t, k) /\ a = Span(s, k)
    BY <1>1
  <2>2. PICK u \in H, j \in DOMAIN t : StandsAt(u, t, j) /\ b = Span(u, j)
    BY <1>1
  <2> DEFINE A == Span(s, o + k)
             B == Span(u, o + j)
  <2>3. A \in Occurrences(r, H) /\ B \in Occurrences(r, H)
    BY <1>1, <1>5, <2>1, <2>2
  <2>4. A \subseteq B \/ B \subseteq A \/ A \cap B = {}
    BY <1>8, <2>3 DEF Nested
  <2>5. a \in SUBSET Int /\ b \in SUBSET Int
    BY <1>2, <1>4, <2>1, <2>2 DEF Span
  <2>6. \A x \in Int : (x \in a <=> o + x \in A) /\ (x \in b <=> o + x \in B)
    BY <1>2, <1>4, <2>1, <2>2 DEF Span
  <2>7. \A y \in A : y - o \in Int /\ o + (y - o) = y
    BY <1>2, <1>4 DEF Span
  <2> HIDE DEF A, B
  <2> QED
    BY <2>4, <2>5, <2>6
<1> QED
  BY <1>7, <1>8 DEF Nested

\* The pieces of a value, the texts of which have characters of Y.
PieceOf(Y) == [role : {"key", "string", "number"}, text : Seq(Y)]

\* A value as it was received is its texts, with the layout behind each.
LEMMA PrintedRaw ==
    ASSUME NEW Y, NEW ps \in Seq(PieceOf(Y))
    PROVE  /\ [i \in DOMAIN ps |-> ps[i].text] \in Seq(Seq(Y))
           /\ Printed(ps, << >>) = Joined([i \in DOMAIN ps |-> ps[i].text])
<1> DEFINE ts == [i \in DOMAIN ps |-> ps[i].text]
           f == [i \in DOMAIN ps |->
                    (IF ps[i].role = "number" THEN ps[i].text ELSE Spell(ps[i].text, << >>))
                    \o << Layout >>]
           g == [i \in DOMAIN ts |-> ts[i] \o << Layout >>]
<1>1. \A i \in DOMAIN ps : ps[i] \in PieceOf(Y)
  BY LenProperties, ElementOfSeq
<1>2. \A i \in DOMAIN ps : ps[i].text \in Seq(Y)
  BY <1>1 DEF PieceOf
<1>3. \A i \in DOMAIN ps : Spell(ps[i].text, << >>) = ps[i].text
  BY <1>2, SpellNothing
<1>4. f = g
  BY <1>3
<1>5. Printed(ps, << >>) = FlattenSeq(f) /\ Joined(ts) = FlattenSeq(g)
  BY DEF Printed, Joined
<1>6. ts \in Seq(Seq(Y))
  <2>1. ts = [i \in DOMAIN ps |-> ts[i]] /\ \A i \in DOMAIN ps : ts[i] \in Seq(Y)
    BY <1>2
  <2> HIDE DEF ts
  <2> QED
    BY <2>1, MapType
<1> HIDE DEF f, g
<1> QED
  BY <1>4, <1>5, <1>6

\* A printed value consists of the characters of its pieces and of their escapes.
LEMMA PrintedType ==
    ASSUME NEW Y, NEW ps \in Seq(PieceOf(Y)), NEW escapes, Layout \in Y,
           \A c \in Y \cap DOMAIN escapes : escapes[c] \in Seq(Y)
    PROVE  Printed(ps, escapes) \in Seq(Y)
<1> DEFINE part(i) == IF ps[i].role = "number" THEN ps[i].text ELSE Spell(ps[i].text, escapes)
           f == [i \in DOMAIN ps |->
                    (IF ps[i].role = "number" THEN ps[i].text ELSE Spell(ps[i].text, escapes))
                    \o << Layout >>]
<1>1. \A i \in DOMAIN ps : ps[i] \in PieceOf(Y)
  BY LenProperties, ElementOfSeq
<1>2. \A i \in DOMAIN ps : ps[i].text \in Seq(Y)
  BY <1>1 DEF PieceOf
<1>3. \A i \in DOMAIN ps : part(i) \in Seq(Y)
  <2>1. \A t \in Seq(Y) : Spell(t, escapes) \in Seq(Y)
    BY SpellType
  <2> QED
    BY <1>2, <2>1
<1>4. \A t \in Seq(Y) : t \o << Layout >> \in Seq(Y)
  <2> DEFINE e == << Layout >>
  <2>1. e \in Seq(Y)
    OBVIOUS
  <2> HIDE DEF e
  <2>2. \A s \in Seq(Y) : s \o e \in Seq(Y)
    BY <2>1, ConcatProperties
  <2> QED
    BY <2>2 DEF e
<1>5. \A i \in DOMAIN ps : f[i] = part(i) \o << Layout >>
  OBVIOUS
<1>6. f = [i \in DOMAIN ps |-> f[i]]
  OBVIOUS
<1>7. Printed(ps, escapes) = FlattenSeq(f)
  BY DEF Printed
<1> HIDE DEF f, part
<1>8. \A i \in DOMAIN ps : f[i] \in Seq(Y)
  BY <1>3, <1>4, <1>5
<1>9. f \in Seq(Seq(Y))
  BY <1>6, <1>8, MapType
<1> QED
  BY <1>7, <1>9, FlattenType

-----------------------------------------------------------------------------
(* What is printed of a value. *)

\* Escapes consist of the characters that count as such, and what they escape.
LEMMA EscapesHaveType ==
    ASSUME NEW C, EscapeCharacters \subseteq C
    PROVE  /\ \A c \in C \cap DOMAIN JSONEscapes : JSONEscapes[c] \in Seq(C)
           /\ \A c \in C \cap DOMAIN HTMLEscapes : HTMLEscapes[c] \in Seq(C)
<1>1. "\\" \in C /\ "u" \in C /\ "0" \in C /\ "2" \in C /\ "6" \in C
  BY DEF EscapeCharacters
<1>2. <<"\\", "\\">> \in Seq(C) /\ <<"\\", "u", "0", "0", "2", "6">> \in Seq(C)
  BY <1>1
<1>3. \A c \in C : <<"\\", c>> \in Seq(C)
  BY <1>1
<1>4. \A c \in DOMAIN JSONEscapes : JSONEscapes[c] = <<"\\", c>>
  BY DEF JSONEscapes
<1>5. \A c \in DOMAIN HTMLEscapes :
         \/ HTMLEscapes[c] = <<"\\", "u", "0", "0", "2", "6">>
         \/ c \in DOMAIN JSONEscapes /\ HTMLEscapes[c] = JSONEscapes[c]
  BY DEF HTMLEscapes, JSONEscapes
<1> QED
  BY <1>2, <1>3, <1>4, <1>5

\* The texts of a value, scrubbed: nothing is left but the marker and what is outside of the
\* secrets in the whole.
LEMMA ScrubbedText ==
    ASSUME NEW Y, Layout \in Y, NEW ps \in Seq(PieceOf(Y)), NEW i \in DOMAIN ps,
           NEW D, Layout \notin D, Hidden \in SUBSET (Seq(D) \ {<< >>}),
           Nested(Occurrences(Printed(ps, << >>), Hidden)),
           NEW C, Bare(Printed(ps, << >>), Hidden) \subseteq C, Mark \in C
    PROVE  Scrub(ps[i].text, Hidden) \in Seq(C)
<1> DEFINE H == Hidden
           t == ps[i].text
           r == Printed(ps, << >>)
           ts == [j \in DOMAIN ps |-> ps[j].text]
<1>1. ts \in Seq(Seq(Y)) /\ r = Joined(ts)
  BY PrintedRaw
<1>2. ts[i] = t /\ i \in DOMAIN ts
  OBVIOUS
<1>3. ps[i] \in PieceOf(Y)
  BY LenProperties, ElementOfSeq
<1>4. t \in Seq(Y)
  BY <1>3 DEF PieceOf
<1>5. H \in SUBSET (Seq(D) \ {<< >>})
  OBVIOUS
<1>6. Bare(r, H) \subseteq C /\ Nested(Occurrences(r, H))
  OBVIOUS
<1> HIDE DEF ts, r, t, H
<1>7. Joined(ts) \in Seq(Y) /\ \A j \in DOMAIN ts : \E o \in Nat : Within(Joined(ts), o, ts[j])
  BY <1>1, JoinedHasAll
<1>8. PICK o \in Nat : Within(r, o, t)
  BY <1>1, <1>2, <1>7
<1>9. r \in Seq(Y)
  BY <1>1, <1>7
<1>10. Bare(t, H) \subseteq Bare(r, H) /\ Nested(Occurrences(t, H))
  BY <1>4, <1>5, <1>6, <1>8, <1>9, WithinBare
<1> DEFINE B == Bare(t, H) \cup {Mark}
           u == Scrub(t, H)
<1>11. u \in Seq(B)
  BY <1>4, <1>5, <1>10, ScrubHides
<1>12. B \subseteq C
  BY <1>6, <1>10
<1> HIDE DEF B, u
<1>13. u \in Seq(C)
  BY <1>11, <1>12, SeqMonotonic
<1> QED
  BY <1>13 DEF u, t, H

\* So it is with all pieces, numbers that became the marker included.
LEMMA ScrubbedData ==
    ASSUME NEW Y, Layout \in Y, NEW ps \in Seq(PieceOf(Y)),
           NEW D, Layout \notin D, Hidden \in SUBSET (Seq(D) \ {<< >>}),
           Nested(Occurrences(Printed(ps, << >>), Hidden)),
           NEW C, Bare(Printed(ps, << >>), Hidden) \subseteq C, Mark \in C
    PROVE  ScrubData(ps) \in Seq(PieceOf(C))
<1> DEFINE text(i) == Scrub(ps[i].text, Hidden)
           f == [i \in DOMAIN ps |->
                    IF ps[i].role # "number" THEN [ps[i] EXCEPT !.text = text(i)]
                    ELSE IF text(i) = ps[i].text THEN ps[i]
                    ELSE [role |-> "string", text |-> << Mark >>]]
<1>1. \A i \in DOMAIN ps : text(i) \in Seq(C)
  BY ScrubbedText
<1>2. ScrubData(ps) = f
  BY DEF ScrubData
<1>3. << Mark >> \in Seq(C)
  OBVIOUS
<1>4. \A i \in DOMAIN ps : ps[i] \in PieceOf(Y)
  BY LenProperties, ElementOfSeq
<1> HIDE DEF text
<1>5. ASSUME NEW i \in DOMAIN ps PROVE f[i] \in PieceOf(C)
  <2>1. ps[i] \in [role : {"key", "string", "number"}, text : Seq(Y)]
    BY <1>4 DEF PieceOf
  <2>2. CASE ps[i].role # "number"
    <3>1. f[i] = [ps[i] EXCEPT !.text = text(i)]
      BY <2>2
    <3>2. f[i] \in [role : {"key", "string", "number"}, text : Seq(C)]
      BY <1>1, <2>1, <3>1
    <3> QED
      BY <3>2 DEF PieceOf
  <2>3. CASE ps[i].role = "number" /\ text(i) = ps[i].text
    <3>1. f[i] = ps[i] /\ ps[i].text \in Seq(C)
      BY <1>1, <2>3
    <3>2. ps[i] \in [role : {"key", "string", "number"}, text : Seq(C)]
      BY <2>1, <3>1
    <3> QED
      BY <3>1, <3>2 DEF PieceOf
  <2>4. CASE ps[i].role = "number" /\ text(i) # ps[i].text
    <3> DEFINE m == << Mark >>
    <3>1. f[i] = [role |-> "string", text |-> m]
      BY <2>4
    <3>2. m \in Seq(C)
      BY <1>3
    <3> HIDE DEF f, m
    <3>3. [role |-> "string", text |-> m] \in [role : {"key", "string", "number"}, text : Seq(C)]
      BY <3>2
    <3> QED
      BY <3>1, <3>3 DEF PieceOf
  <2> QED
    BY <2>2, <2>3, <2>4
<1>6. f = [i \in DOMAIN ps |-> f[i]]
  OBVIOUS
<1> HIDE DEF f
<1>7. f \in Seq(PieceOf(C))
  BY <1>5, <1>6, MapType
<1> QED
  BY <1>2, <1>7

\* What is cut off gains the ellipsis and nothing else.
LEMMA TruncateType ==
    ASSUME NEW C, Ellipsis \in C, NEW t \in Seq(C) PROVE Truncate(t) \in Seq(C)
<1>1. CASE Len(t) <= DisplayLimit
  BY <1>1 DEF Truncate
<1>2. CASE ~(Len(t) <= DisplayLimit)
  <2> DEFINE s == SubSeq(t, 1, DisplayLimit)
             e == << Ellipsis >>
  <2>1. Len(t) \in Nat /\ DisplayLimit \in Nat
    BY LenProperties, LimitAssumption
  <2>2. \A i \in 1 .. DisplayLimit : t[i] \in C
    BY <1>2, <2>1, ElementOfSeq
  <2>3. s \in Seq(C)
    BY <2>1, <2>2, SubSeqProperties
  <2>4. e \in Seq(C)
    OBVIOUS
  <2> HIDE DEF s, e
  <2>5. s \o e \in Seq(C)
    BY <2>3, <2>4, ConcatProperties
  <2> QED
    BY <1>2, <2>5 DEF Truncate, s, e
<1> QED
  BY <1>1, <1>2

\* ... and so it is however the value is printed.
LEMMA ShownHides ==
    ASSUME NEW Y, Layout \in Y, NEW ps \in Seq(PieceOf(Y)),
           NEW D, Layout \notin D, Hidden \in SUBSET (Seq(D) \ {<< >>}),
           Nested(Occurrences(Printed(ps, << >>), Hidden)),
           NEW C, Bare(Printed(ps, << >>), Hidden) \subseteq C,
           EscapeCharacters \cup {Layout, Ellipsis} \subseteq C
    PROVE  Shown(ps) \in Seq(C)
<1>0. Mark \in C /\ Layout \in C /\ Ellipsis \in C /\ EscapeCharacters \subseteq C
  BY DEF EscapeCharacters
<1> DEFINE H == Hidden
           data == ScrubData(ps)
<1>1. data \in Seq(PieceOf(C))
  BY <1>0, ScrubbedData
<1>2. H \in SUBSET (Seq(D) \ {<< >>})
  OBVIOUS
<1>3. C \cup {Mark} = C
  BY <1>0
<1> HIDE DEF H, data
<1>4. \A t \in Seq(C) : Scrub(t, H) \in Seq(C)
  <2> SUFFICES ASSUME NEW t \in Seq(C) PROVE Scrub(t, H) \in Seq(C)
    OBVIOUS
  <2>1. Scrub(t, H) \in Seq(C \cup {Mark})
    BY <1>2, ScrubKeeps
  <2> QED
    BY <1>3, <2>1
<1>5. ShownToHumans(ps) \in Seq(C)
  <2> DEFINE p == Printed(data, HTMLEscapes)
             t == Truncate(p)
  <2>1. \A c \in C \cap DOMAIN HTMLEscapes : HTMLEscapes[c] \in Seq(C)
    BY <1>0, EscapesHaveType
  <2>2. p \in Seq(C)
    BY <1>0, <1>1, <2>1, PrintedType
  <2> HIDE DEF p
  <2>3. t \in Seq(C)
    BY <1>0, <2>2, TruncateType
  <2> HIDE DEF t
  <2>4. Scrub(t, H) \in Seq(C)
    BY <1>4, <2>3
  <2> QED
    BY <2>4 DEF ShownToHumans, t, p, data, H
<1>6. ShownAsJSON(ps) \in Seq(C)
  <2> DEFINE f == [i \in DOMAIN data |->
                    IF data[i].role = "string" THEN [data[i] EXCEPT !.text = Scrub(@, H)]
                    ELSE data[i]]
  <2>1. \A i \in DOMAIN data : data[i] \in PieceOf(C)
    BY <1>1, LenProperties, ElementOfSeq
  <2>2. ASSUME NEW i \in DOMAIN data PROVE f[i] \in PieceOf(C)
    <3>1. data[i] \in [role : {"key", "string", "number"}, text : Seq(C)]
      BY <2>1 DEF PieceOf
    <3> DEFINE u == Scrub(data[i].text, H)
    <3>2. u \in Seq(C)
      BY <1>4, <3>1
    <3>3. CASE data[i].role = "string"
      <4>1. f[i] = [data[i] EXCEPT !.text = u]
        BY <3>3
      <4> HIDE DEF u
      <4>2. f[i] \in [role : {"key", "string", "number"}, text : Seq(C)]
        BY <3>1, <3>2, <4>1
      <4> QED
        BY <4>2 DEF PieceOf
    <3>4. CASE data[i].role # "string"
      BY <2>1, <3>4
    <3> QED
      BY <3>3, <3>4
  <2>3. f = [i \in DOMAIN data |-> f[i]]
    OBVIOUS
  <2>4. \A c \in C \cap DOMAIN JSONEscapes : JSONEscapes[c] \in Seq(C)
    BY <1>0, EscapesHaveType
  <2>5. ShownAsJSON(ps) = Printed(f, JSONEscapes)
    BY DEF ShownAsJSON, data, H
  <2> HIDE DEF f
  <2>6. f \in Seq(PieceOf(C))
    BY <1>1, <2>2, <2>3, MapType
  <2> QED
    BY <1>0, <2>4, <2>5, <2>6, PrintedType
<1> QED
  BY <1>5, <1>6 DEF Shown

-----------------------------------------------------------------------------
(* The spellings of a secret. *)

\* What secrets and their spellings have for characters.
SpellingCharacters ==
    {"~", "/", "0", "1", "2", "6", "%", "F", "f", "+", "\\", "u", "\"", "k", "K", "x", "X"}
SecretCharacter == (STRING \cup SpellingCharacters) \ {Layout, Ellipsis}

\* None of these is layout.
LEMMA SpellingCharactersApart == SpellingCharacters \subseteq SecretCharacter
BY DEF SpellingCharacters, SecretCharacter, Layout, Ellipsis

\* The escapes that spellings have.
LEMMA SpellingTexts ==
    ASSUME NEW D, SpellingCharacters \subseteq D
    PROVE  /\ <<"%", "2", "F">> \in Seq(D) /\ <<"%", "2", "2">> \in Seq(D) /\ <<"%", "2", "0">> \in Seq(D)
           /\ <<"%", "2", "6">> \in Seq(D) /\ <<"+">> \in Seq(D) /\ <<"~", "0">> \in Seq(D)
           /\ <<"~", "1">> \in Seq(D) /\ <<"\\", "u", "0", "0", "2", "6">> \in Seq(D)
           /\ \A c \in D : <<"\\", c>> \in Seq(D)
<1>1. /\ "~" \in D /\ "/" \in D /\ "0" \in D /\ "1" \in D /\ "2" \in D /\ "6" \in D
      /\ "%" \in D /\ "F" \in D /\ "+" \in D /\ "\\" \in D /\ "u" \in D
  BY DEF SpellingCharacters
<1>2. <<"%", "2", "F">> \in Seq(D) /\ <<"%", "2", "2">> \in Seq(D) /\ <<"%", "2", "0">> \in Seq(D)
  BY <1>1
<1>3. <<"%", "2", "6">> \in Seq(D) /\ <<"+">> \in Seq(D) /\ <<"~", "0">> \in Seq(D)
  BY <1>1
<1>4. <<"~", "1">> \in Seq(D) /\ <<"\\", "u", "0", "0", "2", "6">> \in Seq(D)
  BY <1>1
<1>5. \A c \in D : <<"\\", c>> \in Seq(D)
  BY <1>1
<1> QED
  BY <1>2, <1>3, <1>4, <1>5

\* Spelling a secret otherwise adds no layout to it, ...
LEMMA SpellingsType ==
    ASSUME NEW s \in Seq(SecretCharacter)
    PROVE  Spellings(s) \subseteq Seq(SecretCharacter)
<1> DEFINE D == SecretCharacter
           Q == QueryEscapes
           P == PathEscapes
           J == JSONEscapes
           L == HTMLEscapes
<1>1. /\ "~" \in D /\ "/" \in D /\ "0" \in D /\ "1" \in D /\ "2" \in D /\ "6" \in D
      /\ "%" \in D /\ "F" \in D /\ "f" \in D /\ "+" \in D /\ "\\" \in D /\ "u" \in D
      /\ "\"" \in D /\ "k" \in D /\ "K" \in D /\ "x" \in D /\ "X" \in D
  BY SpellingCharactersApart DEF SpellingCharacters
<1> DEFINE p1 == <<"%", "2", "F">>
           p2 == <<"%", "2", "2">>
           p3 == <<"%", "2", "0">>
           q1 == <<"%", "2", "6">>
           q2 == <<"+">>
           h1 == <<"\\", "u", "0", "0", "2", "6">>
           a == <<"~", "0">>
           b == <<"~", "1">>
           j(c) == <<"\\", c>>
<1>0. /\ p1 \in Seq(D) /\ p2 \in Seq(D) /\ p3 \in Seq(D) /\ q1 \in Seq(D) /\ q2 \in Seq(D)
      /\ h1 \in Seq(D) /\ a \in Seq(D) /\ b \in Seq(D) /\ \A c \in D : j(c) \in Seq(D)
  BY SpellingCharactersApart, SpellingTexts
<1>2. \A c \in D \cap DOMAIN P : P[c] \in Seq(D)
  <2> SUFFICES ASSUME NEW c \in DOMAIN P PROVE P[c] \in Seq(D)
    OBVIOUS
  <2>1. P[c] \in {p1, p2, p3}
    BY DEF PathEscapes
  <2> HIDE DEF D, P, p1, p2, p3
  <2> QED
    BY <1>0, <2>1
<1>3. \A c \in D \cap DOMAIN Q : Q[c] \in Seq(D)
  <2> SUFFICES ASSUME NEW c \in DOMAIN Q, c \in D PROVE Q[c] \in Seq(D)
    OBVIOUS
  <2>1. \/ Q[c] \in {q1, q2}
        \/ c \in DOMAIN P /\ Q[c] = P[c]
    BY DEF QueryEscapes, PathEscapes
  <2> HIDE DEF D, Q, P, q1, q2
  <2> QED
    BY <1>0, <1>2, <2>1
<1>4. \A c \in D \cap DOMAIN J : J[c] \in Seq(D)
  <2> SUFFICES ASSUME NEW c \in DOMAIN J, c \in D PROVE J[c] \in Seq(D)
    OBVIOUS
  <2>1. J[c] = j(c)
    BY DEF JSONEscapes
  <2> HIDE DEF D, J, j
  <2> QED
    BY <1>0, <2>1
<1>5. \A c \in D \cap DOMAIN L : L[c] \in Seq(D)
  <2> SUFFICES ASSUME NEW c \in DOMAIN L, c \in D PROVE L[c] \in Seq(D)
    OBVIOUS
  <2>1. \/ L[c] = h1
        \/ c \in DOMAIN J /\ L[c] = J[c]
    BY DEF HTMLEscapes, JSONEscapes
  <2> HIDE DEF D, L, J, h1
  <2> QED
    BY <1>0, <1>4, <2>1
<1> HIDE DEF Q, P, J, L, p1, p2, p3, q1, q2, h1, a, b, j
<1>6. Spell(s, Q) \in Seq(D) /\ Spell(s, P) \in Seq(D) /\ Spell(s, J) \in Seq(D) /\ Spell(s, L) \in Seq(D)
  <2> HIDE DEF D
  <2>0. s \in Seq(D)
    BY DEF D
  <2>1. Spell(s, Q) \in Seq(D)
    BY <1>3, <2>0, SpellType
  <2>2. Spell(s, P) \in Seq(D)
    BY <1>2, <2>0, SpellType
  <2>3. Spell(s, J) \in Seq(D)
    BY <1>4, <2>0, SpellType
  <2>4. Spell(s, L) \in Seq(D)
    BY <1>5, <2>0, SpellType
  <2> QED
    BY <2>1, <2>2, <2>3, <2>4
<1>7. \A t \in Seq(D) : LowerPercentEscapes(t) \in Seq(D)
  <2> SUFFICES ASSUME NEW t \in Seq(D) PROVE LowerPercentEscapes(t) \in Seq(D)
    OBVIOUS
  <2> DEFINE f == LowerPercentEscapes(t)
  <2>1. f = [i \in DOMAIN t |-> f[i]]
    BY DEF LowerPercentEscapes
  <2>2. \A i \in DOMAIN t : t[i] \in D
    BY LenProperties, ElementOfSeq
  <2>3. \A i \in DOMAIN t : f[i] \in {"f", t[i]}
    BY DEF LowerPercentEscapes
  <2> HIDE DEF f, D
  <2>4. \A i \in DOMAIN t : f[i] \in D
    BY <1>1, <2>2, <2>3
  <2>5. f \in Seq(D)
    BY <2>1, <2>4, MapType
  <2> QED
    BY <2>5 DEF f
<1>8. Lower(s) \in Seq(D) /\ DOMAIN Lower(s) = DOMAIN s
  <2> DEFINE f == Lower(s)
  <2>1. f = [i \in DOMAIN s |-> f[i]]
    BY DEF Lower
  <2>2. \A i \in DOMAIN s : s[i] \in D
    BY LenProperties, ElementOfSeq
  <2>3. \A c \in DOMAIN LowerCase : LowerCase[c] \in {"k", "x"}
    BY DEF LowerCase
  <2>4. \A i \in DOMAIN s : f[i] \in {"k", "x", s[i]}
    <3> HIDE DEF f
    <3>1. \A i \in DOMAIN s : f[i] = IF s[i] \in DOMAIN LowerCase THEN LowerCase[s[i]] ELSE s[i]
      BY DEF f, Lower
    <3> QED
      BY <2>3, <3>1
  <2> HIDE DEF f, D
  <2>5. \A i \in DOMAIN s : f[i] \in D
    BY <1>1, <2>2, <2>4
  <2>6. f \in Seq(D) /\ DOMAIN f = DOMAIN s
    <3>1. s \in Seq(D)
      BY DEF D
    <3> QED
      BY <2>1, <2>5, <3>1, MapType
  <2> QED
    BY <2>6 DEF f
<1>9. CanonicalName(s) \in Seq(D)
  <2> DEFINE f == CanonicalName(s)
             l == Lower(s)
  <2>1. f = [i \in DOMAIN s |-> f[i]]
    BY DEF CanonicalName
  <2>2. \A c \in DOMAIN UpperCase : UpperCase[c] \in {"K", "X"}
    BY DEF UpperCase
  <2>3. \A i \in DOMAIN s : f[i] \in {"K", "X", l[i]}
    <3> HIDE DEF f, l
    <3>1. \A i \in DOMAIN s :
             f[i] = IF l[i] \in DOMAIN UpperCase /\ (i = 1 \/ s[i - 1] = "-") THEN UpperCase[l[i]] ELSE l[i]
      BY DEF f, l, CanonicalName
    <3> QED
      BY <2>2, <3>1
  <2>4. \A i \in DOMAIN s : l[i] \in D
    <3> HIDE DEF l
    <3>1. l \in Seq(D) /\ DOMAIN l = DOMAIN s
      BY <1>8 DEF l
    <3> QED
      BY <3>1, LenProperties, ElementOfSeq
  <2> HIDE DEF f, l, D
  <2>5. \A i \in DOMAIN s : f[i] \in D
    BY <1>1, <2>3, <2>4
  <2>6. f \in Seq(D)
    <3>1. s \in Seq(D)
      BY DEF D
    <3> QED
      BY <2>1, <2>5, <3>1, MapType
  <2> QED
    BY <2>6 DEF f
<1>10. Escape(s) \in Seq(D)
  <2> DEFINE t == Substitute(s, "~", a)
  <2> HIDE DEF D
  <2>2. s \in Seq(D)
    BY DEF D
  <2>3. t \in Seq(D)
    BY <1>0, <2>2, SubstituteOver
  <2> HIDE DEF t
  <2>4. Substitute(t, "/", b) \in Seq(D)
    BY <1>0, <2>3, SubstituteOver
  <2> QED
    BY <2>4 DEF Escape, a, b, t
<1>11. s \in Seq(D)
  OBVIOUS
<1> HIDE DEF D
<1> DEFINE escaped == {Spell(s, Q), Spell(s, P)}
<1>12. \A e \in escaped : e \in Seq(D) /\ LowerPercentEscapes(e) \in Seq(D)
  BY <1>6, <1>7
<1>13. Spellings(s) =
          (IF HeaderName(s) THEN {CanonicalName(s), Lower(s)} ELSE {})
           \cup escaped \cup {LowerPercentEscapes(e) : e \in escaped}
           \cup {Escape(s), s, Spell(s, L), Spell(s, J)}
  BY DEF Spellings, Q, P, L, J
<1> HIDE DEF escaped
<1>14. Spellings(s) \subseteq Seq(D)
  BY <1>6, <1>8, <1>9, <1>10, <1>11, <1>12, <1>13
<1> QED
  BY <1>14 DEF D

\* ... so no spelling that is looked for has any.
LEMMA HiddenType ==
    ASSUME case \in Cases
    PROVE  Hidden \in SUBSET (Seq(SecretCharacter) \ {<< >>})
<1>1. ASSUME NEW s \in case.secrets PROVE Spellings(s) \subseteq Seq(SecretCharacter)
  <2>1. s \in Seq(STRING) /\ {Layout, Ellipsis} \cap Range(s) = {}
    BY SecretsAssumption
  <2>2. \A i \in DOMAIN s : s[i] \in SecretCharacter
    <3>1. \A i \in DOMAIN s : s[i] \in STRING
      BY <2>1, LenProperties, ElementOfSeq
    <3>2. \A i \in DOMAIN s : s[i] \in Range(s)
      BY DEF Range
    <3> QED
      BY <2>1, <3>1, <3>2 DEF SecretCharacter
  <2>3. s = [i \in DOMAIN s |-> s[i]]
    BY <2>1
  <2>4. s \in Seq(SecretCharacter)
    BY <2>1, <2>2, <2>3, MapType
  <2> QED
    BY <2>4, SpellingsType
<1> DEFINE all == {Spellings(s) : s \in case.secrets}
<1>2. \A a \in all : a \subseteq Seq(SecretCharacter)
  BY <1>1
<1>3. Hidden = (UNION all) \ {<< >>}
  BY DEF Hidden, AllSpellings
<1> HIDE DEF all
<1> DEFINE T == Seq(SecretCharacter)
<1> HIDE DEF T
<1>4. UNION all \subseteq T
  BY <1>2 DEF T
<1>5. Hidden \in SUBSET (T \ {<< >>})
  BY <1>3, <1>4
<1> QED
  BY <1>5 DEF T

-----------------------------------------------------------------------------
(* The values and locations of differences. *)

\* JSON bodies stay finite ...
FiniteJSON(body) == IsJSON(body) => IsFiniteSet(DOMAIN body.doc)

\* ... when they are redacted, ...
LEMMA RedactStaysFinite ==
    ASSUME NEW p, NEW r, IsResponse(r), FiniteJSON(r.body)
    PROVE  FiniteJSON(Sanitize(p, r).body)
<1> DEFINE b == r.body
           x == Sanitize(p, r).body
<1>1. x = RedactBody(p.json, b, r.headers[ContentType], r.complete /\ ~r.truncated)
  BY SanitizeMeans
<1> HIDE DEF x
<1>2. \/ x = b \/ x = Withheld
      \/ b.syntax = "json" /\ x = [syntax |-> "json", doc |-> Redact(b.doc, p.json)]
  BY <1>1 DEF RedactBody
<1>3. CASE x = b
  BY <1>3 DEF x
<1>4. CASE x = Withheld
  <2>1. ~IsJSON(Withheld)
    BY DEF IsJSON, Withheld
  <2> QED
    BY <1>4, <2>1 DEF FiniteJSON, x
<1>5. CASE b.syntax = "json" /\ x = [syntax |-> "json", doc |-> Redact(b.doc, p.json)]
  <2>1. IsFiniteSet(DOMAIN b.doc)
    BY <1>5 DEF FiniteJSON, IsJSON
  <2>2. DOMAIN Redact(b.doc, p.json) \subseteq DOMAIN b.doc
    <3>1. DOMAIN Redact(b.doc, p.json) =
             {q \in DOMAIN b.doc : \A f \in Fields(p.json) \cap DOMAIN b.doc : ~IsStrictPrefix(f, q)}
      BY RedactMeans
    <3> QED
      BY <3>1
  <2>3. IsFiniteSet(DOMAIN Redact(b.doc, p.json))
    BY <2>1, <2>2, FS_Subset
  <2>4. x.doc = Redact(b.doc, p.json)
    BY <1>5
  <2> QED
    BY <2>3, <2>4 DEF FiniteJSON, x
<1> QED
  BY <1>2, <1>3, <1>4, <1>5

\* ... captured, ...
LEMMA CapturedIsFinite ==
    ASSUME case \in Cases, NEW r \in {case.recorded, case.answered}, NEW broken \in BOOLEAN
    PROVE  FiniteJSON(Capture(r, broken).body)
<1> DEFINE part == [syntax |-> "other", doc |-> (Root :> [type |-> "part"])]
           x == Capture(r, broken).body
<1>1. IsFiniteSet(DOMAIN r.body.doc)
  BY CasesAssumption
<1>2. ~IsJSON(part)
  BY DEF IsJSON
<1>3. x = part \/ x = r.body
  BY DEF Capture
<1> HIDE DEF part, x
<1>4. FiniteJSON(x)
  BY <1>1, <1>2, <1>3 DEF FiniteJSON
<1> QED
  BY <1>4 DEF x

\* ... and so when they are compared, ...
LEMMA ComparedAreFinite ==
    ASSUME IInv, Compared, NEW r \in {baseline, observed}
    PROVE  IsResponse(r) /\ FiniteJSON(r.body)
<1>0. case \in Cases
  BY DEF IInv
<1>1. PICK broken \in BOOLEAN, failed \in BOOLEAN :
         baseline = Sanitize(policy, Stored(broken)) /\ observed = Answer(policy, failed)
  BY DEF Compared
<1> DEFINE c == Capture(case.recorded, broken)
           a == Capture(case.answered, failed)
           s == Sanitize(case.capture, c)
<1>2. IsResponse(c) /\ IsResponse(a)
  BY <1>0, CaptureMeans
<1>3. FiniteJSON(c.body) /\ FiniteJSON(a.body)
  BY <1>0, CapturedIsFinite
<1>4. baseline = Sanitize(policy, s) /\ observed = Sanitize(policy, a)
  BY <1>1 DEF Stored, Answer
<1> HIDE DEF c, a
<1>5. IsResponse(s) /\ FiniteJSON(s.body)
  BY <1>2, <1>3, SanitizeMeans, RedactStaysFinite
<1> HIDE DEF s
<1>6. IsResponse(baseline) /\ FiniteJSON(baseline.body)
  BY <1>4, <1>5, SanitizeMeans, RedactStaysFinite
<1>7. IsResponse(observed) /\ FiniteJSON(observed.body)
  BY <1>2, <1>3, <1>4, SanitizeMeans, RedactStaysFinite
<1> QED
  BY <1>6, <1>7

\* ... so what is at or below a position can be put in an order.
LEMMA InSomeOrder ==
    ASSUME NEW S, IsFiniteSet(S)
    PROVE  SetToSeq(S) \in Seq(S)
<1> DEFINE n == Cardinality(S)
           f == SetToSeq(S)
<1>1. n \in Nat /\ ExistsBijection(1 .. n, S)
  BY FS_CardinalityType
<1>2. PICK g \in [1 .. n -> S] : IsInjective(g)
  BY <1>1 DEF ExistsBijection, Bijection, Injection, IsInjective
<1>3. f \in [1 .. n -> S]
  BY <1>2 DEF SetToSeq
<1> HIDE DEF n, f
<1>4. f \in Seq(S)
  BY <1>1, <1>3, SeqDef
<1> QED
  BY <1>4 DEF f

\* One piece.
LEMMA PieceType ==
    ASSUME NEW Y, NEW role \in {"key", "string", "number"}, NEW text \in Seq(Y)
    PROVE  Piece(role, text) \in Seq(PieceOf(Y))
<1> DEFINE x == [role |-> role, text |-> text]
<1>1. x \in [role : {"key", "string", "number"}, text : Seq(Y)]
  OBVIOUS
<1>2. x \in PieceOf(Y)
  BY <1>1 DEF PieceOf
<1> HIDE DEF x
<1>3. << x >> \in Seq(PieceOf(Y))
  BY <1>2
<1> QED
  BY <1>3 DEF Piece, x

\* A text is its letters, or one character.
LEMMA CharactersType ==
    ASSUME NEW Y, STRING \subseteq Y, NEW s \in Y
    PROVE  Characters(s) \in Seq(Y)
<1>1. \A t \in Seq(STRING) : t \in Seq(Y)
  BY SeqMonotonic
<1>2. << s >> \in Seq(Y)
  OBVIOUS
<1> QED
  BY <1>1, <1>2, LettersAssumption DEF Characters

\* What numbers are written with.
NumberCharacters == {"-", ".", "e"} \cup {ToString(i) : i \in Int}

\* A number is written with nothing else.
LEMMA NumberTextType ==
    ASSUME NEW Y, NumberCharacters \subseteq Y, NEW n \in Number
    PROVE  NumberText(n) \in Seq(Y)
<1>1. \A i \in Int : ToString(i) \in Y
  BY DEF NumberCharacters
<1>2. "-" \in Y /\ "." \in Y /\ "e" \in Y
  BY DEF NumberCharacters
<1>3. n.int \in Seq(Digits) /\ n.frac \in Seq(Digits) /\ n.exp \in Int
  BY DEF Number
<1>4. ASSUME NEW ds \in Seq(Digits) PROVE DigitText(ds) \in Seq(Y)
  <2> DEFINE f == DigitText(ds)
  <2>1. f = [i \in DOMAIN ds |-> f[i]]
    BY DEF DigitText
  <2>2. \A i \in DOMAIN ds : ds[i] \in Digits
    BY LenProperties, ElementOfSeq
  <2>3. \A i \in DOMAIN ds : f[i] \in Y
    BY <1>1, <2>2 DEF DigitText, Digits
  <2> HIDE DEF f
  <2>4. f \in Seq(Y)
    BY <2>1, <2>3, MapType
  <2> QED
    BY <2>4 DEF f
<1> DEFINE a == IF n.neg THEN <<"-">> ELSE << >>
           b == DigitText(n.int)
           c == <<".">>
           d == DigitText(n.frac)
           g == <<"e", ToString(n.exp)>>
<1>5. a \in Seq(Y) /\ c \in Seq(Y)
  BY <1>2
<1>6. b \in Seq(Y) /\ d \in Seq(Y)
  BY <1>3, <1>4
<1>7. g \in Seq(Y)
  <2> DEFINE x == ToString(n.exp)
  <2>1. x \in Y
    BY <1>1, <1>3
  <2> HIDE DEF x
  <2>2. <<"e", x>> \in Seq(Y)
    BY <1>2, <2>1
  <2> QED
    BY <2>2 DEF x
<1>8. NumberText(n) = a \o b \o c \o d \o g
  BY DEF NumberText
<1> HIDE DEF a, b, c, d, g
<1>9. a \o b \in Seq(Y)
  BY <1>5, <1>6, ConcatProperties
<1>10. a \o b \o c \in Seq(Y)
  BY <1>5, <1>9, ConcatProperties
<1>11. a \o b \o c \o d \in Seq(Y)
  BY <1>6, <1>10, ConcatProperties
<1>12. a \o b \o c \o d \o g \in Seq(Y)
  BY <1>7, <1>11, ConcatProperties
<1> QED
  BY <1>8, <1>12

\* The characters of what a response has.
CharactersOf(r) ==
    STRING \cup {Layout, Mark} \cup NumberCharacters
    \cup {r.headers[n] : n \in HeaderNames} \cup {r.body.doc[p].value : p \in DOMAIN r.body.doc}

\* The keys and scalars of a part of a document.
LEMMA PiecesType ==
    ASSUME NEW Y, STRING \subseteq Y, NumberCharacters \subseteq Y,
           NEW d, IsTree(d), IsFiniteSet(DOMAIN d), \A q \in DOMAIN d : d[q].value \in Y,
           NEW p \in DOMAIN d
    PROVE  Pieces(d, p) \in Seq(PieceOf(Y))
<1> DEFINE below == SetToSeq(Under(d, p))
           key(q) == IF q # p /\ InObject(d, q) THEN Piece("key", Last(q)) ELSE << >>
           f == [i \in DOMAIN below |-> key(below[i]) \o ScalarPieces(d[below[i]])]
           P == PieceOf(Y)
<1>1. /\ DOMAIN d \subseteq Seq(Seq(STRING))
      /\ \A q \in DOMAIN d : d[q].type = "number" => d[q].num \in Number
  BY DEF IsTree, IsDocument, IsNode
<1>2. below \in Seq(Under(d, p))
  <2>1. Under(d, p) \subseteq DOMAIN d
    BY DEF Under
  <2>2. IsFiniteSet(Under(d, p))
    BY <2>1, FS_Subset
  <2> QED
    BY <2>2, InSomeOrder
<1> HIDE DEF below
<1>3. \A i \in DOMAIN below : below[i] \in DOMAIN d /\ IsPrefix(p, below[i])
  <2>1. \A i \in DOMAIN below : below[i] \in Under(d, p)
    BY <1>2, LenProperties, ElementOfSeq
  <2> QED
    BY <2>1 DEF Under
<1>4. << >> \in Seq(P)
  BY EmptySeq
<1>5. ASSUME NEW q \in DOMAIN d, IsPrefix(p, q) PROVE key(q) \in Seq(P)
  <2>1. CASE q # p /\ InObject(d, q)
    <3>1. q \in Seq(Seq(STRING)) /\ p \in Seq(Seq(STRING)) /\ Len(q) \in Nat /\ Len(p) \in Nat
      BY <1>1, LenProperties
    <3>2. Len(p) < Len(q)
      BY <1>5, <2>1, <3>1, StrictPrefixShorter DEF IsStrictPrefix
    <3>3. Last(q) \in Seq(STRING)
      <4>1. Len(q) \in 1 .. Len(q)
        BY <3>1, <3>2
      <4> QED
        BY <3>1, <4>1, ElementOfSeq DEF Last
    <3>4. Last(q) \in Seq(Y)
      BY <3>3, SeqMonotonic
    <3> QED
      BY <2>1, <3>4, PieceType
  <2>2. CASE ~(q # p /\ InObject(d, q))
    BY <1>4, <2>2
  <2> QED
    BY <2>1, <2>2
<1>6. ASSUME NEW q \in DOMAIN d PROVE ScalarPieces(d[q]) \in Seq(P)
  <2>1. CASE d[q].type = "string"
    <3>1. Characters(d[q].value) \in Seq(Y)
      BY CharactersType
    <3> QED
      BY <2>1, <3>1, PieceType DEF ScalarPieces
  <2>2. CASE d[q].type = "number"
    <3>1. NumberText(d[q].num) \in Seq(Y)
      BY <1>1, <2>2, NumberTextType
    <3> QED
      BY <2>2, <3>1, PieceType DEF ScalarPieces
  <2>3. CASE d[q].type \notin {"string", "number"}
    BY <1>4, <2>3 DEF ScalarPieces
  <2> QED
    BY <2>1, <2>2, <2>3
<1>7. Pieces(d, p) = FlattenSeq(f)
  BY DEF Pieces, below
<1> HIDE DEF key, P
<1>8. \A i \in DOMAIN below : f[i] \in Seq(P)
  <2> SUFFICES ASSUME NEW i \in DOMAIN below PROVE f[i] \in Seq(P)
    OBVIOUS
  <2> DEFINE a == key(below[i])
             b == ScalarPieces(d[below[i]])
  <2>1. a \in Seq(P) /\ b \in Seq(P)
    BY <1>3, <1>5, <1>6
  <2>2. f[i] = a \o b
    OBVIOUS
  <2> HIDE DEF f, a, b
  <2> QED
    BY <2>1, <2>2, ConcatProperties
<1>9. f = [i \in DOMAIN below |-> f[i]]
  OBVIOUS
<1> HIDE DEF f
<1>10. f \in Seq(Seq(P))
  BY <1>2, <1>8, <1>9, MapType
<1> QED
  BY <1>7, <1>10, FlattenType DEF P

\* A difference has what is needed to find the value that it is about.
LEMMA DifferenceMeans ==
    ASSUME Compared, NEW d \in differences
    PROVE  /\ d.component = "response.headers" => \E n \in HeaderNames : d.path = << n >>
           /\ d.component = "response.body" /\ d.kind # "body_changed" =>
                 IsJSON(baseline.body) /\ IsJSON(observed.body)
<1>1. \/ d \in CompareStatus(baseline, observed) \/ d \in CompareHeaders(baseline, observed)
      \/ d \in CompareBody(baseline, observed)
  BY DEF Compared, Compare
<1>2. CASE d \in CompareStatus(baseline, observed)
  <2>1. d.component = "response.status"
    BY <1>2 DEF CompareStatus
  <2> QED
    BY <2>1
<1>3. CASE d \in CompareHeaders(baseline, observed)
  <2>1. \E n \in HeaderNames : \E kind :
           d = [component |-> "response.headers", kind |-> kind, path |-> << n >>]
    BY <1>3 DEF CompareHeaders
  <2> QED
    BY <2>1
<1>4. CASE d \in CompareBody(baseline, observed)
  <2>1. CASE IsJSON(baseline.body) /\ IsJSON(observed.body)
    <3>1. d.component = "response.body"
      BY <1>4 DEF CompareBody
    <3> QED
      BY <2>1, <3>1
  <2>2. CASE ~(IsJSON(baseline.body) /\ IsJSON(observed.body))
    <3>1. d = [component |-> "response.body", kind |-> "body_changed", path |-> Root]
      BY <1>4, <2>2 DEF CompareBody
    <3> QED
      BY <3>1
  <2> QED
    BY <2>1, <2>2
<1> QED
  BY <1>1, <1>2, <1>3, <1>4

\* Both values of a difference are such pieces.
LEMMA DataType ==
    ASSUME IInv, Compared, NEW d \in differences, NEW r \in {baseline, observed}
    PROVE  Data(d, r) \in Seq(PieceOf(CharactersOf(r)))
<1> DEFINE Y == CharactersOf(r)
<1>1. STRING \subseteq Y /\ NumberCharacters \subseteq Y /\ Mark \in Y
  BY DEF CharactersOf
<1>2. (\A n \in HeaderNames : r.headers[n] \in Y) /\ (\A p \in DOMAIN r.body.doc : r.body.doc[p].value \in Y)
  BY DEF CharactersOf
<1>3. IsResponse(r) /\ FiniteJSON(r.body)
  BY ComparedAreFinite
<1> HIDE DEF Y
<1>4. CASE d.component = "response.headers" /\ r.headers[d.path[1]] # "absent"
  <2>1. PICK n \in HeaderNames : d.path = << n >>
    BY <1>4, DifferenceMeans
  <2> DEFINE h == r.headers[d.path[1]]
             t == IF h = "marker" THEN << Mark >> ELSE Characters(h)
  <2>2. h \in Y
    BY <1>2, <2>1
  <2> HIDE DEF h
  <2>3. Characters(h) \in Seq(Y)
    BY <1>1, <2>2, CharactersType
  <2>4. t \in Seq(Y)
    <3> DEFINE m == << Mark >>
    <3>1. m \in Seq(Y)
      BY <1>1
    <3> HIDE DEF m
    <3>2. (IF h = "marker" THEN m ELSE Characters(h)) \in Seq(Y)
      BY <2>3, <3>1
    <3> QED
      BY <3>2 DEF m
  <2>5. Data(d, r) = Piece("string", t)
    BY <1>4 DEF Data, h
  <2> HIDE DEF t
  <2> QED
    BY <2>4, <2>5, PieceType DEF Y
<1>5. CASE /\ ~(d.component = "response.headers" /\ r.headers[d.path[1]] # "absent")
           /\ d.component = "response.body" /\ d.kind # "body_changed" /\ d.path \in DOMAIN r.body.doc
  <2>1. IsJSON(r.body)
    BY <1>5, DifferenceMeans
  <2>2. IsTree(r.body.doc) /\ IsFiniteSet(DOMAIN r.body.doc)
    BY <1>3, <2>1, JSONIsTree DEF IsResponse, FiniteJSON
  <2>3. Pieces(r.body.doc, d.path) \in Seq(PieceOf(Y))
    BY <1>1, <1>2, <1>5, <2>2, PiecesType
  <2>4. Data(d, r) = Pieces(r.body.doc, d.path)
    BY <1>5 DEF Data
  <2> QED
    BY <2>3, <2>4 DEF Y
<1>6. CASE /\ ~(d.component = "response.headers" /\ r.headers[d.path[1]] # "absent")
           /\ ~(d.component = "response.body" /\ d.kind # "body_changed" /\ d.path \in DOMAIN r.body.doc)
  <2>1. Data(d, r) = << >>
    BY <1>6 DEF Data
  <2> QED
    BY <2>1, EmptySeq
<1> QED
  BY <1>4, <1>5, <1>6

-----------------------------------------------------------------------------
(* What is printed of a secret. *)

\* What is printed in place of a text, if it is public, an escape or layout, is nothing of
\* the secrets in it.
LEMMA NothingShows ==
    ASSUME NEW Y, NEW raw \in Seq(Y), Hidden \in SUBSET (Seq(SecretCharacter) \ {<< >>}),
           NEW shown \in Seq(Bare(raw, Hidden) \cup EscapeCharacters \cup {Layout, Ellipsis})
    PROVE  LET secret == UNION Occurrences(raw, Hidden)
               public == CharactersAt(raw, DOMAIN raw \ secret)
           IN  CharactersAt(shown, DOMAIN shown)
                   \cap (CharactersAt(raw, secret) \ (public \cup EscapeCharacters)) = {}
<1> DEFINE H == Hidden
           D == SecretCharacter
           secret == UNION Occurrences(raw, H)
           public == CharactersAt(raw, DOMAIN raw \ secret)
           C == Bare(raw, H) \cup EscapeCharacters \cup {Layout, Ellipsis}
<1>1. public = Bare(raw, H)
  BY DEF CharactersAt, Bare
<1>2. CharactersAt(raw, secret) \subseteq D
  <2> SUFFICES ASSUME NEW i \in secret PROVE raw[i] \in D
    BY DEF CharactersAt
  <2>1. PICK a \in Occurrences(raw, H) : i \in a
    OBVIOUS
  <2> HIDE DEF H, D, secret
  <2>2. H \in SUBSET (Seq(D) \ {<< >>})
    BY DEF H, D
  <2>3. \E s \in H : \E k \in DOMAIN raw : StandsAt(s, raw, k) /\ a = Span(s, k)
    BY <2>1, <2>2, OccurrenceMeans
  <2>4. PICK s \in H, k \in DOMAIN raw : StandsAt(s, raw, k) /\ a = Span(s, k)
    BY <2>3
  <2>5. s \in Seq(D) /\ Len(s) \in Nat /\ k \in Nat
    BY <2>2, LenProperties
  <2> DEFINE j == i - k + 1
  <2>6. j \in 1 .. Len(s) /\ k + j - 1 = i
    BY <2>1, <2>4, <2>5 DEF Span
  <2>7. raw[i] = s[j]
    BY <2>4, <2>6 DEF StandsAt
  <2> QED
    BY <2>5, <2>6, <2>7, ElementOfSeq
<1>3. CharactersAt(shown, DOMAIN shown) \subseteq C
  BY LenProperties, ElementOfSeq DEF CharactersAt
<1>4. Layout \notin D /\ Ellipsis \notin D
  BY DEF SecretCharacter
<1> HIDE DEF secret, D, public
<1>5. CharactersAt(shown, DOMAIN shown)
          \cap (CharactersAt(raw, secret) \ (public \cup EscapeCharacters)) = {}
  BY <1>1, <1>2, <1>3, <1>4
<1> QED
  BY <1>5 DEF secret, public, H

\* What NothingOfASecretShows says of one line.
LineHides(line) ==
    LET found  == Occurrences(line.raw, Hidden)
        secret == UNION found
        public == CharactersAt(line.raw, DOMAIN line.raw \ secret)
    IN  Nested(found) =>
            CharactersAt(line.shown, DOMAIN line.shown)
                \cap (CharactersAt(line.raw, secret) \ (public \cup EscapeCharacters)) = {}

\* The same for a line, where secrets are nested.
LEMMA LineIsHidden ==
    ASSUME NEW Y, NEW raw \in Seq(Y), Hidden \in SUBSET (Seq(SecretCharacter) \ {<< >>}), NEW shown,
           Nested(Occurrences(raw, Hidden)) =>
              shown \in Seq(Bare(raw, Hidden) \cup EscapeCharacters \cup {Layout, Ellipsis})
    PROVE  LineHides([raw |-> raw, shown |-> shown])
<1>1. CASE Nested(Occurrences(raw, Hidden))
  <2>1. LET secret == UNION Occurrences(raw, Hidden)
            public == CharactersAt(raw, DOMAIN raw \ secret)
        IN  CharactersAt(shown, DOMAIN shown)
                \cap (CharactersAt(raw, secret) \ (public \cup EscapeCharacters)) = {}
    BY <1>1, NothingShows
  <2> QED
    BY <2>1 DEF LineHides
<1>2. CASE ~Nested(Occurrences(raw, Hidden))
  BY <1>2 DEF LineHides
<1> QED
  BY <1>1, <1>2

\* Every value that is printed keeps its secrets, for humans and as JSON.
LEMMA ValueIsHidden ==
    ASSUME IInv, Compared, NEW d \in differences, NEW r \in {baseline, observed}
    PROVE  LineHides(ValueLine(d, r))
<1> DEFINE Y == CharactersOf(r)
           ps == Data(d, r)
           raw == Printed(ps, << >>)
           shown == Shown(ps)
           H == Hidden
           D == SecretCharacter
           C == Bare(raw, H) \cup EscapeCharacters \cup {Layout, Ellipsis}
<1>1. ps \in Seq(PieceOf(Y)) /\ Layout \in Y
  BY DataType DEF CharactersOf
<1>2. H \in SUBSET (Seq(D) \ {<< >>}) /\ Layout \notin D
  BY HiddenType DEF IInv, SecretCharacter
<1>3. /\ Bare(raw, H) \subseteq C /\ EscapeCharacters \cup {Layout, Ellipsis} \subseteq C
  OBVIOUS
<1> HIDE DEF Y, ps, D, C
<1>4. raw \in Seq(Y)
  <2>1. DOMAIN << >> = {}
    OBVIOUS
  <2>2. \A c \in Y \cap DOMAIN << >> : << >>[c] \in Seq(Y)
    BY <2>1
  <2> QED
    BY <1>1, <2>2, PrintedType
<1>5. Nested(Occurrences(raw, H)) => shown \in Seq(C)
  BY <1>1, <1>2, <1>3, ShownHides
<1> HIDE DEF raw, shown, H
<1>6. LineHides([raw |-> raw, shown |-> shown])
  BY <1>2, <1>4, <1>5, LineIsHidden DEF C, D, H
<1> QED
  BY <1>6 DEF ValueLine, raw, shown, ps

\* Where there are no headers a path is a position of a document.
LEMMA PathIsPosition ==
    ASSUME IInv, Compared, NEW d \in differences, d.component # "response.headers"
    PROVE  d.path \in Seq(Seq(Char))
<1>1. \/ d \in CompareStatus(baseline, observed) \/ d \in CompareHeaders(baseline, observed)
      \/ d \in CompareBody(baseline, observed)
  BY DEF Compared, Compare
<1>2. CASE d \in CompareStatus(baseline, observed)
  <2>1. d.path = << >>
    BY <1>2 DEF CompareStatus
  <2> QED
    BY <2>1, EmptySeq
<1>3. CASE d \in CompareHeaders(baseline, observed)
  BY <1>3, HeaderDifferences
<1>4. CASE d \in CompareBody(baseline, observed)
  <2>1. CASE IsJSON(baseline.body) /\ IsJSON(observed.body)
    <3> DEFINE b == baseline.body.doc
               c == observed.body.doc
    <3>1. PICK x \in CompareDocuments(b, c, Ignore("response.body")) : d.path = x.path
      BY <1>4, <2>1 DEF CompareBody
    <3>2. x.path \in DOMAIN b \cup DOMAIN c
      BY DEF CompareDocuments, Reached
    <3>3. IsTree(b) /\ IsTree(c)
      BY <2>1, ComparedAreFinite, JSONIsTree DEF IsResponse
    <3>4. d.path \in Seq(Seq(STRING))
      BY <3>1, <3>2, <3>3 DEF IsTree, IsDocument
    <3> QED
      BY <3>4, PositionsAreTexts
  <2>2. CASE ~(IsJSON(baseline.body) /\ IsJSON(observed.body))
    <3>1. d = [component |-> "response.body", kind |-> "body_changed", path |-> Root]
      BY <1>4, <2>2 DEF CompareBody
    <3>2. d.path = << >>
      BY <3>1 DEF Root
    <3> QED
      BY <3>2, EmptySeq
  <2> QED
    BY <2>1, <2>2
<1> QED
  BY <1>1, <1>2, <1>3, <1>4

\* A location is the text of a name or of a pointer.
LEMMA LocationType ==
    ASSUME IInv, Compared, NEW d \in differences
    PROVE  LocationText(d) \in Seq(Char \cup STRING \cup HeaderNames)
<1> DEFINE Y == Char \cup STRING \cup HeaderNames
<1>1. CASE d.component = "response.headers"
  <2>1. PICK n \in HeaderNames : d.path = << n >>
    BY <1>1, DifferenceMeans
  <2>2. STRING \subseteq Y /\ n \in Y
    OBVIOUS
  <2> HIDE DEF Y
  <2>3. Characters(n) \in Seq(Y)
    BY <2>2, CharactersType
  <2>4. LocationText(d) = Characters(n)
    BY <1>1, <2>1 DEF LocationText
  <2> QED
    BY <2>3, <2>4 DEF Y
<1>2. CASE d.component # "response.headers"
  <2>1. ToPointer(d.path) \in Seq(Char)
    BY <1>2, PathIsPosition, PositionOfPointer
  <2>2. ToPointer(d.path) \in Seq(Y)
    <3>1. Char \subseteq Y
      OBVIOUS
    <3> HIDE DEF Y
    <3> QED
      BY <2>1, <3>1, SeqMonotonic
  <2> QED
    BY <1>2, <2>2 DEF LocationText
<1> QED
  BY <1>1, <1>2

\* Every location that is printed keeps its secrets.
LEMMA LocationIsHidden ==
    ASSUME IInv, Compared, NEW d \in differences
    PROVE  LineHides(LocationLine(d))
<1> DEFINE Y == Char \cup STRING \cup HeaderNames
           raw == LocationText(d)
           H == Hidden
           D == SecretCharacter
           text == Scrub(raw, H)
           escapes == IF case.json THEN JSONEscapes ELSE << >>
           shown == Printed(Piece("string", text), escapes)
           B == Bare(raw, H) \cup {Mark}
           C == Bare(raw, H) \cup EscapeCharacters \cup {Layout, Ellipsis}
<1>1. raw \in Seq(Y)
  BY LocationType
<1>2. H \in SUBSET (Seq(D) \ {<< >>})
  BY HiddenType DEF IInv
<1>3. B \subseteq C /\ EscapeCharacters \subseteq C /\ Layout \in C
  BY DEF EscapeCharacters
<1> HIDE DEF Y, raw, H, D
<1>4. ASSUME Nested(Occurrences(raw, H)) PROVE shown \in Seq(C)
  <2>1. text \in Seq(B)
    BY <1>1, <1>2, <1>4, ScrubHides
  <2> HIDE DEF text, B, C
  <2>2. text \in Seq(C)
    BY <1>3, <2>1, SeqMonotonic
  <2>3. Piece("string", text) \in Seq(PieceOf(C))
    BY <2>2, PieceType
  <2>4. \A c \in C \cap DOMAIN escapes : escapes[c] \in Seq(C)
    <3>1. CASE case.json
      BY <1>3, <3>1, EscapesHaveType
    <3>2. CASE ~case.json
      <4>1. escapes = << >> /\ DOMAIN << >> = {}
        BY <3>2
      <4> HIDE DEF escapes
      <4> QED
        BY <4>1
    <3> QED
      BY <3>1, <3>2
  <2> HIDE DEF escapes
  <2> QED
    BY <1>3, <2>3, <2>4, PrintedType
<1> HIDE DEF shown
<1>5. LineHides([raw |-> raw, shown |-> shown])
  BY <1>1, <1>2, <1>4, LineIsHidden DEF H, D
<1> QED
  BY <1>5 DEF LocationLine, raw, shown, text, H, escapes

\* Nothing is reported before the end, and then only what hides the secrets:
\* NothingOfASecretShows.
THEOREM SecretsHidden == Spec => []NothingOfASecretShows
<1> DEFINE Quiet == main # "done" => report = {}
           J == IInv /\ Quiet /\ NothingOfASecretShows
<1>0. NothingOfASecretShows <=> \A line \in report : LineHides(line)
  BY DEF NothingOfASecretShows, LineHides
<1>1. Init => Quiet /\ NothingOfASecretShows
  BY <1>0 DEF Init
<1>2. ASSUME IInv, Quiet, NothingOfASecretShows, [Next]_vars
      PROVE  Quiet' /\ NothingOfASecretShows'
  <2>0. NothingOfASecretShows' <=> \A line \in report' : LineHides(line)'
    BY DEF NothingOfASecretShows, LineHides
  <2>1. case' = case /\ \A line : LineHides(line)' <=> LineHides(line)
    <3>1. case' = case
      BY <1>2 DEF Next, Record, NoAnswer, Replay, Visit, Report, vars
    <3> QED
      BY <3>1 DEF LineHides, Hidden
  <2>2. CASE Report
    <3>1. /\ main' = "done"
          /\ report' = {LocationLine(d) : d \in differences}
                       \cup {ValueLine(d, r) : d \in differences, r \in {baseline, observed}}
      BY <2>2 DEF Report
    <3>2. ASSUME NEW d \in differences PROVE Compared
      BY <1>2, <3>2, NoDifferenceYet
    <3>3. \A d \in differences : LineHides(LocationLine(d))
      BY <1>2, <3>2, LocationIsHidden
    <3>4. \A d \in differences : \A r \in {baseline, observed} : LineHides(ValueLine(d, r))
      BY <1>2, <3>2, ValueIsHidden
    <3>5. \A line \in report' : LineHides(line)
      BY <3>1, <3>3, <3>4
    <3> QED
      BY <2>0, <2>1, <3>1, <3>5
  <2>3. CASE ~Report
    <3>1. report' = report /\ (main' # "done" => main # "done")
      BY <1>2, <2>3 DEF Next, Record, NoAnswer, Replay, Visit, vars
    <3> QED
      BY <1>0, <1>2, <2>0, <2>1, <3>1
  <2> QED
    BY <2>2, <2>3
<1> QED
  BY <1>1, <1>2, InductiveInvariant, PTL DEF Spec
=============================================================================
