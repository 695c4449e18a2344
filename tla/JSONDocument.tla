---------------------------- MODULE JSONDocument ----------------------------
(***************************************************************************)
(* JSON documents, the pointers that address their fields, and what        *)
(* internal/sanitize and internal/diff do with both.                       *)
(*                                                                         *)
(* A document is a function from its positions to what is there.  A        *)
(* position is the sequence of object keys and array indices that leads to *)
(* it, the root being the empty one; it is a tree because every prefix of  *)
(* a position is one.  Keys and pointers are texts, sequences of one-      *)
(* character strings, because the rules of diff compare pointers as text.  *)
(***************************************************************************)
EXTENDS Integers, Sequences, SequencesExt, FiniteSets, JSONNumber, Ordering

Root == << >>
RedactedValue == [type |-> "string", value |-> "<REDACTED>"]
Containers == {"object", "array"}

\* The positions at or below p.
Under(d, p) == {q \in DOMAIN d : IsPrefix(p, q)}

IsDocument(d) ==
    /\ DOMAIN d \subseteq Seq(Seq(STRING))
    /\ Root \in DOMAIN d
    /\ \A q \in DOMAIN d : q # Root =>
          Front(q) \in DOMAIN d /\ d[Front(q)].type \in Containers

-----------------------------------------------------------------------------
(* Pointers. *)

Substitute(text, char, by) ==
    FlattenSeq([i \in DOMAIN text |-> IF text[i] = char THEN by ELSE << text[i] >>])

\* Mutant of Escape: slashes first.
EscapeSlashFirst(token) ==
    Substitute(Substitute(token, "/", <<"~", "1">>), "~", <<"~", "0">>)

\* "~" becomes "~0", then "/" becomes "~1".
Escape(token) == Substitute(Substitute(token, "~", <<"~", "0">>), "/", <<"~", "1">>)

\* A pointer as sanitize.Pointer and validJSONPointer let it through: it begins with a
\* slash, and in it every "~" begins an escape.  Both refuse the empty one, which here
\* is the location of a whole component.
IsEscaped(token) ==
    \A i \in DOMAIN token : token[i] = "~" => i < Len(token) /\ token[i + 1] \in {"0", "1"}

IsPointer(pointer) == (pointer = << >> \/ pointer[1] = "/") /\ IsEscaped(pointer)

\* Back again, for the tokens of such a pointer.
Unescape(token) ==
    FlattenSeq([i \in DOMAIN token |->
        IF token[i] = "~" THEN << IF token[i + 1] = "1" THEN "/" ELSE "~" >>
        ELSE IF i > 1 /\ token[i - 1] = "~" THEN << >>
        ELSE << token[i] >>])

\* AppendJSONPointer along a position.
ToPointer(p) == FlattenSeq([k \in DOMAIN p |-> <<"/">> \o Escape(p[k])])

\* sanitize.Pointer: the position that a pointer names.
Position(pointer) ==
    LET slashes == Ascending({i \in DOMAIN pointer : pointer[i] = "/"})
        end(k)  == IF k < Len(slashes) THEN slashes[k + 1] - 1 ELSE Len(pointer)
    IN  [k \in DOMAIN slashes |-> Unescape(SubSeq(pointer, slashes[k] + 1, end(k)))]

-----------------------------------------------------------------------------
(* Redaction. *)

\* Mutant of Redact: what is below a field stays.
RedactFieldOnly(d, rules) ==
    LET fields == {Position(r) : r \in rules} \cap DOMAIN d
    IN  [q \in DOMAIN d |-> IF q \in fields THEN RedactedValue ELSE d[q]]

\* ReplaceJSON with a text for each rule: fields that exist are replaced, with
\* all there is below them.  An outer path comes first and leaves nothing for an
\* inner one to find.
Replace(d, by) ==
    LET fields == {Position(r) : r \in DOMAIN by} \cap DOMAIN d
        left   == {q \in DOMAIN d : \A f \in fields : ~IsStrictPrefix(f, q)}
        text(q) == by[CHOOSE r \in DOMAIN by : Position(r) = q]
    IN  [q \in left |->
            IF q \in fields THEN [type |-> "string", value |-> text(q)] ELSE d[q]]

\* ReplaceJSON with the marker.
Redact(d, rules) == Replace(d, [r \in rules |-> RedactedValue.value])

\* ExistingJSON: the rules whose field exists, ...
Existing(d, rules) == {r \in rules : Position(r) \in DOMAIN d}

\* ... and its error: a field above the one that is asked for was redacted.
HiddenBelowMarker(d, rules) ==
    \E r \in rules : \E q \in Prefixes(Position(r)) \ {Position(r)} :
        q \in DOMAIN d /\ d[q] = RedactedValue

\* markerPointers: where the marker stands.
MarkerPointers(d) == {ToPointer(q) : q \in {p \in DOMAIN d \ {Root} : d[p] = RedactedValue}}

-----------------------------------------------------------------------------
(* Comparison. *)

\* Rules.Ignores for the body: the whole of it, the location, or an ancestor.
IgnoresPointer(ignored, pointer) ==
    \E rule \in ignored :
        rule = << >> \/ rule = pointer \/ IsPrefix(Append(rule, "/"), pointer)

Ignored(ignored, p) == IgnoresPointer(ignored, ToPointer(p))

SameScalar(x, y) ==
    IF x.type = "number" THEN NumbersEqual(x.num, y.num) ELSE x = y

\* compareJSONValues goes into a pair of objects or of arrays, unless ignored.
Entered(b, c, ignored, p) ==
    /\ p \in DOMAIN b \cap DOMAIN c
    /\ b[p].type = c[p].type /\ b[p].type \in Containers
    /\ ~Ignored(ignored, p)

\* The positions it comes to: all containers above have been entered.
Reached(b, c, ignored) ==
    {p \in DOMAIN b \cup DOMAIN c :
        /\ ~Ignored(ignored, p)
        /\ \A q \in Prefixes(p) \ {p} : Entered(b, c, ignored, q)}

InObject(d, p) == d[Front(p)].type = "object"

\* Mutant of Verdict: what is missing counts as null.
VerdictMissingIsNull(b, c, p) ==
    IF p \notin DOMAIN b THEN IF c[p].type = "null" THEN "same" ELSE "field_added"
    ELSE IF p \notin DOMAIN c THEN IF b[p].type = "null" THEN "same" ELSE "field_removed"
    ELSE IF b[p].type # c[p].type THEN "type_changed"
    ELSE IF b[p].type \in Containers \/ SameScalar(b[p], c[p]) THEN "same"
    ELSE "value_changed"

\* What there is to say of a position: compareJSONValues, compareJSONObjects and
\* compareJSONArrays.
Verdict(b, c, p) ==
    IF p \notin DOMAIN b THEN IF InObject(c, p) THEN "field_added" ELSE "element_added"
    ELSE IF p \notin DOMAIN c THEN IF InObject(b, p) THEN "field_removed" ELSE "element_removed"
    ELSE IF b[p].type # c[p].type THEN "type_changed"
    ELSE IF b[p].type \in Containers \/ SameScalar(b[p], c[p]) THEN "same"
    ELSE "value_changed"

CompareDocuments(b, c, ignored) ==
    {[kind |-> Verdict(b, c, p), path |-> p] :
        p \in {q \in Reached(b, c, ignored) : Verdict(b, c, q) # "same"}}
=============================================================================
