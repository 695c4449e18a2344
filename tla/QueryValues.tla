----------------------------- MODULE QueryValues -----------------------------
(***************************************************************************)
(* Raw queries and form bodies, and what net/url and internal/sanitize do  *)
(* with them.                                                              *)
(*                                                                         *)
(* A raw text is the sequence of its pairs, each of them spelled the way   *)
(* url.Values.Encode spells it, in another way that decodes to the same    *)
(* (also a key without "="), or in a way that does not decode: a bad       *)
(* percent escape, or a semicolon.                                         *)
(***************************************************************************)
EXTENDS Integers, Sequences, SequencesExt, FiniteSets, Ordering

CONSTANT KeyOrder   \* the keys, in the order of their bytes

Marker == "<REDACTED>"
Spellings == {"encoded", "raw", "broken"}

\* No key is listed twice, and Graybox's own is among them.
ASSUME KeyOrderAssumption ==
    /\ KeyOrder \in Seq(STRING)
    /\ \A i, j \in DOMAIN KeyOrder : KeyOrder[i] = KeyOrder[j] => i = j
    /\ "redacted" \in Range(KeyOrder)

\* What a value can be.  The provers do not know of a literal that it is a string,
\* so those that the code writes itself are named.
AnyText == STRING \cup {Marker, ""}

RawTexts == Seq([key : Range(KeyOrder), value : AnyText, spelling : Spellings])

Pair(key, value) == [key |-> key, value |-> value, spelling |-> "encoded"]

Keys(text) == {text[i].key : i \in DOMAIN text}

\* url.ParseQuery returns an error.
Malformed(text) == \E i \in DOMAIN text : text[i].spelling = "broken"

\* Otherwise, what it returns: the values of each key, in their order.
Values(text, key) ==
    LET own == Ascending({i \in DOMAIN text : text[i].key = key})
    IN  [n \in DOMAIN own |-> text[own[n]].value]

ParseQuery(text) == [key \in Keys(text) |-> Values(text, key)]

\* The places of the values: the rank of a key, and an index into its values.
Slots(values) ==
    UNION {{k} \X DOMAIN values[KeyOrder[k]] : k \in {m \in DOMAIN KeyOrder : KeyOrder[m] \in DOMAIN values}}

\* url.Values.Encode: keys in order, each with its values.
Encode(values) ==
    LET slots == InOrder(Slots(values), Lexicographic(Slots(values)))
        key(n) == KeyOrder[slots[n][1]]
    IN  [n \in DOMAIN slots |-> Pair(key(n), values[key(n)][slots[n][2]])]

\* Mutant of ReplaceValues: the first value of a key, as url.Values.Set would.
ReplaceFirstValue(text, by) ==
    Encode([key \in Keys(text) |->
        [i \in DOMAIN Values(text, key) |->
            IF key \in DOMAIN by /\ i = 1 THEN by[key] ELSE Values(text, key)[i]]])

\* sanitize.ReplaceValues, for a text that decodes: every value of the keys of
\* `by`; the result is encoded afresh, whether it has such a key or not.
ReplaceValues(text, by) ==
    Encode([key \in Keys(text) |->
        [i \in DOMAIN Values(text, key) |->
            IF key \in DOMAIN by THEN by[key] ELSE Values(text, key)[i]]])

Redactions(rules) == [r \in rules |-> Marker]

\* The query that Rules.URL leaves of one that does not decode ...
WithheldQuery == << Pair("redacted", Marker) >>

\* Mutant of QueryWithheld: the key alone.
QueryWithheldByKey(text) ==
    ~Malformed(text) /\ Keys(text) = {"redacted"} /\ Len(text) = 1

\* ... and how it is recognized, however it is spelled.
QueryWithheld(text) ==
    ~Malformed(text) /\ Keys(text) = {"redacted"} /\ Values(text, "redacted") = << Marker >>

\* The keys that hold a marker: none can be seen in a text that does not decode.
MarkedKeys(text) ==
    IF Malformed(text) THEN {} ELSE {text[i].key : i \in {j \in DOMAIN text : text[j].value = Marker}}
=============================================================================
