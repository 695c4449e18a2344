---------------------------- MODULE ResponseDiff ----------------------------
(***************************************************************************)
(* The response of one exchange, from the upstream that was recorded to    *)
(* the verdict of `graybox diff`: captured up to a limit and redacted by   *)
(* the policy of the recorder, stored, obtained again from another         *)
(* upstream, redacted by the policies that diff knows of, and compared.    *)
(*                                                                         *)
(* A body is empty, unambiguous JSON, JSON with duplicate keys ("dup"), or *)
(* anything else; the content type says what redaction takes it for.       *)
(***************************************************************************)
EXTENDS JSONDocument, SecretText

CONSTANTS HeaderNames,   \* lower case; "content-type" is one of them
          Mandatory,     \* the headers that are always redacted
          DefaultIgnored,\* the headers diff never compares
          CaptureLimit,  \* bytes of a body that are kept
          DisplayLimit,  \* characters of a value that are shown to humans
          Letters,       \* the characters of texts that have more than one
          Cases          \* bound: what is recorded, answered and configured

ContentType == "content-type"
Component == {"response.status", "response.headers", "response.body"}

Withheld == [syntax |-> "other", doc |-> (Root :> RedactedValue)]
Empty == [syntax |-> "empty", doc |-> << >>]

\* The bytes a body takes: what the limit applies to.
Size(body) == Cardinality(DOMAIN body.doc)

ASSUME NamesAssumption ==
    /\ ContentType \in HeaderNames
    /\ Mandatory \subseteq HeaderNames \ {ContentType}
    /\ DefaultIgnored \subseteq HeaderNames
ASSUME LimitAssumption == CaptureLimit \in Nat \ {0} /\ DisplayLimit \in Nat

Syntax == {"empty", "json", "dup", "other"}

\* What stands at a position: a container, a number with its text, or something else.
IsNode(x) ==
    /\ x.type \in Containers => x = [type |-> x.type]
    /\ x.type = "number" => x.num \in Number

IsBody(body) ==
    /\ body.syntax \in Syntax
    /\ body.syntax \in {"json", "dup"} =>
          IsDocument(body.doc) /\ \A p \in DOMAIN body.doc : IsNode(body.doc[p])

\* Rules and ignored locations are as the configuration and the command line let them
\* through.
ASSUME CasesAssumption ==
    \A k \in Cases :
        /\ \A r \in {k.recorded, k.answered} :
              DOMAIN r.headers = HeaderNames /\ IsBody(r.body) /\ IsFiniteSet(DOMAIN r.body.doc)
        /\ \A p \in {k.capture, k.current} :
              /\ p.headers \subseteq HeaderNames /\ p.json \subseteq Seq(STRING)
              /\ \A rule \in p.json : rule # << >> /\ IsPointer(rule)
        /\ k.known \in BOOLEAN
        /\ \A l \in k.ignore :
              l.component = "response.body" => l.path \in Seq(STRING) /\ IsPointer(l.path)
ASSUME LettersAssumption == \A s \in DOMAIN Letters : Letters[s] \in Seq(STRING)
ASSUME SecretsAssumption ==
    \A k \in Cases : \A s \in k.secrets :
        s \in Seq(STRING) /\ {Layout, Ellipsis} \cap Range(s) = {}

VARIABLES
    case,         \* the two responses, the policies and the ignore rules
    main,         \* how far the exchange has come
    baseline,     \* the recorded response: as stored, then as compared
    policy,       \* the redaction that diff applies
    observed,     \* the answer, as the runner hands it over
    differences,  \* the Comparison
    outcome,      \* the Outcome
    report        \* the texts that diff prints of it, with what they stand for

vars == <<case, main, baseline, policy, observed, differences, outcome, report>>

NoResponse == [status |-> 0, headers |-> [n \in HeaderNames |-> "absent"], body |-> Empty,
               truncated |-> FALSE, complete |-> FALSE]
NoPolicy == [json |-> {}, headers |-> {}]

TypeOK ==
    /\ case \in Cases
    /\ main \in {"record", "replay", "compare", "report", "done"}
    /\ \A r \in {baseline, observed} :
          /\ DOMAIN r.headers = HeaderNames /\ IsBody(r.body)
          /\ r.truncated \in BOOLEAN /\ r.complete \in BOOLEAN
    /\ policy.headers \subseteq HeaderNames
    /\ \A d \in differences : d.component \in Component
    /\ outcome \in {"none", "equivalent", "changed", "failed"}

Init ==
    /\ case \in Cases
    /\ main = "record"
    /\ baseline = NoResponse
    /\ policy = NoPolicy
    /\ observed = NoResponse
    /\ differences = {}
    /\ outcome = "none"
    /\ report = {}

-----------------------------------------------------------------------------
(* Redaction of a response. *)

\* Rules.Body: withheld if rules cannot be applied to all of it; rules for JSON
\* leave forms alone.
RedactBody(rules, body, type, whole) ==
    IF rules = {} \/ body = Empty THEN body
    ELSE IF ~whole THEN Withheld
    ELSE IF type = "form" THEN body
    ELSE IF type # "json" \/ body.syntax # "json" THEN Withheld
    ELSE [syntax |-> "json", doc |-> Redact(body.doc, rules)]

\* Rules.ApplyHeaders.
RedactHeaders(rules, headers) ==
    [n \in HeaderNames |->
        IF headers[n] # "absent" /\ n \in Mandatory \cup rules THEN "marker" ELSE headers[n]]

\* Rules.CaptureBody and ApplyHeaders: the body goes by the headers as they came,
\* and one that is withheld is incomplete.
Sanitize(p, r) ==
    LET body == RedactBody(p.json, r.body, r.headers[ContentType], r.complete /\ ~r.truncated)
    IN  [r EXCEPT !.headers = RedactHeaders(p.headers, r.headers), !.body = body,
                  !.complete = r.complete /\
                      ~(body = Withheld /\ p.json # {} /\ r.body # Empty)]

\* A body as it was read, up to the limit, until its end or until it broke off.
Capture(r, broken) ==
    LET cut == Size(r.body) > CaptureLimit
    IN  [status |-> r.status, headers |-> r.headers,
         body |-> IF cut \/ broken THEN [syntax |-> "other", doc |-> (Root :> [type |-> "part"])]
                  ELSE r.body,
         truncated |-> cut, complete |-> ~broken]

\* Rules.Merge.
Merge(p, q) == [json |-> p.json \cup q.json, headers |-> p.headers \cup q.headers]

\* Mutant of WithRecordedMarkers: it infers nothing.
WithoutMarkers(p, r) == p

\* Rules.WithRecordedMarkers: what the recording shows to have been redacted.
WithRecordedMarkers(p, r) ==
    Merge(p, [json    |-> IF r.headers[ContentType] = "json" /\ r.body.syntax = "json"
                          THEN MarkerPointers(r.body.doc) ELSE {},
              headers |-> {n \in HeaderNames \ Mandatory : r.headers[n] = "marker"}])

-----------------------------------------------------------------------------
(* Comparison of two responses. *)

Ignore(component) == {l.path : l \in {m \in case.ignore : m.component = component}}

\* All of a component is ignored by the location without a path.
IgnoresAll(component) == << >> \in Ignore(component)

CompareStatus(b, c) ==
    IF IgnoresAll("response.status") \/ b.status = c.status THEN {}
    ELSE {[component |-> "response.status", kind |-> "status_changed", path |-> << >>]}

HeaderVerdict(x, y) ==
    IF x = "absent" THEN "header_added"
    ELSE IF y = "absent" THEN "header_removed" ELSE "header_changed"

CompareHeaders(b, c) ==
    {[component |-> "response.headers", kind |-> HeaderVerdict(b.headers[n], c.headers[n]),
      path |-> << n >>] :
        n \in {m \in HeaderNames \ DefaultIgnored :
                  /\ ~IgnoresAll("response.headers") /\ << m >> \notin Ignore("response.headers")
                  /\ b.headers[m] # c.headers[m]}}

\* ensureComparableBody.
Comparable(r) == r.complete /\ ~r.truncated

\* compareBody fails: a body that counts is not all there.
BodyUnavailable(b, c) ==
    ~IgnoresAll("response.body") /\ ~(Comparable(b) /\ Comparable(c))

\* decodeJSON takes duplicate keys as well.
IsJSON(body) == body.syntax \in {"json", "dup"}

CompareBody(b, c) ==
    IF IgnoresAll("response.body") \/ BodyUnavailable(b, c) \/ b.body = c.body THEN {}
    ELSE IF IsJSON(b.body) /\ IsJSON(c.body)
    THEN {[component |-> "response.body", kind |-> d.kind, path |-> d.path] :
             d \in CompareDocuments(b.body.doc, c.body.doc, Ignore("response.body"))}
    ELSE {[component |-> "response.body", kind |-> "body_changed", path |-> Root]}

Compare(b, c) == CompareStatus(b, c) \cup CompareHeaders(b, c) \cup CompareBody(b, c)

-----------------------------------------------------------------------------
(* What diff prints of a difference.  A value is printed as the keys and scalars *)
(* it has, in some order; layout and error messages are left out.                *)

Characters(s) == IF s \in DOMAIN Letters THEN Letters[s] ELSE << s >>

DigitText(ds) == [i \in DOMAIN ds |-> ToString(ds[i])]
NumberText(n) == (IF n.neg THEN <<"-">> ELSE << >>) \o DigitText(n.int) \o <<".">> \o DigitText(n.frac)
                 \o <<"e", ToString(n.exp)>>

Piece(role, text) == << [role |-> role, text |-> text] >>

ScalarPieces(x) ==
    IF x.type = "string" THEN Piece("string", Characters(x.value))
    ELSE IF x.type = "number" THEN Piece("number", NumberText(x.num))
    ELSE << >>

Pieces(d, p) ==
    LET below == SetToSeq(Under(d, p))
        keyOf(q) == IF q # p /\ InObject(d, q) THEN Piece("key", Last(q)) ELSE << >>
    IN  FlattenSeq([i \in DOMAIN below |-> keyOf(below[i]) \o ScalarPieces(d[below[i]])])

\* Before or After of a difference.  Statuses and body snapshots are numbers of
\* Graybox's own.
Data(d, r) ==
    IF d.component = "response.headers" /\ r.headers[d.path[1]] # "absent"
    THEN Piece("string", IF r.headers[d.path[1]] = "marker" THEN << Mark >>
                         ELSE Characters(r.headers[d.path[1]]))
    ELSE IF d.component = "response.body" /\ d.kind # "body_changed" /\ d.path \in DOMAIN r.body.doc
    THEN Pieces(r.body.doc, d.path)
    ELSE << >>

LocationText(d) ==
    IF d.component = "response.headers" THEN Characters(d.path[1]) ELSE ToPointer(d.path)

\* newSecretRedactor, of all the values that were used.
Hidden == AllSpellings(case.secrets)

\* redactData: a number that has a secret in it becomes the marker.
ScrubData(pieces) ==
    [i \in DOMAIN pieces |->
        LET text == Scrub(pieces[i].text, Hidden)
        IN  IF pieces[i].role # "number" THEN [pieces[i] EXCEPT !.text = text]
            ELSE IF text = pieces[i].text THEN pieces[i]
            ELSE [role |-> "string", text |-> << Mark >>]]

Printed(pieces, escapes) ==
    FlattenSeq([i \in DOMAIN pieces |->
        (IF pieces[i].role = "number" THEN pieces[i].text ELSE Spell(pieces[i].text, escapes))
        \o << Layout >>])

\* truncateDiffDisplay.
Truncate(text) ==
    IF Len(text) <= DisplayLimit THEN text ELSE SubSeq(text, 1, DisplayLimit) \o << Ellipsis >>

\* Mutant of ShownToHumans: all scrubbing is left to the end.
ShownUnscrubbed(pieces) == Scrub(Truncate(Printed(pieces, HTMLEscapes)), Hidden)

\* formatDiffValue of scrubbed data, and writeOutput, which scrubs once more.
ShownToHumans(pieces) == Scrub(Truncate(Printed(ScrubData(pieces), HTMLEscapes)), Hidden)

\* writeJSON of scrubbed data, and redactJSON, which scrubs strings but no keys.
ShownAsJSON(pieces) ==
    LET data == ScrubData(pieces)
    IN  Printed([i \in DOMAIN data |->
                    IF data[i].role = "string" THEN [data[i] EXCEPT !.text = Scrub(@, Hidden)]
                    ELSE data[i]], JSONEscapes)

Shown(pieces) == IF case.json THEN ShownAsJSON(pieces) ELSE ShownToHumans(pieces)

\* A location or a value of a difference as it was received, and as it is printed.
LocationLine(d) ==
    [raw |-> LocationText(d),
     shown |-> Printed(Piece("string", Scrub(LocationText(d), Hidden)),
                       IF case.json THEN JSONEscapes ELSE << >>)]

ValueLine(d, r) == [raw |-> Printed(Data(d, r), << >>), shown |-> Shown(Data(d, r))]

-----------------------------------------------------------------------------
(* The steps. *)

\* What the recorder makes of the response.
Stored(broken) == Sanitize(case.capture, Capture(case.recorded, broken))

\* The recorder captures and redacts the response, and stores it.
Record ==
    /\ main = "record"
    /\ \E broken \in BOOLEAN : baseline' = Stored(broken)
    /\ main' = "replay"
    /\ UNCHANGED <<case, policy, observed, differences, outcome, report>>

\* The policy that runEach uses for a recording: the configured one, the recorded one
\* if diff found it, and what the markers show.
EffectiveFor(r) ==
    WithRecordedMarkers(IF case.known THEN Merge(case.current, case.capture) ELSE case.current, r)

\* What execute makes of the answer.
Answer(p, broken) == Sanitize(p, Capture(case.answered, broken))

\* No response: the replay failed.
NoAnswer ==
    /\ main = "replay"
    /\ policy' = EffectiveFor(baseline)
    /\ outcome' = "failed"
    /\ main' = "report"
    /\ UNCHANGED <<case, baseline, observed, differences, report>>

\* execute reads the answer; a read that breaks off is an error of the replay.
Replay ==
    /\ main = "replay"
    /\ policy' = EffectiveFor(baseline)
    /\ \E broken \in BOOLEAN :
          /\ observed' = Answer(policy', broken)
          /\ outcome' = IF broken THEN "failed" ELSE "none"
    /\ main' = "compare"
    /\ UNCHANGED <<case, baseline, differences, report>>

\* The outcome of a comparison; the exchange may have failed before.
Judged(failed, b, c) ==
    IF failed \/ BodyUnavailable(b, c) THEN "failed"
    ELSE IF Compare(b, c) = {} THEN "equivalent" ELSE "changed"

\* Mutant of Visit: the baseline is compared as it was stored.
VisitStored ==
    /\ main = "compare"
    /\ differences' = Compare(baseline, observed)
    /\ outcome' = Judged(outcome = "failed", baseline, observed)
    /\ main' = "report"
    /\ UNCHANGED <<case, policy, baseline, observed, report>>

\* runEach normalizes the baseline and visits; compareExecution keeps what could
\* be compared even when the exchange failed.
Visit ==
    /\ main = "compare"
    /\ baseline' = Sanitize(policy, baseline)
    /\ differences' = Compare(baseline', observed)
    /\ outcome' = Judged(outcome = "failed", baseline', observed)
    /\ main' = "report"
    /\ UNCHANGED <<case, policy, observed, report>>

\* runDiff prints where the responses differ, and both values.
Report ==
    /\ main = "report"
    /\ report' = {LocationLine(d) : d \in differences}
                 \cup {ValueLine(d, r) : d \in differences, r \in {baseline, observed}}
    /\ main' = "done"
    /\ UNCHANGED <<case, policy, baseline, observed, differences, outcome>>

Next == Record \/ NoAnswer \/ Replay \/ Visit \/ Report

Spec == Init /\ [][Next]_vars

-----------------------------------------------------------------------------
(* What the verdict means, by the two responses as they came over the wire. *)

\* A value by what it says, not by how it is spelled.
Meaning(x) == IF x.type = "number" THEN [type |-> "number", num |-> Value(x.num)] ELSE x

\* What counts of a document: nothing that is ignored, and of what is redacted
\* only that it is there.
Visible(d) ==
    LET hidden == {Position(r) : r \in policy.json}
        shown  == {p \in DOMAIN d :
                     /\ \A r \in Ignore("response.body") : ~IsPrefix(Position(r), p)
                     /\ \A h \in hidden \cap DOMAIN d : ~IsStrictPrefix(h, p)}
    IN  {<< p, IF p \in hidden THEN RedactedValue ELSE Meaning(d[p]) >> : p \in shown}

SameBody(x, y) ==
    \/ IgnoresAll("response.body")
    \/ x = y
    \/ IsJSON(x) /\ IsJSON(y) /\ Visible(x.doc) = Visible(y.doc)

SameHeaders(x, y) ==
    \/ IgnoresAll("response.headers")
    \/ \A n \in HeaderNames :
          \/ n \in DefaultIgnored \/ << n >> \in Ignore("response.headers")
          \/ x[n] = y[n]
          \/ n \in Mandatory \cup policy.headers /\ x[n] # "absent" /\ y[n] # "absent"

SameBehavior(x, y) ==
    /\ x.status = y.status \/ IgnoresAll("response.status")
    /\ SameHeaders(x.headers, y.headers)
    /\ SameBody(x.body, y.body)

Fits(r) == Size(r.body) <= CaptureLimit

\* diff can tell what the recorder redacted in the body: it has the recorder's rules,
\* or finds the markers, which takes a content type that was not redacted itself.
Legible == case.known \/ case.capture.json = {} \/ ContentType \notin case.capture.headers

\* JSON that is served as a form, which rules for JSON leave alone.
Uninspected(r) == policy.json # {} /\ r.headers[ContentType] = "form" /\ IsJSON(r.body)

\* "equivalent" is only said of two responses that agree on everything that is
\* neither ignored nor redacted, and whose bodies were there in full, unless
\* they are ignored: whatever was cut off, withheld, or spelled differently.
EquivalentIsEarned ==
    outcome = "equivalent" /\ Legible =>
        /\ SameBehavior(case.recorded, case.answered)
        /\ IgnoresAll("response.body") \/ (Fits(case.recorded) /\ Fits(case.answered))

\* "changed" is only said of responses that really differ in something that
\* counts; a redaction that happened between them is not a change.
ChangedIsReal ==
    outcome = "changed" /\ Legible /\ ~Uninspected(case.recorded) /\ ~Uninspected(case.answered) =>
        ~SameBehavior(case.recorded, case.answered)

DifferencesOf(component) == {d.path : d \in {e \in differences : e.component = component}}
BodyDifferences == DifferencesOf("response.body")

\* What is protected: by the configured rules, by the recorder's if diff found
\* them, and otherwise by the markers they left in the recording.
Protected ==
    case.current.json \cup
    {r \in case.capture.json :
        \/ case.known
        \/ /\ case.recorded.body.syntax = "json"
           /\ case.recorded.headers[ContentType] = "json"
           /\ Position(r) \in DOMAIN case.recorded.body.doc
           /\ ContentType \notin case.capture.headers}

ProtectedHeaders ==
    Mandatory \cup case.current.headers \cup
    {n \in case.capture.headers : case.known \/ case.recorded.headers[n] # "absent"}

\* Of the response r, which the source sent, no protected value is in what diff reports,
\* unless it came in a form that redaction does not look into.
StaysHidden(r, source) ==
    /\ \A n \in ProtectedHeaders :
          << n >> \in DifferencesOf("response.headers") => r.headers[n] \in {"absent", "marker"}
    /\ IsJSON(r.body) /\ ~Uninspected(source) =>
          \A path \in BodyDifferences : \A p \in Under(r.body.doc, path) :
              \A rule \in Protected :
                  IsPrefix(Position(rule), p) => r.body.doc[p] = RedactedValue

\* What diff reports shows no value of either response that is protected.
ProtectedStaysHidden == StaysHidden(baseline, case.recorded) /\ StaysHidden(observed, case.answered)

\* The baseline with the answer's values where the differences are.
Patched(b, c) ==
    LET kept  == {p \in DOMAIN b : \A q \in BodyDifferences : ~IsPrefix(q, p)}
        taken == {p \in DOMAIN c : \E q \in BodyDifferences : IsPrefix(q, p)}
    IN  [p \in kept \cup taken |-> IF p \in kept THEN b[p] ELSE c[p]]

\* The differences in a body stand apart from each other, none of them is anywhere
\* that is ignored, and together they are all: the baseline with the answer's
\* values in these places is the answer, up to what is ignored.
DifferencesExplain ==
    /\ \A p \in BodyDifferences :
          /\ \A q \in BodyDifferences : ~IsStrictPrefix(q, p)
          /\ \A rule \in Ignore("response.body") : ~IsPrefix(Position(rule), p)
    /\ outcome \in {"equivalent", "changed"} /\ IsJSON(baseline.body) /\ IsJSON(observed.body)
          /\ ~IgnoresAll("response.body")
        => Visible(Patched(baseline.body.doc, observed.body.doc)) = Visible(observed.body.doc)

CharactersAt(text, places) == {text[i] : i \in places}
EscapeCharacters == {"\\", "u", "0", "2", "6", Mark}

\* Of a runtime secret that a text repeats, in any of the spellings that are known,
\* diff prints nothing at all, not even where the value is cut off: every character
\* it prints stands outside of the secrets too.  This holds where secrets lie one
\* within the other, as a value and its template do, but not where they overlap.
NothingOfASecretShows ==
    \A line \in report :
        LET found  == Occurrences(line.raw, Hidden)
            secret == UNION found
            public == CharactersAt(line.raw, DOMAIN line.raw \ secret)
        IN  Nested(found) =>
                CharactersAt(line.shown, DOMAIN line.shown)
                    \cap (CharactersAt(line.raw, secret) \ (public \cup EscapeCharacters)) = {}
=============================================================================
