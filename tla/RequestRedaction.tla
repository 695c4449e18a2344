-------------------------- MODULE RequestRedaction --------------------------
(***************************************************************************)
(* The request of one exchange, from the client to the upstream it is      *)
(* replayed to: captured and redacted by the recorder                      *)
(* (internal/sanitize), stored, rebuilt by internal/replay with the values *)
(* that were configured for redacted fields, and sent or refused.          *)
(*                                                                         *)
(* A path is the sequence of its segments: "/a/b" is <<"a", "b">>, "//a/b" *)
(* is <<"", "a", "b">>.  The paths "//" and those that begin with three    *)
(* slashes are left out.                                                   *)
(***************************************************************************)
EXTENDS JSONDocument, QueryValues

CONSTANTS HeaderNames,   \* lower case; the ones named below are among them
          Mandatory,     \* the headers that are always redacted
          Omitted,       \* the headers that are never replayed
          BadHosts,      \* segments that are no host and port
          Cases          \* bound: what is sent, configured and set,
                         \* and the path of the replay target

ContentType     == "content-type"
ContentEncoding == "content-encoding"
Connection      == "connection"
Groups == {"json", "query", "form"}

Empty    == [syntax |-> "empty", doc |-> << >>, pairs |-> << >>]
Opaque   == [Empty EXCEPT !.syntax = "binary"]     \* not UTF-8, or not all there
Withheld == [Empty EXCEPT !.syntax = "withheld"]   \* the text <REDACTED>
JSONBody(d) == [Empty EXCEPT !.syntax = "json", !.doc = d]
FormBody(pairs) == [Empty EXCEPT !.syntax = "form", !.pairs = pairs]

ASSUME NamesAssumption ==
    /\ {ContentType, ContentEncoding, Connection} \subseteq HeaderNames
    /\ HeaderNames \cap {"absent", Marker} = {}
    /\ Mandatory \subseteq HeaderNames \ {Connection} /\ Connection \in Omitted
    /\ "{}" \in Range(KeyOrder)

Syntaxes == {"empty", "json", "dup", "form", "binary", "withheld"}
Rules == [headers : SUBSET HeaderNames, json : SUBSET Seq(STRING),
          query : SUBSET STRING, form : SUBSET STRING]

IsRequest(r) ==
    /\ r.query \in RawTexts
    /\ r.headers \in [HeaderNames -> AnyText \cup {"absent"}]
    /\ r.body.syntax \in Syntaxes /\ r.body.pairs \in RawTexts
    /\ r.body.syntax # "form" => r.body.pairs = << >>
    /\ r.body.syntax \in {"json", "dup"} => IsDocument(r.body.doc)

\* What validateConfig lets through: pointers are not of the root, and no runtime
\* value is for a field at or below that of another.
IsConfigured(k) ==
    /\ k.capture \in Rules /\ k.current \in Rules
    /\ k.known \in BOOLEAN /\ k.diff \in BOOLEAN
    /\ \A g \in Groups : \A f \in DOMAIN k.values[g] : k.values[g][f] \in AnyText
    /\ \A n \in DOMAIN k.overrides : k.overrides[n] \in AnyText
    /\ DOMAIN k.values.json \subseteq Seq(STRING)
    /\ \A r \in k.capture.json \cup DOMAIN k.values.json : r # << >> /\ r[1] = "/"
    /\ \A r, s \in DOMAIN k.values.json : r # s => ~IsPrefix(Position(r), Position(s))

\* A client whose body is the marker itself is left out.
ASSUME CasesAssumption ==
    \A k \in Cases :
        /\ IsRequest(k.request) /\ IsConfigured(k)
        /\ k.request.body.syntax # "withheld"
        /\ k.whole \in BOOLEAN
        /\ Len(k.request.path) > 1 /\ k.request.path[1] = "" => k.request.path[2] # ""

VARIABLES
    case,    \* the request, the policies, and the values for its fields
    main,    \* how far it has come
    stored,  \* the recorded request
    out,     \* the request that is being built
    report,  \* the URLs shown to the user
    why      \* why it was refused

vars == <<case, main, stored, out, report, why>>

NoRequest == [path |-> << >>, query |-> << >>, headers |-> [n \in HeaderNames |-> "absent"],
              body |-> Empty]
Reasons == {"none", "url", "query", "body", "unclear", "novalue", "marker"}

TypeOK ==
    /\ case \in Cases
    /\ main \in {"capture", "build", "substitute", "check", "sent", "refused"}
    /\ why \in Reasons
    /\ main = "refused" <=> why # "none"
    /\ IsRequest(stored.request) /\ IsRequest(out)
    /\ stored.whole \in BOOLEAN
    /\ stored.request.body = Withheld => ~stored.whole

Init ==
    /\ case \in Cases
    /\ main = "capture"
    /\ stored = [request |-> NoRequest, whole |-> FALSE]
    /\ out = NoRequest
    /\ report = << >>
    /\ why = "none"

-----------------------------------------------------------------------------
(* URLs. *)

\* url.Parse takes what follows two slashes for a host; the server's own parser,
\* which reads request lines, does not.
Authority(path) == Len(path) > 1 /\ path[1] = ""

\* ... and fails if it cannot be one.
Unparsable(path) == Authority(path) /\ path[2] \in BadHosts

ParsedPath(path) == IF Authority(path) THEN SubSeq(path, 3, Len(path)) ELSE path

\* joinPath.
Join(left, right) ==
    LET base == IF left # << >> /\ Last(left) = "" THEN Front(left) ELSE left
    IN  base \o (IF right = << >> THEN << "" >> ELSE right)

RedactQuery(rules, query) ==
    IF rules.query = {} THEN query
    ELSE IF Malformed(query) THEN WithheldQuery
    ELSE ReplaceValues(query, Redactions(rules.query))

\* Rules.URL.
RedactURL(rules, url) ==
    IF rules.query # {} /\ Unparsable(url.path)
    THEN [path |-> << Marker >>, query |-> << >>]
    ELSE [path |-> url.path, query |-> RedactQuery(rules, url.query)]

URL(r) == [path |-> r.path, query |-> r.query]

-----------------------------------------------------------------------------
(* Capture. *)

\* A body as a form: the text of a JSON document is one key without a value.
AsForm(body) ==
    IF body.syntax \in {"json", "dup"} THEN << [Pair("{}", "") EXCEPT !.spelling = "raw"] >>
    ELSE body.pairs

\* It can be read as what its content type says.
ReadableJSON(body) == body.syntax = "json"
ReadableForm(body) == body.syntax # "binary" /\ ~Malformed(AsForm(body))

HasNoBodyRules(rules) == rules.json = {} /\ rules.form = {}

\* Rules.Body withholds a body the rules may be about and cannot be applied to.
Unsafe(rules, body, headers, whole) ==
    \/ ~whole
    \/ headers[ContentEncoding] # "absent"
    \/ headers[ContentType] \notin {"json", "form"}
    \/ headers[ContentType] = "json" /\ rules.json # {} /\ ~ReadableJSON(body)
    \/ headers[ContentType] = "form" /\ rules.form # {} /\ ~ReadableForm(body)

\* Rules.Body.
RedactBody(rules, body, headers, whole) ==
    IF body = Empty \/ HasNoBodyRules(rules) THEN body
    ELSE IF Unsafe(rules, body, headers, whole) THEN Withheld
    ELSE IF headers[ContentType] = "json" /\ rules.json # {}
    THEN JSONBody(Redact(body.doc, rules.json))
    ELSE IF headers[ContentType] = "form" /\ rules.form # {}
    THEN FormBody(ReplaceValues(AsForm(body), Redactions(rules.form)))
    ELSE body

\* Rules.ApplyHeaders.
RedactHeaders(rules, headers) ==
    [n \in HeaderNames |->
        IF headers[n] # "absent" /\ n \in Mandatory \cup rules.headers THEN Marker
        ELSE headers[n]]

\* What persistExchange makes of the request: the body goes by the headers as they came.
Recorded ==
    LET r    == case.request
        url  == RedactURL(case.capture, URL(r))
        read == IF case.whole THEN r.body ELSE Opaque
        body == RedactBody(case.capture, read, r.headers, case.whole)
    IN  [request |-> [path |-> url.path, query |-> url.query,
                      headers |-> RedactHeaders(case.capture, r.headers), body |-> body],
         whole   |-> case.whole /\ body # Withheld]

Capture ==
    /\ main = "capture"
    /\ stored' = Recorded
    /\ main' = "build"
    /\ UNCHANGED <<case, out, report, why>>

-----------------------------------------------------------------------------
(* Replay. *)

Refuse(reason) == main' = "refused" /\ why' = reason

\* The policy of runEach for queries: configured, recorded, the fields that have
\* a value, and in diff those with a marker.
ProtectedKeys ==
    case.current.query \cup (IF case.known THEN case.capture.query ELSE {})
    \cup DOMAIN case.values.query
    \cup (IF case.diff /\ ~Unparsable(stored.request.path)
          THEN MarkedKeys(stored.request.query) ELSE {})

Policy == [case.current EXCEPT !.query = ProtectedKeys]

\* copyReplayHeaders and applyRequestHeaderOverrides.
OutgoingHeaders(headers) ==
    [n \in HeaderNames |->
        IF n \in DOMAIN case.overrides THEN case.overrides[n]
        ELSE IF n \in Omitted \/ n = headers[Connection] \/ headers[n] = Marker THEN "absent"
        ELSE headers[n]]

\* The request that execute makes, before anything is filled in.
Outgoing ==
    LET r == stored.request
    IN  [path |-> Join(case.prefix, ParsedPath(r.path)), query |-> r.query,
         headers |-> OutgoingHeaders(r.headers), body |-> r.body]

\* The URLs of a result: the recorded one, and the one below the target.
Shown ==
    << RedactURL(Policy, URL(stored.request)),
       [path |-> Outgoing.path, query |-> RedactQuery(Policy, Outgoing.query)] >>

QueryRefused == ProtectedKeys # {} /\ QueryWithheld(stored.request.query)

\* execute, up to the request it makes.
Build ==
    /\ main = "build"
    /\ IF Unparsable(stored.request.path)
       THEN report' = << Shown[1] >> /\ Refuse("url") /\ UNCHANGED out
       ELSE /\ report' = Shown
            /\ IF QueryRefused THEN Refuse("query") /\ UNCHANGED out
               ELSE IF ~stored.whole THEN Refuse("body") /\ UNCHANGED out
               ELSE out' = Outgoing /\ main' = "substitute" /\ UNCHANGED why
    /\ UNCHANGED <<case, stored>>

Given(group) == DOMAIN case.values[group]

\* Replacements.Applicable cannot tell which fields are there.
UnclearQuery(r) ==
    Given("query") # {} /\ (QueryWithheld(r.query) \/ Malformed(r.query))

UnclearBody(r) ==
    /\ r.body # Empty /\ (Given("json") # {} \/ Given("form") # {})
    /\ \/ r.headers[ContentEncoding] # "absent"
       \/ r.headers[ContentType] \notin {"json", "form"}
       \/ /\ r.headers[ContentType] = "json" /\ Given("json") # {}
          /\ (~ReadableJSON(r.body) \/ HiddenBelowMarker(r.body.doc, Given("json")))
       \/ r.headers[ContentType] = "form" /\ Given("form") # {} /\ ~ReadableForm(r.body)

\* The fields that are there.
Matched(r, group) ==
    IF group = "query" THEN Given("query") \cap Keys(r.query)
    ELSE IF r.body = Empty \/ r.headers[ContentType] # group THEN {}
    ELSE IF group = "json" /\ Given("json") # {} THEN Existing(r.body.doc, Given("json"))
    ELSE IF group = "form" /\ Given("form") # {} THEN Given("form") \cap Keys(AsForm(r.body))
    ELSE {}

By(r, group) == [f \in Matched(r, group) |-> case.values[group][f]]

\* Mutant of SubstitutedQuery: encoded afresh, with a replacement or without.
SubstitutedQueryAlways(r) ==
    IF Given("query") = {} THEN r.query ELSE ReplaceValues(r.query, By(r, "query"))

\* Without a field to replace the raw texts stay as they are.
SubstitutedQuery(r) ==
    IF Matched(r, "query") = {} THEN r.query ELSE ReplaceValues(r.query, By(r, "query"))

SubstitutedBody(r) ==
    IF Matched(r, "json") # {} THEN JSONBody(Replace(r.body.doc, By(r, "json")))
    ELSE IF Matched(r, "form") # {} THEN FormBody(ReplaceValues(AsForm(r.body), By(r, "form")))
    ELSE r.body

Substituted(r) == [r EXCEPT !.query = SubstitutedQuery(r), !.body = SubstitutedBody(r)]

ValueMissing(r) == \E group \in Groups : \E f \in Matched(r, group) : case.values[group][f] = ""

\* Replacements.apply, up to its last check.
Apply ==
    /\ main = "substitute"
    /\ IF UnclearQuery(out) \/ UnclearBody(out) THEN Refuse("unclear") /\ UNCHANGED out
       ELSE IF ValueMissing(out) THEN Refuse("novalue") /\ UNCHANGED out
       ELSE out' = Substituted(out) /\ main' = "check" /\ UNCHANGED why
    /\ UNCHANGED <<case, stored, report>>

\* Mutant of MarkersRemain: the query is not looked at.
MarkersRemainInBody(r) ==
    /\ r.headers[ContentEncoding] = "absent"
    /\ \/ /\ r.headers[ContentType] = "json" /\ ReadableJSON(r.body)
          /\ MarkerPointers(r.body.doc) # {}
       \/ r.headers[ContentType] = "form" /\ MarkedKeys(AsForm(r.body)) # {}

\* rejectRemainingMarkers: what WithRecordedQuery and WithRecordedMarkers find.
MarkersRemain(r) ==
    \/ MarkedKeys(r.query) # {}
    \/ /\ r.headers[ContentEncoding] = "absent"
       /\ \/ /\ r.headers[ContentType] = "json" /\ ReadableJSON(r.body)
             /\ MarkerPointers(r.body.doc) # {}
          \/ r.headers[ContentType] = "form" /\ MarkedKeys(AsForm(r.body)) # {}

Check ==
    /\ main = "check"
    /\ IF MarkersRemain(out) THEN Refuse("marker") ELSE main' = "sent" /\ UNCHANGED why
    /\ UNCHANGED <<case, stored, out, report>>

Next == Capture \/ Build \/ Apply \/ Check

Spec == Init /\ [][Next]_vars
-----------------------------------------------------------------------------
(* What the client's own request says. *)

Sent == case.request

\* The fields of the client's request, by what its content type is.
HasForm == Sent.headers[ContentType] = "form" /\ ReadableForm(Sent.body)
HasJSON == Sent.headers[ContentType] = "json" /\ ReadableJSON(Sent.body)

\* Who protects: the recorder; whoever runs the replay, for the URLs it shows.
Reported == case.current.query \cup Given("query") \cup (IF case.known THEN case.capture.query ELSE {})

\* No value of a field that the recorder protects is stored, also if it occurs
\* several times, is spelled differently or sits below a protected field; a text
\* in which fields cannot be told apart is not stored.  No URL that is shown has a
\* value that the recorder, the user of replay or a runtime value protects.
Shows(text, keys) ==
    IF Malformed(text) THEN keys # {} ELSE ~\A i \in DOMAIN text : text[i].key \in keys => text[i].value = Marker

ProtectedNowhere ==
    /\ main # "capture" =>
          LET r == stored.request
              fields == {Position(f) : f \in case.capture.json}
          IN  /\ ~Shows(r.query, case.capture.query)
              /\ \A n \in Mandatory \cup case.capture.headers : r.headers[n] \in {"absent", Marker}
              /\ Sent.headers[ContentType] = "form" /\ r.body # Empty =>
                    r.body = Withheld \/ ~Shows(AsForm(r.body), case.capture.form)
              /\ Sent.headers[ContentType] = "json" /\ r.body # Empty /\ fields # {} =>
                    \/ r.body = Withheld
                    \/ \A p \in DOMAIN r.body.doc : \A f \in fields :
                          IsPrefix(f, p) => r.body.doc[p] = RedactedValue
    /\ \A i \in DOMAIN report : ~Shows(report[i].query, case.capture.query \cup Reported)

\* What the replay should send: every field that has a runtime value with that
\* value, each time it occurs, and all others as the client had them.
RestoredPairs(text, by) ==
    [key \in Keys(text) |->
        [i \in DOMAIN Values(text, key) |-> IF key \in DOMAIN by THEN by[key] ELSE Values(text, key)[i]]]

RestoredDocument(d, by) ==
    LET replaced == {Position(f) : f \in DOMAIN by} \cap DOMAIN d
        kept     == {p \in DOMAIN d : \A f \in replaced : ~IsPrefix(f, p)}
    IN  {<< p, d[p] >> : p \in kept} \cup
        {<< Position(f), [type |-> "string", value |-> by[f]] >> :
            f \in {g \in DOMAIN by : Position(g) \in replaced}}

Content(d) == {<< p, d[p] >> : p \in DOMAIN d}

RestoredHeader(n) ==
    IF n \in DOMAIN case.overrides THEN case.overrides[n]
    ELSE IF \/ n \in Omitted \cup Mandatory \cup case.capture.headers
            \/ Sent.headers[n] = Marker
            \/ n = Sent.headers[Connection] /\ Connection \notin case.capture.headers
         THEN "absent"
    ELSE Sent.headers[n]

\* The content type was replayed as it was, so that both ends read the body alike.
SameType == RestoredHeader(ContentType) = Sent.headers[ContentType]

\* Nobody declared a plain body to be encoded, in which case it is not looked at.
StillPlain ==
    Sent.headers[ContentEncoding] = "absent" => RestoredHeader(ContentEncoding) = "absent"

\* What is sent is the client's request with the configured values in place of
\* redacted fields: nothing is lost, added or left as a marker by going through
\* the recording, whatever the spelling, the order and the number of its fields.  (For a path that
\* url.Parse cannot read see PathIsKept.)
SentIsRestored ==
    main = "sent" /\ ~Unparsable(Sent.path) =>
        /\ case.whole
        /\ \A n \in HeaderNames : out.headers[n] = RestoredHeader(n)
        /\ IF Malformed(Sent.query) THEN out.query = Sent.query
           ELSE ParseQuery(out.query) = RestoredPairs(Sent.query, case.values.query)
        /\ SameType /\ StillPlain =>
              /\ HasJSON => Content(out.body.doc) = RestoredDocument(Sent.body.doc, case.values.json)
              /\ HasForm => ParseQuery(AsForm(out.body)) =
                                RestoredPairs(AsForm(Sent.body), case.values.form)
              /\ ~HasJSON /\ ~HasForm => out.body = Sent.body

\* The path is the client's, below the path of the target.
PathIsKept == main = "sent" => out.path = Join(case.prefix, Sent.path)

NoBodyRules == HasNoBodyRules(case.capture) /\ Given("json") = {} /\ Given("form") = {}

\* Without rules for queries, and without a runtime value for one of its fields, a
\* query goes through recording and replay as it was spelled, malformed or not;
\* so does a body, and a path that is not taken for a host.
UntouchedIsVerbatim ==
    main = "sent" =>
        /\ case.capture.query \cup (Given("query") \cap Keys(Sent.query)) = {} => out.query = Sent.query
        /\ NoBodyRules => out.body = Sent.body
        /\ ~Authority(Sent.path) => out.path = Join(case.prefix, Sent.path)

\* Nothing stands in the way of the request: all of it was read, its texts decode
\* where rules look into them, and whatever was redacted has a runtime value.
Valued(group) == {f \in Given(group) : case.values[group][f] \notin {"", Marker}}

ResolvedPairs(text, group) ==
    \/ /\ case.capture[group] \cup Given(group) = {}
       /\ MarkedKeys(text) = {}
    \/ /\ ~Malformed(text)
       /\ (case.capture[group] \cap Keys(text)) \cup MarkedKeys(text) \subseteq Valued(group)
       /\ Given(group) \cap Keys(text) \subseteq Valued(group)

ResolvedDocument(d) ==
    LET valued == {Position(f) : f \in Valued("json")}
        open   == {Position(f) : f \in case.capture.json} \cup {p \in DOMAIN d : d[p] = RedactedValue}
    IN  /\ \A p \in open \cap DOMAIN d : \E f \in valued : IsPrefix(f, p)
        /\ Existing(d, Given("json")) \subseteq Valued("json")

Restorable ==
    /\ case.whole /\ ~Unparsable(Sent.path)
    /\ ResolvedPairs(Sent.query, "query")
    /\ ~(Keys(Sent.query) = {"redacted"} /\ "redacted" \in case.capture.query \cup MarkedKeys(Sent.query))
    /\ \/ Sent.body = Empty
       \/ /\ Sent.headers[ContentEncoding] = "absent" /\ SameType /\ StillPlain
          /\ \/ HasJSON /\ ResolvedDocument(Sent.body.doc)
             \/ HasForm /\ ResolvedPairs(AsForm(Sent.body), "form")
       \/ NoBodyRules /\ SameType /\ ~HasJSON /\ ~HasForm

\* A refusal has a reason in the request or in the configuration: a request that
\* can be restored is sent.
RestorableIsSent == main = "refused" => ~Restorable

-----------------------------------------------------------------------------
(* What makes these inductive: where a request stands says what it has passed. *)

\* It was recorded, and none of the refusals before the request was made applied.
BuildInv ==
    /\ main # "capture" => stored = Recorded
    /\ why = "url" => Unparsable(stored.request.path)
    /\ why = "query" => QueryRefused
    /\ why = "body" => ~stored.whole
    /\ main \in {"substitute", "check", "sent"} \/ why \in {"unclear", "novalue", "marker"} =>
          ~Unparsable(stored.request.path) /\ ~QueryRefused /\ stored.whole

\* What apply made of it, if it was clear and all values were there.
ApplyInv ==
    /\ main = "substitute" \/ why \in {"unclear", "novalue"} => out = Outgoing
    /\ why = "unclear" => UnclearQuery(Outgoing) \/ UnclearBody(Outgoing)
    /\ why = "novalue" => ValueMissing(Outgoing)
    /\ main \in {"check", "sent"} \/ why = "marker" =>
          /\ ~UnclearQuery(Outgoing) /\ ~UnclearBody(Outgoing) /\ ~ValueMissing(Outgoing)
          /\ out = Substituted(Outgoing)
    /\ why = "marker" => MarkersRemain(out)
    /\ main = "sent" => ~MarkersRemain(out)

ReportInv ==
    report = IF main \in {"capture", "build"} THEN << >>
             ELSE IF why = "url" THEN << Shown[1] >> ELSE Shown

IInv == TypeOK /\ BuildInv /\ ApplyInv /\ ReportInv
=============================================================================
