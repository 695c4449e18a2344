------------------------- MODULE MCRequestRedaction -------------------------
(* RequestRedaction for TLC: the cases it goes through.                      *)
EXTENDS RequestRedaction

MCKeyOrder == <<"a", "redacted", "token", "{}">>

Raw(key, value) == [Pair(key, value) EXCEPT !.spelling = "raw"]
Broken(key) == [Pair(key, "") EXCEPT !.spelling = "broken"]

\* Pairs in and out of order, repeated, empty, malformed, and with markers.
Texts == {
    << >>,
    << Pair("token", "s") >>,
    << Raw("token", "s"), Pair("a", "1"), Raw("token", "t") >>,
    << Raw("token", ""), Raw("a", "s") >>,
    << Pair("a", "1"), Broken("token") >>,
    << Pair("redacted", "s") >>,
    << Raw("redacted", "s"), Pair("a", "1") >>,
    << Raw("token", Marker), Pair("a", "1") >>,
    << Pair("redacted", Marker) >> }

PtrA      == <<"/", "a">>
PtrToken  == <<"/", "t">>
PtrAToken == <<"/", "a", "/", "t">>
Ptr0      == <<"/", "0">>

a == <<"a">>
t == <<"t">>
i0 == <<"0">>
Object == [type |-> "object"]
Array  == [type |-> "array"]
Text(s) == [type |-> "string", value |-> s]

Documents == {
    (Root :> Object) @@ (<<a>> :> Text("s")) @@ (<<t>> :> Text("1")),
    (Root :> Object) @@ (<<a>> :> Object) @@ (<<a, t>> :> Text("s")),
    (Root :> Object) @@ (<<a>> :> Object) @@ (<<a, t>> :> RedactedValue) @@ (<<t>> :> Text("s")),
    (Root :> Array) @@ (<<i0>> :> Text("s")),
    Root :> RedactedValue }

Bodies == {Empty, Opaque} \cup {JSONBody(d) : d \in Documents}
          \cup {[JSONBody((Root :> Object) @@ (<<a>> :> Text("s"))) EXCEPT !.syntax = "dup"]}
          \cup {FormBody(p) : p \in Texts \ {<< >>}}

Headers(type, encoding, connection, secret, token) ==
    (ContentType :> type) @@ (ContentEncoding :> encoding) @@ (Connection :> connection)
    @@ ("authorization" :> secret) @@ ("x-token" :> token)

Request(path, query, headers, body) ==
    [path |-> path, query |-> query, headers |-> headers, body |-> body]
RulesFor(headers, json, query, form) ==
    [headers |-> headers, json |-> json, query |-> query, form |-> form]
ValuesOf(json, query, form) == [json |-> json, query |-> query, form |-> form]

None == << >>
NoRules == RulesFor({}, {}, {}, {})
Bare == Headers("absent", "absent", "absent", "absent", "absent")

QueryCases ==
    [request   : {Request(p, q, Bare, Empty) :
                     p \in {<<"">>, <<"p">>, <<"", "h", "p">>, <<"", "bad", "p">>}, q \in Texts},
     capture   : {RulesFor({}, {}, q, {}) : q \in {{}, {"token"}, {"token", "redacted"}}},
     current   : {NoRules, RulesFor({}, {}, {"a"}, {})},
     known     : BOOLEAN, diff : BOOLEAN, whole : {TRUE},
     values    : {ValuesOf(None, q, None) :
                     q \in {None, "token" :> "v", "token" :> "", "token" :> Marker, ("token" :> "v") @@ ("redacted" :> "v")}},
     overrides : {None},
     prefix    : {<< >>, <<"api", "">>}]

BodyCases ==
    [request   : {Request(<<"p">>, << >>, Headers(type, encoding, "absent", "absent", "absent"), body) :
                     type \in {"json", "form", "other"}, encoding \in {"absent", "gzip"}, body \in Bodies},
     capture   : {RulesFor({}, j, {}, f) : j \in {{}, {PtrA}, {PtrA, PtrAToken, Ptr0}}, f \in {{}, {"token"}}},
     current   : {NoRules}, known : {TRUE}, diff : {FALSE}, whole : BOOLEAN,
     values    : {ValuesOf(j, None, f) :
                     j \in {None, (PtrA :> "v") @@ (Ptr0 :> "v"), (PtrAToken :> "v") @@ (PtrToken :> "")},
                     f \in {None, "token" :> "v"}},
     overrides : {None} \cup {ContentType :> type : type \in {"json", "form"}},
     prefix    : {<< >>}]

HeaderCases ==
    [request   : {Request(<<"p">>, << >>, Headers("json", encoding, connection, "s", token),
                          JSONBody((Root :> Object) @@ (<<a>> :> Text("s")))) :
                     encoding \in {"absent", "gzip"}, connection \in {"absent", "x-token"},
                     token \in {"absent", "s", Marker}},
     capture   : {RulesFor(h, j, {}, {}) :
                     h \in {{}, {"x-token"}, {ContentType}, {ContentEncoding}, {Connection}}, j \in {{}, {PtrA}}},
     current   : {NoRules}, known : {TRUE}, diff : {FALSE}, whole : {TRUE},
     values    : {ValuesOf(j, None, None) : j \in {None, PtrA :> "v"}},
     overrides : {None, "x-token" :> "v", "authorization" :> "v", ContentType :> "json",
                  ContentEncoding :> "gzip"},
     prefix    : {<< >>}]

MCCases == QueryCases \cup BodyCases \cup HeaderCases
=============================================================================
