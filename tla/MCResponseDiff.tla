--------------------------- MODULE MCResponseDiff ---------------------------
(* ResponseDiff for TLC: the cases it goes through.                          *)
EXTENDS ResponseDiff

\* Keys, and rules as they are written in a configuration or after --ignore.
a  == <<"a">>
b  == <<"b">>
ab == <<"a", "b">>
slash == <<"/">>
tilde == <<"~", "1">>
i0 == <<"0">>
i1 == <<"1">>
PtrA     == <<"/", "a">>
PtrAB    == <<"/", "a", "/", "b">>
Ptr0     == <<"/", "0">>
PtrSlash == <<"/", "~", "1">>

Object == [type |-> "object"]
Array  == [type |-> "array"]
Null   == [type |-> "null"]
Text(s) == [type |-> "string", value |-> s]
Num(n) == [type |-> "number", num |-> n]

Documents == {
    Root :> Text("s"),
    Root :> RedactedValue,
    Root :> Object,
    (Root :> Object) @@ (<<a>> :> Null),
    (Root :> Object) @@ (<<a>> :> Text("s")),
    (Root :> Object) @@ (<<a>> :> RedactedValue),
    (Root :> Object) @@ (<<a>> :> Object) @@ (<<a, b>> :> Text("s")),
    (Root :> Object) @@ (<<a>> :> Object) @@ (<<a, b>> :> Null) @@ (<<ab>> :> Text("t")),
    (Root :> Object) @@ (<<a>> :> Array) @@ (<<a, i0>> :> Text("s")) @@ (<<i0>> :> Null),
    (Root :> Object) @@ (<<slash>> :> Text("s")) @@ (<<tilde>> :> Text("t")),
    (Root :> Object) @@ (<<slash>> :> Text("t")) @@ (<<tilde>> :> Text("t")),
    (Root :> Array) @@ (<<i0>> :> Text("s")),
    (Root :> Array) @@ (<<i0>> :> Text("s")) @@ (<<i1>> :> Null),
    (Root :> Array) @@ (<<i0>> :> Object) @@ (<<i0, a>> :> Text("s")) }

JSON(d) == [syntax |-> "json", doc |-> d]
Dup(d) == [syntax |-> "dup", doc |-> d]
Other(s) == [syntax |-> "other", doc |-> (Root :> Text(s))]

Response(status, type, h, cookie, body) ==
    [status |-> status, body |-> body,
     headers |-> ("content-type" :> type) @@ ("x-id" :> h) @@ ("set-cookie" :> cookie)
                 @@ ("date" :> h)]
Plain(body) == Response(200, "json", "1", "absent", body)

Rules(pointers, names) == [json |-> pointers, headers |-> names]
Body(p) == [component |-> "response.body", path |-> p]
IgnoreSets == {{}, {Body(PtrA)}, {Body(PtrAB), Body(PtrSlash)}, {Body(Ptr0)}, {Body(<< >>)}}

\* Any two documents, under rules of the recorder, of diff, or of both.
DocumentCases ==
    [recorded : {Plain(JSON(d)) : d \in Documents},
     answered : {Plain(JSON(d)) : d \in Documents},
     capture  : {Rules({}, {}), Rules({PtrA}, {}), Rules({PtrA, PtrAB, Ptr0}, {})},
     current  : {Rules({}, {}), Rules({PtrAB}, {})},
     known    : BOOLEAN,
     ignore   : IgnoreSets,
     secrets  : {{}}, json : {FALSE}]

\* Numbers of up to two places, as they can be written.
Numbers == [neg : BOOLEAN, int : {<<0>>, <<1>>, <<1, 0>>}, frac : {<< >>, <<0>>, <<1>>, <<0, 1>>},
            exp : {-1, 0, 1}]

NumberCases ==
    [recorded : {Plain(JSON(Root :> Num(n))) : n \in Numbers},
     answered : {Plain(JSON(Root :> Num(n))) : n \in Numbers},
     capture  : {Rules({}, {})}, current : {Rules({}, {})}, known : {TRUE}, ignore : {{}},
     secrets  : {{}, {<<"1", "0">>}}, json : BOOLEAN]

\* Statuses, headers, content types, and bodies that are not plain JSON.
Bodies == {Empty, Other("s"), Other("t"), Dup((Root :> Object) @@ (<<a>> :> Text("s"))),
           JSON((Root :> Object) @@ (<<a>> :> Text("s"))),
           JSON((Root :> Object) @@ (<<a>> :> RedactedValue))}
Responses ==
    {Response(200, type, h, "absent", body) :
        type \in {"json", "other"}, h \in {"1", "absent"}, body \in Bodies}
    \cup {Response(500, "form", "2", cookie, Other("s")) : cookie \in {"1", "2"}}
    \cup {Response(200, "form", "1", "absent", JSON((Root :> Object) @@ (<<a>> :> Text(s)))) :
             s \in {"s", "t"}}

ResponseCases ==
    [recorded : Responses, answered : Responses,
     capture  : {Rules({PtrA}, {"x-id"}), Rules({PtrA}, {"content-type"}), Rules({}, {"x-id"})},
     current  : {Rules({}, {}), Rules({PtrA}, {})},
     known    : BOOLEAN,
     ignore   : {{}, {Body(<< >>)}, {[component |-> "response.status", path |-> << >>],
                                     [component |-> "response.headers", path |-> <<"content-type">>]},
                 {[component |-> "response.headers", path |-> << >>]}},
     secrets  : {{}}, json : {FALSE}]

\* Upstreams that repeat a secret: a password with characters that encodings treat
\* differently, a token and a template around it, the name of a header.
Password == <<"s", "/", "~", "&", "\"">>
Token    == <<"t">>
Template == <<"t", " ", "b">>
Name     == <<"X", "-", "k">>
MCSecrets == {{Password}, {Token, Template}, {Name}}

Echoes == AllSpellings({Password, Token, Template, Name})
Echo == FoldSet(LAMBDA e, list : Append(list, e), << >>, Echoes)
EchoNames == [i \in DOMAIN Echo |-> "echo" \o ToString(i)]

\* Alone, and after some text of the application's own.
MCLetters ==
    [n \in {EchoNames[i] : i \in DOMAIN Echo} |->
        Echo[CHOOSE i \in DOMAIN Echo : EchoNames[i] = n] \o <<"o">>]
    @@ [n \in {"late" \o EchoNames[i] : i \in DOMAIN Echo} |->
        <<"o", "o", "o">> \o Echo[CHOOSE i \in DOMAIN Echo : "late" \o EchoNames[i] = n]]
    @@ ("x-id" :> <<"x", "-", "k">>)

EchoCases ==
    [recorded : {Plain(JSON((Root :> Object) @@ (<<a>> :> Null)))},
     answered : {Plain(JSON((Root :> Object) @@ (<<a>> :> Text(n)))) : n \in DOMAIN MCLetters}
                \cup {Plain(JSON((Root :> Object) @@ (<<e>> :> Text("s")))) : e \in Echoes}
                \cup {Plain(JSON((Root :> Object) @@ (<<a>> :> Object) @@ (<<a, e>> :> Null))) : e \in Echoes}
                \cup {Response(200, "json", n, "absent", Empty) : n \in DOMAIN MCLetters},
     capture  : {Rules({}, {})}, current : {Rules({}, {})}, known : {TRUE}, ignore : {{}},
     secrets  : MCSecrets, json : BOOLEAN]

MCCases == DocumentCases \cup NumberCases \cup ResponseCases \cup EchoCases
=============================================================================
