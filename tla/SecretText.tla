----------------------------- MODULE SecretText -----------------------------
(***************************************************************************)
(* Texts that may repeat a runtime secret in one of the ways it can be     *)
(* spelled, and the redactor of internal/cli/secret_headers.go, which      *)
(* takes them out of what Graybox prints.  A text is a sequence of         *)
(* characters; the marker <REDACTED> counts as one, and only a few         *)
(* characters stand for each class that some encoding treats differently.  *)
(***************************************************************************)
EXTENDS Integers, JSONDocument

Mark == "<REDACTED>"

\* What stands between two values and where one is cut off, each as one character that
\* no secret has.
Layout == "<layout>"
Ellipsis == "..."

\* The letters that have two cases here, and what is no part of a header name.
LowerCase == [c \in {"K", "X"} |-> IF c = "K" THEN "k" ELSE "x"]
UpperCase == [c \in {"k", "x"} |-> IF c = "k" THEN "K" ELSE "X"]
Separators == {"/", "\"", " ", "\\"}

\* A text with the characters in by spelled that way.
Spell(text, by) ==
    FlattenSeq([i \in DOMAIN text |-> IF text[i] \in DOMAIN by THEN by[text[i]] ELSE << text[i] >>])

PathEscapes ==
    [c \in {"/", "\"", " "} |-> <<"%", "2", CASE c = "/" -> "F" [] c = "\"" -> "2" [] OTHER -> "0">>]
QueryEscapes ==
    [c \in {"&", "/", "\"", " "} |->
        CASE c = "&" -> <<"%", "2", "6">> [] c = " " -> <<"+">> [] OTHER -> PathEscapes[c]]
JSONEscapes == [c \in {"\"", "\\"} |-> <<"\\", c>>]
HTMLEscapes ==
    [c \in {"&", "\"", "\\"} |-> IF c = "&" THEN <<"\\", "u", "0", "0", "2", "6">> ELSE JSONEscapes[c]]

\* lowerPercentEscapes.
LowerPercentEscapes(text) ==
    [i \in DOMAIN text |->
        IF text[i] = "F" /\ (\E k \in {1, 2} : i > k /\ text[i - k] = "%") THEN "f" ELSE text[i]]

Lower(text) == [i \in DOMAIN text |-> IF text[i] \in DOMAIN LowerCase THEN LowerCase[text[i]] ELSE text[i]]

\* http.CanonicalHeaderKey: capitals at the beginning and after a hyphen.
CanonicalName(text) ==
    [i \in DOMAIN text |->
        LET c == Lower(text)[i]
        IN  IF c \in DOMAIN UpperCase /\ (i = 1 \/ text[i - 1] = "-") THEN UpperCase[c] ELSE c]

HeaderName(text) == \A i \in DOMAIN text : text[i] \notin Separators

\* What newSecretRedactor looks for.
Spellings(secret) ==
    LET escaped == {Spell(secret, QueryEscapes), Spell(secret, PathEscapes)}
    IN  (IF HeaderName(secret) THEN {CanonicalName(secret), Lower(secret)} ELSE {})
        \cup escaped \cup {LowerPercentEscapes(e) : e \in escaped}
        \cup {Escape(secret), secret, Spell(secret, HTMLEscapes), Spell(secret, JSONEscapes)}

AllSpellings(secrets) == (UNION {Spellings(s) : s \in secrets}) \ {<< >>}

\* Mutant of Scrub: the shortest spelling that fits.
ScrubShortest(text, spellings) ==
    LET found(i) == {s \in spellings : IsPrefix(s, SubSeq(text, i, Len(text)))}
        rest[i \in 1 .. Len(text) + 1] ==
            IF i > Len(text) THEN << >>
            ELSE IF found(i) = {} THEN << text[i] >> \o rest[i + 1]
            ELSE << Mark >> \o rest[i + Min({Len(s) : s \in found(i)})]
    IN  rest[1]

\* strings.Replacer over the spellings, the longest first: from left to right, and
\* on with what follows a match.
Scrub(text, spellings) ==
    LET found(i) == {s \in spellings : IsPrefix(s, SubSeq(text, i, Len(text)))}
        rest[i \in 1 .. Len(text) + 1] ==
            IF i > Len(text) THEN << >>
            ELSE IF found(i) = {} THEN << text[i] >> \o rest[i + 1]
            ELSE << Mark >> \o rest[i + Max({Len(s) : s \in found(i)})]
    IN  rest[1]

\* Where spellings stand in a text, as intervals of its positions.
Occurrences(text, spellings) ==
    {i .. j : i, j \in DOMAIN text} \cap
    UNION {{i .. i + Len(s) - 1 : i \in {k \in DOMAIN text : IsPrefix(s, SubSeq(text, k, Len(text)))}} :
              s \in spellings}

\* One within the other, or apart.
Nested(intervals) ==
    \A a, b \in intervals : a \subseteq b \/ b \subseteq a \/ a \cap b = {}
=============================================================================
