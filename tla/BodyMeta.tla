------------------------------ MODULE BodyMeta ------------------------------
(***************************************************************************)
(* The size metadata Graybox keeps with every body, and what redaction     *)
(* does to it.  A body is abstracted to what the metadata can tell apart:  *)
(* its length, how many bytes of the wire body it stands for, and whether  *)
(* it is the wire bytes themselves, a sanitized rewriting of them, or the  *)
(* omission marker "<REDACTED>" put in their place.                        *)
(*                                                                         *)
(* internal/sanitize/fields.go decides the content and the sizes;          *)
(* internal/storage/repository.go refuses sizes that do not fit together.  *)
(***************************************************************************)
EXTENDS Integers

CONSTANTS MarkerLen,    \* length of the omission marker
          RewriteLens   \* lengths a sanitized rewriting can have

ASSUME MarkerAssumption == MarkerLen \in Nat \ {0}
ASSUME RewriteAssumption == RewriteLens \subseteq Nat

BodyKinds == {"wire", "rewritten", "marker"}
Body == [len : Nat, of : Nat, kind : BodyKinds]

\* The first n bytes of the wire body, and the two things that can replace them.
Wire(n) == [len |-> n, of |-> n, kind |-> "wire"]
Rewritten(b, n) == [len |-> n, of |-> b.of, kind |-> "rewritten"]
Marker == [len |-> MarkerLen, of |-> 0, kind |-> "marker"]

\* Rules.Body: every result it can have for body b.  rules says whether any
\* JSON or form rule is configured; a body that cannot be parsed safely is
\* withheld, one without a matching rule is kept, any other is rewritten.
Sanitized(b, rules, complete) ==
    IF b.len = 0 \/ ~rules THEN {b}
    ELSE IF ~complete THEN {Marker}
    ELSE {b, Marker} \cup {Rewritten(b, n) : n \in RewriteLens}

\* The bytes that were observed but are absent from the retained body b.
Omitted(b, observed, truncated) ==
    LET missing == IF observed > b.len THEN observed - b.len ELSE 0
    IN  IF truncated /\ missing = 0 THEN 1 ELSE missing

\* Mutant of CaptureBody: the sizes of the wire body are kept.
CaptureBodyWireSizes(b, observed, truncated, complete, rules, s) ==
    [ body     |-> s,
      observed |-> observed,
      complete |-> complete /\ ~(s = Marker /\ rules /\ b.len > 0) ]

\* Mutant of CaptureBody: any rewriting makes a body incomplete.
CaptureBodyRewrittenIncomplete(b, observed, truncated, complete, rules, s) ==
    [ body     |-> s,
      observed |-> IF s = b THEN observed
                   ELSE s.len + Omitted(b, observed, truncated),
      complete |-> complete /\ s = b ]

\* Rules.CaptureBody, once Rules.Body has turned b into s: the sizes describe
\* s plus the uncaptured wire bytes, and a withheld body is incomplete.
CaptureBody(b, observed, truncated, complete, rules, s) ==
    [ body     |-> s,
      observed |-> IF s = b THEN observed
                   ELSE s.len + Omitted(b, observed, truncated),
      complete |-> complete /\ ~(s = Marker /\ rules /\ b.len > 0) ]

\* validateBodyMetadata, and with it the CHECK constraints of schema 1.
ValidBodyMetadata(b, observed, truncated) ==
    /\ b.len <= observed
    /\ truncated <=> b.len < observed
=============================================================================
