----------------------------- MODULE JSONNumber -----------------------------
(***************************************************************************)
(* How internal/diff/body.go compares two JSON numbers: by their digits    *)
(* and exponents, never by converting them.  A number is what its text     *)
(* holds: a sign, the digits before and after the point, and the exponent. *)
(***************************************************************************)
EXTENDS Integers, Sequences, FiniteSetsExt

Digits == 0 .. 9
Number == [neg : BOOLEAN, int : Seq(Digits), frac : Seq(Digits), exp : Int]

NonZero(s) == {i \in DOMAIN s : s[i] # 0}

\* canonicalJSONNumber: the digits without zeros on either side, and the
\* exponent that goes with them; every zero is the same.
Zero == [neg |-> FALSE, digits |-> <<0>>, exp |-> 0]

\* Mutant of Canonical: the point is forgotten.
CanonicalWithoutPoint(n) ==
    LET all == n.int \o n.frac
    IN  IF NonZero(all) = {} THEN Zero
        ELSE [neg |-> n.neg, digits |-> SubSeq(all, Min(NonZero(all)), Max(NonZero(all))),
              exp |-> n.exp + Len(all) - Max(NonZero(all))]

\* canonicalizeJSONNumber: digits after the point lower the exponent, zeros
\* that are trimmed from the end raise it.
Canonical(n) ==
    LET all == n.int \o n.frac
    IN  IF NonZero(all) = {} THEN Zero
        ELSE [neg |-> n.neg, digits |-> SubSeq(all, Min(NonZero(all)), Max(NonZero(all))),
              exp |-> n.exp - Len(n.frac) + Len(all) - Max(NonZero(all))]

\* jsonNumbersEqual.
NumbersEqual(m, n) == m = n \/ Canonical(m) = Canonical(n)

\* What a number is, whatever its spelling: its sign and, of its digits, those that
\* are not zero with the powers of ten they stand for.
AllDigits(n) == n.int \o n.frac
PointAt(n) == n.exp + Len(n.int)
Places(n) == {<< PointAt(n) - i, AllDigits(n)[i] >> : i \in NonZero(AllDigits(n))}

Value(n) == [neg |-> n.neg /\ NonZero(AllDigits(n)) # {}, places |-> Places(n)]
=============================================================================
