------------------------------ MODULE Ordering ------------------------------
(***************************************************************************)
(* The elements of a finite set as a sequence, in the order that a set of  *)
(* pairs gives them.  SetToSortSeq does the same by a recursive definition *)
(* of which nothing can be proved; this one says what is true of it.       *)
(***************************************************************************)
EXTENDS Integers, FiniteSets

InOrder(S, R) ==
    CHOOSE s \in [1 .. Cardinality(S) -> S] :
        \A i, j \in DOMAIN s : i < j => << s[i], s[j] >> \in R

\* Smaller numbers first.
Increasing(S) == {p \in S \X S : p[1] < p[2]}

\* Pairs of numbers by their first and, if these are the same, by their second.
Lexicographic(S) == {p \in S \X S : \/ p[1][1] < p[2][1]
                                    \/ p[1][1] = p[2][1] /\ p[1][2] < p[2][2]}

Ascending(S) == InOrder(S, Increasing(S))
=============================================================================
