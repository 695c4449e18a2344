------------------------------ MODULE Listing ------------------------------
(***************************************************************************)
(* The order in which Store.List of internal/storage/repository.go returns *)
(* exchanges.  The started_at column is TEXT: Store.Add formats the start  *)
(* time as RFC 3339 with nanoseconds, a layout that drops trailing zeros   *)
(* and, with them, the decimal point; SQLite compares the texts byte by    *)
(* byte.  IDs are given when exchanges complete, in any order of start.    *)
(*                                                                         *)
(* The text is modelled by its varying part, one character for all that    *)
(* comes before the fraction; digits are those of base Base, and there are *)
(* Places of them.                                                         *)
(***************************************************************************)
EXTENDS Integers, Sequences, SequencesExt, FiniteSetsExt

CONSTANTS Base,      \* digits are 0 .. Base - 1
          Places,    \* decimal places of the clock
          Seconds,   \* bound: start times are within 0 .. Seconds - 1
          Kinds,     \* what the status, method and path filters tell apart
          MaxRows    \* bound: rows in the table

ASSUME ClockAssumption == Base \in Nat \ {0, 1} /\ Places \in Nat /\ Seconds \in Nat
ASSUME RowsAssumption == MaxRows \in Nat

VARIABLES rows,   \* the exchanges table, by ID
          listed  \* the last answer of List, and the filter it was given

vars == <<rows, listed>>

Digits == 0 .. Base - 1
Times  == [sec : 0 .. Seconds - 1, frac : [1 .. Places -> Digits]]
AnyKind == "any"
Filters == Kinds \cup {AnyKind}

TypeOK ==
    /\ rows \in Seq([start : Times, kind : Kinds])
    /\ listed \in [filter : Filters, ids : Seq(1 .. Len(rows))]

\* The codes of the characters: '.' sorts before the digits, 'Z' after them.
Dot      == 0
Digit(d) == d + 1
Zulu     == Base + 1

\* The decimal places that are left when trailing zeros are dropped.
Trimmed(frac) == SubSeq(frac, 1, Max({0} \cup {i \in 1 .. Places : frac[i] # 0}))

\* time.Format(time.RFC3339Nano) of a UTC time.
Format(t) ==
    LET frac == Trimmed(t.frac)
    IN  << t.sec >> \o (IF frac = << >> THEN << >> ELSE << Dot >>)
          \o [i \in DOMAIN frac |-> Digit(frac[i])] \o << Zulu >>

\* SQLite's comparison of TEXT values.
TextLess(a, b) ==
    \/ \E i \in 1 .. Min({Len(a), Len(b)}) :
          a[i] < b[i] /\ \A j \in 1 .. i - 1 : a[j] = b[j]
    \/ IsStrictPrefix(a, b)

Matches(row, filter) == filter \in {AnyKind, row.kind}

\* Mutants of ListedBefore: by ID alone, and with ties the other way round.
ListedById(i, j) == i < j

ListedTiesReversed(i, j) ==
    LET a == Format(rows[i].start)
        b == Format(rows[j].start)
    IN  TextLess(a, b) \/ (a = b /\ i > j)

\* ORDER BY started_at, id
ListedBefore(i, j) ==
    LET a == Format(rows[i].start)
        b == Format(rows[j].start)
    IN  TextLess(a, b) \/ (a = b /\ i < j)

\* The rows in the order of the listing.
Ordered(ids) ==
    CHOOSE s \in [1 .. Cardinality(ids) -> ids] :
        \A i, j \in DOMAIN s : i < j => ListedBefore(s[i], s[j])

Matching(filter) == {i \in DOMAIN rows : Matches(rows[i], filter)}

\* Mutants of List: IDs counted from zero, and a page of two rows.
ListFromZero(filter) ==
    [n \in DOMAIN Ordered(Matching(filter)) |-> Ordered(Matching(filter))[n] - 1]

ListPage(filter) == SubSeq(Ordered(Matching(filter)), 1, Min({2, Cardinality(Matching(filter))}))

\* Store.List.
List(filter) == Ordered(Matching(filter))

Init ==
    /\ rows = << >>
    /\ listed = [filter |-> AnyKind, ids |-> << >>]

\* An exchange that began at some time completes and gets the next ID.
Add ==
    /\ Len(rows) < MaxRows
    /\ \E t \in Times, k \in Kinds : rows' = Append(rows, [start |-> t, kind |-> k])
    /\ UNCHANGED listed

\* list, or the preparation of a replay, reads the table while it may grow.
Ask ==
    /\ \E f \in Filters : listed' = [filter |-> f, ids |-> List(f)]
    /\ UNCHANGED rows

Next == Add \/ Ask

Spec == Init /\ [][Next]_vars

-----------------------------------------------------------------------------
StartOf(i) == rows[listed.ids[i]].start

EarlierFraction(f, g) ==
    \E i \in 1 .. Places : f[i] < g[i] /\ \A j \in 1 .. i - 1 : f[j] = g[j]

SameWidth(f, g) == Len(Trimmed(f)) = Len(Trimmed(g))

\* What order a listing has, although start times are compared as text: seconds
\* never go backwards, within one second fractions of the same written width do
\* not, and exchanges that began together keep the order of their IDs.
ListedInOrder ==
    \A i, j \in DOMAIN listed.ids :
        LET s == StartOf(i) t == StartOf(j)
        IN  i < j =>
               /\ s.sec <= t.sec
               /\ s.sec = t.sec /\ SameWidth(s.frac, t.frac) => ~EarlierFraction(t.frac, s.frac)
               /\ s = t => listed.ids[i] < listed.ids[j]

\* Asking again with the same filter returns the same exchanges in the same
\* order, with new ones in between: what a replay checked first is still in
\* what it reads afterwards.
ListingGrows ==
    [][listed'.filter = listed.filter =>
          \E at \in [DOMAIN listed.ids -> DOMAIN listed'.ids] :
             /\ \A i, j \in DOMAIN at : i < j => at[i] < at[j]
             /\ \A i \in DOMAIN at : listed.ids[i] = listed'.ids[at[i]]]_vars

-----------------------------------------------------------------------------
(* What makes these inductive. *)

\* What the filter of the last answer lets through of the first k rows.
AnswerAt(k) == {i \in 1 .. k : Matches(rows[i], listed.filter)}

\* The last answer is the listing of a table that has only grown since: all that
\* the filter let through of the first k rows, in the order of the listing.
AnswerInv ==
    \E k \in 0 .. Len(rows) :
        /\ listed.ids \in [1 .. Cardinality(AnswerAt(k)) -> AnswerAt(k)]
        /\ \A i, j \in DOMAIN listed.ids : i < j => ListedBefore(listed.ids[i], listed.ids[j])

IInv == TypeOK /\ AnswerInv
=============================================================================
