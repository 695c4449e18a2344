----------------------------- MODULE MCListing -----------------------------
(* Listing for TLC, and what the source and the documents say of the order. *)
EXTENDS Listing

\* "List returns summaries ordered by request start time and stable exchange
\* ID" (internal/storage/repository.go).
OrderedByStart ==
    \A i, j \in DOMAIN listed.ids : i < j =>
        \/ StartOf(i).sec < StartOf(j).sec
        \/ /\ StartOf(i).sec = StartOf(j).sec
           /\ ~EarlierFraction(StartOf(j).frac, StartOf(i).frac)
=============================================================================
