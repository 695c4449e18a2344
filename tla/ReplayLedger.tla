---------------------------- MODULE ReplayLedger ----------------------------
(***************************************************************************)
(* What `graybox replay` and `graybox diff` promise about the exchanges of *)
(* a recording, with nothing about fields, credentials or answers.  A run  *)
(* goes through a list in which no exchange appears twice, in that order   *)
(* and with at most one request in flight; every exchange gets one verdict *)
(* and, unless it was refused, one request.  The run is called a success,  *)
(* changed or failed only when all of the list is decided, and by these    *)
(* verdicts.  Or it is abandoned, and then there is no report, and no      *)
(* request it has lost sight of.                                           *)
(***************************************************************************)
EXTENDS Naturals, Sequences, Functions

CONSTANT Exchanges  \* what a recording may hold

VARIABLES list,      \* the exchanges this run is about
          requests,  \* those a request was sent for, in order
          inFlight,  \* whether the last of these has no verdict yet
          report,    \* the verdicts, in order
          outcome    \* how the run ends

ledgerVars == <<list, requests, inFlight, report, outcome>>

Verdicts == {"refused", "well", "changed", "failed"}

Init ==
    /\ list = << >>
    /\ requests = << >>
    /\ inFlight = FALSE
    /\ report = << >>
    /\ outcome = "preparing"

Choose ==
    /\ outcome = "preparing"
    /\ list' \in Seq(Exchanges) /\ IsInjective(list')
    /\ outcome' = "running"
    /\ UNCHANGED <<requests, inFlight, report>>

Due == list[Len(report) + 1]

Undecided == outcome = "running" /\ Len(report) < Len(list)

Decide(verdict) == report' = Append(report, [id |-> Due, verdict |-> verdict])

Refuse ==
    /\ Undecided /\ ~inFlight
    /\ Decide("refused")
    /\ UNCHANGED <<list, requests, inFlight, outcome>>

Send ==
    /\ Undecided /\ ~inFlight
    /\ requests' = Append(requests, Due)
    /\ inFlight' = TRUE
    /\ UNCHANGED <<list, report, outcome>>

Settle ==
    /\ Undecided /\ inFlight
    /\ \E verdict \in Verdicts \ {"refused"} : Decide(verdict)
    /\ inFlight' = FALSE
    /\ UNCHANGED <<list, requests, outcome>>

Given(verdict) == \E i \in DOMAIN report : report[i].verdict = verdict

Conclude ==
    /\ outcome = "running" /\ Len(report) = Len(list)
    /\ outcome' = IF Given("refused") \/ Given("failed") THEN "failed"
                  ELSE IF Given("changed") THEN "changed" ELSE "succeeded"
    /\ UNCHANGED <<list, requests, inFlight, report>>

Abandon ==
    /\ outcome \in {"preparing", "running"} /\ ~inFlight
    /\ outcome' = "abandoned"
    /\ list' = << >> /\ report' = << >>
    /\ UNCHANGED <<requests, inFlight>>

Next == Choose \/ Refuse \/ Send \/ Settle \/ Conclude \/ Abandon

Spec == Init /\ [][Next]_ledgerVars
=============================================================================
