----------------------------- MODULE ReplayRun -----------------------------
(***************************************************************************)
(* `graybox replay` and `graybox diff` over a recording that a recorder    *)
(* may still be extending: the preflight of internal/cli/config.go, which  *)
(* resolves the credentials the recorded requests need, and the runner of  *)
(* internal/replay, which reads the recording again, refuses what cannot   *)
(* be reconstructed, and sends the rest one by one.                        *)
(*                                                                         *)
(* A request is what decides whether it may be sent: how much of its body  *)
(* is there, whether its query was withheld, whether its body is of a type *)
(* Graybox can look into, and which fields it has.  Fields are those of    *)
(* the query or of the body; a redacted field holds the marker.            *)
(***************************************************************************)
EXTENDS Integers, Sequences, SequencesExt, FiniteSets

CONSTANTS QueryFields,  \* fields found in queries
          BodyFields,   \* fields found in JSON or form bodies
          Samples,      \* bound: the requests that may be recorded
          MaxRows,      \* bound: rows in the recording
          Configs       \* the command lines and configurations considered

Fields == QueryFields \cup BodyFields
Contents == {"absent", "value", "marker"}
BodyTypes == {"empty", "typed", "opaque"}

Requests == [whole    : {"whole", "truncated", "incomplete"},
             withheld : BOOLEAN,                 \* the query, as a whole
             body     : BodyTypes,
             fields   : [Fields -> Contents]]

\* What a command does: all exchanges or one of them, which fields have a
\* replacement, which of these find a value in the environment, the type a
\* configured Content-Type header gives bodies, query redaction rules, and
\* whether diff ignores bodies.
All == 0
Modes == {"replay", "diff"}
Config == [mode : Modes, id : {All} \cup 1 .. MaxRows, rules : SUBSET Fields,
           env : SUBSET Fields, override : {"none", "typed", "opaque"},
           queryRules : BOOLEAN, ignoreBody : BOOLEAN]

ASSUME FieldsAssumption == QueryFields \cap BodyFields = {}
ASSUME SamplesAssumption == Samples \subseteq Requests
ASSUME ConfigsAssumption == MaxRows \in Nat /\ Configs \subseteq Config

VARIABLES
    config,    \* the command line, configuration and environment
    rows,      \* the recorded requests, by ID
    order,     \* their IDs, in the order of List
    recorded,  \* history: how many there were when the command started
    main,      \* where the command is
    plan,      \* the IDs it is going through: the summaries, or the one chosen
    next,      \* the index of the next of them
    needed,    \* the fields the preflight found to need a value
    seen,      \* history: the IDs the preflight has read
    sent,      \* the requests given to the HTTP client, as they go out
    results,   \* what became of each exchange
    ctxDone,   \* SIGINT or SIGTERM was delivered
    code       \* the exit status

vars == <<config, rows, order, recorded, main, plan, next, needed, seen, sent, results,
          ctxDone, code>>
recordingVars == <<rows, order>>
fixedVars     == <<config, recorded>>

Reasons == {"none", "query", "body", "unclear", "novalue", "marker"}
Outcomes == {"ok", "equivalent", "changed", "failed"}
Replies == {"unsent", "none", "broken", "whole"}
IDs == 1 .. MaxRows

TypeOK ==
    /\ config \in Configs
    /\ rows \in Seq(Samples)
    /\ order \in Seq(IDs)
    /\ recorded \in 0 .. MaxRows
    /\ main \in {"open", "preflight", "inspect", "run", "execute", "wait", "done"}
    /\ plan \in Seq(IDs)
    /\ next \in 1 .. MaxRows + 1
    /\ needed \subseteq config.rules
    /\ seen \subseteq IDs
    /\ sent \in Seq([id : IDs, body : BodyTypes,
                     fields : [Fields -> Contents \cup {"secret", "empty"}]])
    /\ results \in Seq([id : IDs, why : Reasons, reply : Replies, outcome : Outcomes])
    /\ ctxDone \in BOOLEAN
    /\ code \in {"none", "success", "changed", "invalid", "network", "failed", "usage",
                 "internal"}

Init ==
    /\ config \in Configs
    /\ \E n \in 0 .. MaxRows :
          /\ rows \in [1 .. n -> Samples]
          /\ order = [i \in 1 .. n |-> i]
          /\ recorded = n
    /\ main = "open"
    /\ plan = << >>
    /\ next = 1
    /\ needed = {}
    /\ seen = {}
    /\ sent = << >>
    /\ results = << >>
    /\ ctxDone = FALSE
    /\ code = "none"

-----------------------------------------------------------------------------
(* Which requests can be sent: Replacements.Applicable and execute. *)

\* The fields that can be seen in a request whose body has some type.
Visible(r, type) ==
    {f \in Fields : r.fields[f] # "absent" /\ (f \in QueryFields \/ type = "typed")}

\* Mutant of Matched: every field there is, with a rule or not.
MatchedAny(r, type) == Visible(r, type)

\* Those of them with a replacement.
Matched(r, type) == config.rules \cap Visible(r, type)

\* Replacements.Applicable returns an error.
Unclear(r, type) ==
    \/ r.withheld /\ config.rules \cap QueryFields # {}
    \/ type = "opaque" /\ config.rules \cap BodyFields # {}

\* The type of the body as it goes out: a configured Content-Type replaces the
\* recorded one.
OutgoingType(r) ==
    IF r.body = "empty" \/ config.override = "none" THEN r.body ELSE config.override

\* A field goes out as recorded, or with its value; Runner.Replacements keeps
\* the rules without a value, as empty strings.
Outgoing(r) ==
    [f \in Fields |->
        IF f \notin Matched(r, OutgoingType(r)) THEN r.fields[f]
        ELSE IF f \in needed THEN "secret" ELSE "empty"]

\* execute refuses a query that was withheld if it has any rule for queries;
\* diff derives one from the marker itself.
QueryRefused(r) ==
    r.withheld /\ (config.queryRules \/ config.mode = "diff"
                   \/ config.rules \cap QueryFields # {})

\* rejectRemainingMarkers, after the replacements.
Marked(r) ==
    \/ r.withheld
    \/ \E f \in Visible(r, OutgoingType(r)) : Outgoing(r)[f] = "marker"

\* Mutant of Refusal: an empty value is as good as any.
RefusalWithoutValues(r) ==
    IF QueryRefused(r) THEN "query"
    ELSE IF r.whole # "whole" THEN "body"
    ELSE IF Unclear(r, OutgoingType(r)) THEN "unclear"
    ELSE IF Marked(r) THEN "marker"
    ELSE "none"

\* The checks of execute and of Replacements.apply, in their order.
Refusal(r) ==
    IF QueryRefused(r) THEN "query"
    ELSE IF r.whole # "whole" THEN "body"
    ELSE IF Unclear(r, OutgoingType(r)) THEN "unclear"
    ELSE IF \E f \in Fields : Outgoing(r)[f] = "empty" THEN "novalue"
    ELSE IF Marked(r) THEN "marker"
    ELSE "none"

-----------------------------------------------------------------------------
(* The command: runReplay and runDiff. *)

End(status) == main' = "done" /\ code' = status

\* Configuration, the file, its policy, limit and target.  Without replacement
\* rules there is no preflight.
Open ==
    /\ main = "open"
    /\ \/ /\ ~ctxDone
          /\ main' = IF config.rules = {} THEN "run" ELSE "preflight"
          /\ UNCHANGED code
       \/ \E status \in {"usage", "invalid", "internal"} : End(status)
    /\ UNCHANGED <<fixedVars, recordingVars, plan, next, needed, seen, sent, results, ctxDone>>

\* One ID, or those that List returns now.
Selected == IF config.id = All THEN order ELSE << config.id >>

\* resolveApplicableReplacements lists the recording ...
PreflightList ==
    /\ main = "preflight"
    /\ ~ctxDone
    /\ plan' = Selected
    /\ next' = 1
    /\ main' = "inspect"
    /\ UNCHANGED <<fixedVars, recordingVars, needed, seen, sent, results, ctxDone, code>>

\* The fields of an exchange that need a value, by its recorded body type; what
\* cannot be sent or looked into needs nothing.
Needs(id) ==
    IF rows[id].whole # "whole" \/ Unclear(rows[id], rows[id].body) THEN {}
    ELSE Matched(rows[id], rows[id].body)

\* Mutant of Inspect: what the last exchange needs is what is needed.
InspectOverwriting ==
    /\ main = "inspect"
    /\ ~ctxDone
    /\ next <= Len(plan)
    /\ LET id == plan[next]
       IN  IF id \in DOMAIN rows
           THEN seen' = seen \cup {id} /\ needed' = Needs(id)
           ELSE UNCHANGED <<seen, needed>>
    /\ next' = next + 1
    /\ UNCHANGED <<fixedVars, recordingVars, main, plan, sent, results, ctxDone, code>>

\* ... and reads each exchange; a chosen ID that is missing is left to the runner.
Inspect ==
    /\ main = "inspect"
    /\ ~ctxDone
    /\ next <= Len(plan)
    /\ LET id == plan[next]
       IN  IF id \in DOMAIN rows
           THEN seen' = seen \cup {id} /\ needed' = needed \cup Needs(id)
           ELSE UNCHANGED <<seen, needed>>
    /\ next' = next + 1
    /\ UNCHANGED <<fixedVars, recordingVars, main, plan, sent, results, ctxDone, code>>

\* Mutant of Resolve: what has no value is left to the exchanges that need it.
ResolveLeniently ==
    /\ main = "inspect"
    /\ next > Len(plan)
    /\ needed' = needed \cap config.env
    /\ main' = "run"
    /\ UNCHANGED <<fixedVars, recordingVars, plan, next, seen, sent, results, ctxDone, code>>

\* Every needed field must find its variable.
Resolve ==
    /\ main = "inspect"
    /\ next > Len(plan)
    /\ IF needed \subseteq config.env
       THEN main' = "run" /\ UNCHANGED code
       ELSE End("usage")
    /\ UNCHANGED <<fixedVars, recordingVars, plan, next, needed, seen, sent, results, ctxDone>>

\* Runner.runEach makes its own list ...
RunList ==
    /\ main = "run"
    /\ ~ctxDone
    /\ plan' = Selected
    /\ next' = 1
    /\ main' = "execute"
    /\ UNCHANGED <<fixedVars, recordingVars, needed, seen, sent, results, ctxDone, code>>

Conclude(why, reply, outcome) ==
    /\ results' = Append(results, [id |-> plan[next], why |-> why, reply |-> reply,
                                   outcome |-> outcome])
    /\ next' = next + 1

\* Mutant of Refuse: what cannot be sent is passed over.
RefuseSilently ==
    /\ main = "execute"
    /\ ~ctxDone
    /\ next <= Len(plan)
    /\ plan[next] \in DOMAIN rows
    /\ Refusal(rows[plan[next]]) # "none"
    /\ next' = next + 1
    /\ UNCHANGED <<fixedVars, recordingVars, main, plan, needed, seen, sent, results, ctxDone, code>>

\* ... and gets each exchange: it is refused,
Refuse ==
    /\ main = "execute"
    /\ ~ctxDone
    /\ next <= Len(plan)
    /\ plan[next] \in DOMAIN rows
    /\ Refusal(rows[plan[next]]) # "none"
    /\ Conclude(Refusal(rows[plan[next]]), "unsent", "failed")
    /\ UNCHANGED <<fixedVars, recordingVars, main, plan, needed, seen, sent, ctxDone, code>>

\* or sent,
Send ==
    /\ main = "execute"
    /\ ~ctxDone
    /\ next <= Len(plan)
    /\ plan[next] \in DOMAIN rows
    /\ Refusal(rows[plan[next]]) = "none"
    /\ LET r == rows[plan[next]]
       IN  sent' = Append(sent, [id |-> plan[next], body |-> OutgoingType(r),
                                 fields |-> Outgoing(r)])
    /\ main' = "wait"
    /\ UNCHANGED <<fixedVars, recordingVars, plan, next, needed, seen, results, ctxDone, code>>

\* or not there, which ends the command.
NotFound ==
    /\ main = "execute"
    /\ ~ctxDone
    /\ next <= Len(plan)
    /\ plan[next] \notin DOMAIN rows
    /\ End("invalid")
    /\ UNCHANGED <<fixedVars, recordingVars, plan, next, needed, seen, sent, results, ctxDone>>

\* A replay is well if the whole answer came; diff compares it, if both bodies
\* are available or not looked at.
Outcome(reply, available, same) ==
    IF reply # "whole" THEN "failed"
    ELSE IF config.mode = "replay" THEN "ok"
    ELSE IF ~config.ignoreBody /\ ~available THEN "failed"
    ELSE IF same THEN "equivalent" ELSE "changed"

\* The upstream answers, and its body arrives or breaks off.
Answer ==
    /\ main = "wait"
    /\ \E reply \in {"broken", "whole"}, available \in BOOLEAN, same \in BOOLEAN :
          Conclude("none", reply, Outcome(reply, available, same))
    /\ main' = "execute"
    /\ UNCHANGED <<fixedVars, recordingVars, plan, needed, seen, sent, ctxDone, code>>

\* Mutant of Timeout: a client without one.
NoTimeout == FALSE

\* Connecting fails, or thirty seconds have passed, or the signal came.
Timeout ==
    /\ main = "wait"
    /\ \E reply \in {"none", "broken"} : Conclude("none", reply, "failed")
    /\ main' = "execute"
    /\ UNCHANGED <<fixedVars, recordingVars, plan, needed, seen, sent, ctxDone, code>>

\* A List or Get fails; so does every one after a signal.  Results are dropped.
ReadFails ==
    /\ main \in {"preflight", "run"} \/ (main \in {"inspect", "execute"} /\ next <= Len(plan))
    /\ \E status \in {"invalid", "internal"} : End(status)
    /\ results' = << >>
    /\ UNCHANGED <<fixedVars, recordingVars, plan, next, needed, seen, sent, ctxDone>>

Failed == {i \in DOMAIN results : results[i].outcome = "failed"}

\* Mutant of ExitCode: the last exchange decides.
ExitCodeOfLast ==
    IF results # << >> /\ Last(results).outcome = "failed" THEN "failed"
    ELSE IF results # << >> /\ Last(results).outcome = "changed" THEN "changed"
    ELSE "success"

\* The exit status of a run that came to its end.
ExitCode ==
    IF Failed # {} THEN IF config.mode = "replay" /\ Len(results) = 1 THEN "network" ELSE "failed"
    ELSE IF \E i \in DOMAIN results : results[i].outcome = "changed" THEN "changed"
    ELSE "success"

Finish ==
    /\ main = "execute"
    /\ next > Len(plan)
    /\ End(ExitCode) \/ End("internal")
    /\ UNCHANGED <<fixedVars, recordingVars, plan, next, needed, seen, sent, results, ctxDone>>

Signal ==
    /\ main # "done"
    /\ ~ctxDone
    /\ ctxDone' = TRUE
    /\ UNCHANGED <<fixedVars, recordingVars, main, plan, next, needed, seen, sent, results, code>>

\* A live recorder commits a row: the next ID, and any place in the order.
Record ==
    /\ main # "done"
    /\ Len(rows) < MaxRows
    /\ \E r \in Samples : rows' = Append(rows, r)
    /\ \E place \in 1 .. Len(order) + 1 : order' = InsertAt(order, place, Len(rows) + 1)
    /\ UNCHANGED <<fixedVars, main, plan, next, needed, seen, sent, results, ctxDone, code>>

\* What the command does by itself.
Command ==
    \/ Open \/ PreflightList \/ Inspect \/ Resolve \/ RunList \/ Refuse \/ Send
    \/ NotFound \/ Timeout \/ ReadFails \/ Finish

Next == Command \/ Answer \/ Signal \/ Record

Spec == Init /\ [][Next]_vars

\* The command runs; its client has a timeout.  Upstreams need not answer.
FairSpec == Spec /\ WF_vars(Command)

-----------------------------------------------------------------------------
(* Safety. *)

\* Whatever was recorded, and whenever, no request goes out in part, with an
\* empty replacement, or with a redaction marker that can be seen in it.
Resolved(r, request) ==
    /\ r.whole = "whole" /\ ~r.withheld
    /\ \A f \in Visible(r, request.body) : request.fields[f] \in {"value", "secret"}

NothingUnresolvedSent == \A i \in DOMAIN sent : Resolved(rows[sent[i].id], sent[i])

\* If an exchange that was there from the start, and is one of those chosen,
\* needs a credential that is not set, then no request is sent, also none for
\* the exchanges before it: resolveApplicableReplacements goes first.
MissingCredentialSendsNothing ==
    sent # << >> =>
        \A id \in 1 .. recorded : config.id \in {All, id} => Needs(id) \subseteq config.env

\* A request that fails for want of a value was recorded after the preflight
\* had looked, or has another body type than it went by.
MissingValueIsNew ==
    \A i \in DOMAIN results :
        results[i].why = "novalue" =>
            results[i].id \notin seen \/ config.override # "none"

Concluded == code \in {"success", "changed", "network", "failed"}

\* Success of a run over all exchanges means that every one that was recorded
\* when the command started was sent and answered in full.
SuccessCoversRecording ==
    code = "success" /\ config.id = All =>
        \A id \in 1 .. recorded : \E i \in DOMAIN results :
            /\ results[i].id = id
            /\ results[i].reply = "whole"
            /\ results[i].outcome \in {"ok", "equivalent"}

\* What makes the properties inductive: the recording only grows, and its order
\* lists all of it;
RecordingInv ==
    /\ recorded <= Len(rows) /\ Len(rows) <= MaxRows /\ Len(order) = Len(rows)
    /\ \A id \in DOMAIN rows : \E i \in DOMAIN order : order[i] = id

\* the command goes through a plan;
PlanInv ==
    /\ Len(plan) <= MaxRows /\ next <= Len(plan) + 1
    /\ main = "wait" => next <= Len(plan)

\* the preflight has looked at what is behind it, and at everything chosen
\* before the first request;
Chosen == {id \in 1 .. recorded : config.id \in {All, id}}

PreflightInv ==
    /\ main \in {"open", "preflight", "inspect"} => sent = << >> /\ results = << >>
    /\ \A id \in seen : id \in DOMAIN rows /\ Needs(id) \subseteq needed
    /\ main = "inspect" =>
          \A id \in Chosen : \E i \in DOMAIN plan :
              plan[i] = id /\ (i < next => Needs(id) \subseteq needed)
    /\ main \in {"run", "execute", "wait"} \/ sent # << >> =>
          \A id \in Chosen : Needs(id) \subseteq config.env

\* requests are those of recorded exchanges.
SentInv == \A i \in DOMAIN sent : sent[i].id \in DOMAIN rows

IInv ==
    /\ TypeOK /\ RecordingInv /\ PlanInv /\ PreflightInv /\ SentInv
    /\ NothingUnresolvedSent /\ MissingValueIsNew

-----------------------------------------------------------------------------
(* The command as a replay ledger. *)

Running == main \in {"execute", "wait"}

LedgerOutcome ==
    IF Running THEN "running"
    ELSE IF main # "done" THEN "preparing"
    ELSE IF code = "success" THEN "succeeded"
    ELSE IF code = "changed" THEN "changed"
    ELSE IF code \in {"network", "failed"} THEN "failed"
    ELSE "abandoned"

LedgerVerdict(result) ==
    IF result.outcome \in {"ok", "equivalent"} THEN "well"
    ELSE IF result.outcome = "failed" /\ result.why # "none" THEN "refused"
    ELSE result.outcome

LedgerEntry(result) == [id |-> result.id, verdict |-> LedgerVerdict(result)]

Reported == Running \/ (main = "done" /\ Concluded)

LedgerList == IF Reported THEN plan ELSE << >>

LedgerRequests == [i \in DOMAIN sent |-> sent[i].id]

LedgerReport == IF Reported THEN [i \in DOMAIN results |-> LedgerEntry(results[i])] ELSE << >>

Ledger == INSTANCE ReplayLedger WITH
    Exchanges <- IDs, list <- LedgerList, requests <- LedgerRequests,
    inFlight <- main = "wait", report <- LedgerReport, outcome <- LedgerOutcome

\* Each exchange of the list, which no live recorder can make longer or shorter
\* meanwhile, is sent at most once and decided once, in its order, and the exit
\* status speaks for all of them; nothing in flight is forgotten.
KeepsReplayLedger == Ledger!Spec

\* What makes this inductive: no row is listed twice, the first request follows
\* the runner's own list, and there is a result for whatever lies behind.
LedgerInv ==
    /\ IsInjective(order) /\ \A i \in DOMAIN order : order[i] <= Len(rows)
    /\ main \in {"open", "preflight", "inspect", "run"} => sent = << >> /\ results = << >>
    /\ main \in {"execute", "wait"} => Len(results) = next - 1

\* What makes SuccessCoversRecording inductive: the list has all that was chosen,
\* the results follow it, and only what was answered in full is well.
CoverInv ==
    /\ main \in {"execute", "wait"} =>
          /\ \A id \in Chosen : \E i \in DOMAIN plan : plan[i] = id
          /\ \A i \in DOMAIN results : results[i].id = plan[i]
    /\ \A i \in DOMAIN results :
          results[i].outcome \in {"ok", "equivalent"} => results[i].reply = "whole"
    /\ main # "done" => code = "none"
    /\ SuccessCoversRecording

-----------------------------------------------------------------------------
(* Liveness. *)

\* The command ends, whatever upstreams, the recorder and the user do.
Ends == <>(main = "done")
=============================================================================
