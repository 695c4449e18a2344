-------------------------- MODULE RecordingLedger --------------------------
(***************************************************************************)
(* What a recording promises to the person who ran `graybox record`, with  *)
(* nothing about how it is done: every exchange that went through the      *)
(* proxy is pending until it is kept as one row or lost, rows are only     *)
(* ever appended, and the command may report success only when nothing the *)
(* server waits for is pending or lost.                                    *)
(***************************************************************************)
EXTENDS Sequences

CONSTANTS Exchanges, \* the exchanges clients may send
          Awaited    \* those whose handlers a graceful shutdown waits for

VARIABLES status,    \* what became of each exchange
          kept,      \* the recorded rows, in ID order
          outcome    \* how the command ended

ledgerVars == <<status, kept, outcome>>

Init ==
    /\ status = [e \in Exchanges |-> "unseen"]
    /\ kept = << >>
    /\ outcome = "running"

Observe(e) ==
    /\ outcome = "running"
    /\ status[e] = "unseen"
    /\ status' = [status EXCEPT ![e] = "pending"]
    /\ UNCHANGED <<kept, outcome>>

Keep(e) ==
    /\ outcome # "ended"
    /\ status[e] = "pending"
    /\ status' = [status EXCEPT ![e] = "kept"]
    /\ kept' = Append(kept, e)
    /\ UNCHANGED outcome

Lose(e) ==
    /\ outcome # "ended"
    /\ status[e] = "pending"
    /\ status' = [status EXCEPT ![e] = "lost"]
    /\ UNCHANGED <<kept, outcome>>

\* Success is decided while exchanges the server does not wait for may still run.
Succeed ==
    /\ outcome = "running"
    /\ \A e \in Awaited : status[e] \in {"unseen", "kept"}
    /\ outcome' = "succeeded"
    /\ UNCHANGED <<status, kept>>

Abandoned == [e \in Exchanges |-> IF status[e] = "pending" THEN "lost" ELSE status[e]]

\* The process is gone: by its own exit, or killed.
End ==
    /\ outcome # "ended"
    /\ outcome' = "ended"
    /\ status' = Abandoned
    /\ UNCHANGED kept

Restart ==
    /\ outcome = "ended"
    /\ outcome' = "running"
    /\ UNCHANGED <<status, kept>>

Next ==
    \/ \E e \in Exchanges : Observe(e) \/ Keep(e) \/ Lose(e)
    \/ Succeed
    \/ End
    \/ Restart

Spec == Init /\ [][Next]_ledgerVars
=============================================================================
