--------------------------- MODULE RecorderClaims ---------------------------
(* Sentences of the documentation about `graybox record`, read literally.   *)
(* Each of them is refuted by what the code does; Recorder states what does *)
(* hold.                                                                    *)
EXTENDS MCRecorder

\* "If any observed exchange cannot be persisted, shutdown reports the loss and
\* fails" (the help of record): a success leaves no observed exchange behind,
\* not even one whose connection was taken over or whose handler panicked.
SuccessMeansNoLoss ==
    code = "success" /\ ~Alive => \A e \in Exchanges : stage[e] \in {"idle", "stored"}

\* "SQLite assigns IDs in capture completion order" (docs/recording-format.md):
\* a smaller ID has the earlier completed_at.
IdsFollowCompletion ==
    \A i, j \in DOMAIN rows : i < j =>
        \E k, l \in DOMAIN ended : k < l /\ ended[k] = rows[i] /\ ended[l] = rows[j]
=============================================================================
