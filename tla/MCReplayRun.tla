---------------------------- MODULE MCReplayRun ----------------------------
(* ReplayRun for TLC, and what docs/configuration.md says of credentials.   *)
EXTENDS ReplayRun

Request(whole, withheld, body, q, b) ==
    [whole |-> whole, withheld |-> withheld, body |-> body,
     fields |-> [f \in Fields |-> IF f \in QueryFields THEN q ELSE b]]

\* One request of each kind the checks tell apart.
MCSamples == {
    Request("whole", FALSE, "empty", "absent", "absent"),
    Request("whole", FALSE, "empty", "marker", "absent"),
    Request("whole", FALSE, "typed", "value", "marker"),
    Request("whole", FALSE, "opaque", "absent", "value"),
    Request("whole", TRUE, "typed", "absent", "value"),
    Request("truncated", FALSE, "typed", "absent", "marker") }

MCConfigs == {c \in Config :
    /\ c.env \subseteq c.rules
    /\ c.rules \in {{}, BodyFields, Fields}
    /\ c.id \in {All, 2}
    /\ c.queryRules => c.rules = {}
    /\ c.ignoreBody => c.mode = "diff"
    /\ c.ignoreBody => c.env = c.rules /\ c.override = "none"}

\* "Missing credentials for applicable fields remain configuration failures with
\* exit code 4" (docs/configuration.md): no exchange fails for want of a value.
MissingCredentialIsUsage ==
    \A i \in DOMAIN results : results[i].why # "novalue"
=============================================================================
