-------------------------- MODULE MCProxyExchange --------------------------
(* ProxyExchange for TLC, and what docs/recording-format.md says of         *)
(* `truncated`.                                                             *)
EXTENDS ProxyExchange

MCRewriteLens == {1, 3}

\* "truncated is true exactly when captured_size < observed_size, meaning the
\* capture limit omitted observed bytes" (docs/recording-format.md): nothing
\* else than the limit makes a stored request truncated.
TruncatedMeansLimit ==
    outcome = "stored" /\ row.request.truncated => reader.taken > Limit
=============================================================================
