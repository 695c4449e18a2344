CONSTANTS
    MarkerLen = 2
    RewriteLens <- MCRewriteLens
    Limit = 2
    MaxBody = 3
    PageLen = 1
SPECIFICATION Spec
INVARIANTS
    TruncatedMeansLimit
CHECK_DEADLOCK FALSE
