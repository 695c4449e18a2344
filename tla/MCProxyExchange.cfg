CONSTANTS
    MarkerLen = 2
    RewriteLens <- MCRewriteLens
    Limit = 2
    MaxBody = 3
    PageLen = 1
SPECIFICATION Spec
INVARIANTS
    TypeOK
    ReplayableIsWhole
    RefusedOnlyWhenTorn
    NoErrorMeansDelivered
    IncompleteIsExplained
    StatusIsFinal
    SizesAccountForBodies
    IInv
CHECK_DEADLOCK FALSE
