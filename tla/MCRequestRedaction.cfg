CONSTANTS
    KeyOrder <- MCKeyOrder
    HeaderNames = {"content-type", "content-encoding", "connection", "authorization", "x-token"}
    Mandatory = {"authorization"}
    Omitted = {"connection"}
    BadHosts = {"bad"}
    Cases <- MCCases
SPECIFICATION Spec
INVARIANTS
    TypeOK
    ProtectedNowhere
    SentIsRestored
    UntouchedIsVerbatim
    RestorableIsSent
CHECK_DEADLOCK FALSE
