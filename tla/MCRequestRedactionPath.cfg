CONSTANTS
    KeyOrder <- MCKeyOrder
    HeaderNames = {"content-type", "content-encoding", "connection", "authorization", "x-token"}
    Mandatory = {"authorization"}
    Omitted = {"connection"}
    BadHosts = {"bad"}
    Cases <- MCCases
SPECIFICATION Spec
INVARIANTS
    PathIsKept
CHECK_DEADLOCK FALSE
