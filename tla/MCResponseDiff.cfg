CONSTANTS
    HeaderNames = {"content-type", "x-id", "set-cookie", "date"}
    Mandatory = {"set-cookie"}
    DefaultIgnored = {"date"}
    CaptureLimit = 3
    DisplayLimit = 4
    Letters <- MCLetters
    Cases <- MCCases
SPECIFICATION Spec
INVARIANTS
    TypeOK
    EquivalentIsEarned
    ChangedIsReal
    ProtectedStaysHidden
    DifferencesExplain
    NothingOfASecretShows
CHECK_DEADLOCK FALSE
