CONSTANTS
    QueryFields = {"token"}
    BodyFields = {"secret"}
    MaxRows = 2
    Samples <- MCSamples
    Configs <- MCConfigs
SPECIFICATION FairSpec
INVARIANTS
    TypeOK
    NothingUnresolvedSent
    MissingCredentialSendsNothing
    MissingValueIsNew
    SuccessCoversRecording
    IInv
PROPERTIES
    Ends
    KeepsReplayLedger
CHECK_DEADLOCK FALSE
