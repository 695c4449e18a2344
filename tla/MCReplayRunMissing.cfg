CONSTANTS
    QueryFields = {"token"}
    BodyFields = {"secret"}
    MaxRows = 2
    Samples <- MCSamples
    Configs <- MCConfigs
SPECIFICATION Spec
INVARIANTS
    MissingCredentialIsUsage
CHECK_DEADLOCK FALSE
