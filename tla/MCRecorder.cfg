CONSTANTS
    o1 = o1
    o2 = o2
    x = x
    Exchanges = {o1, o2, x}
    Upgrades = {x}
    Panics = {x}
    MaxSessions = 2
SPECIFICATION FairSpec
INVARIANTS
    TypeOK
    CleanExitKeepsAll
    PrintedCountIsExact
    RowsMatchOutcomes
    MetadataBeforeTraffic
    IInv
PROPERTIES
    NothingOverwritten
    KeepsLedger
    SignalEnds
    EndedSettles
CHECK_DEADLOCK FALSE
