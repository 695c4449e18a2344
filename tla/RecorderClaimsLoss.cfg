CONSTANTS
    o1 = o1
    o2 = o2
    x = x
    Exchanges = {o1, x}
    Upgrades = {x}
    Panics = {x}
    MaxSessions = 1
SPECIFICATION Spec
INVARIANTS
    SuccessMeansNoLoss
CHECK_DEADLOCK FALSE
