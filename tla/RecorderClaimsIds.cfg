CONSTANTS
    o1 = o1
    o2 = o2
    x = x
    Exchanges = {o1, o2}
    Upgrades = {}
    Panics = {}
    MaxSessions = 1
SPECIFICATION Spec
INVARIANTS
    IdsFollowCompletion
CHECK_DEADLOCK FALSE
