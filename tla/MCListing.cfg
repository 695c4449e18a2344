CONSTANTS
    Base = 2
    Places = 2
    Seconds = 2
    Kinds = {"ok", "error"}
    MaxRows = 3
SPECIFICATION Spec
INVARIANTS
    TypeOK
    ListedInOrder
PROPERTIES
    ListingGrows
CHECK_DEADLOCK FALSE
