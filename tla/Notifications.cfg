SPECIFICATION Spec
CONSTANTS
    MaxClock = 3
    PageSize = 2
    Slots = {s1, s2}
    MaxRequests = 4
SYMMETRY Symmetry
INVARIANTS
    TypeOK
    MarkedStaysRead
    BadgeExact
    WalkComplete
CHECK_DEADLOCK FALSE
