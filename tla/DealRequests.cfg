SPECIFICATION Spec
CONSTANTS
    Users <- MCUsers
    Role <- MCRole
    Terms <- MCTerms
    Dates <- MCDates
    Settle <- MCSettle
    Slots = {s1, s2}
    MaxRequests = 5
INVARIANTS
    TypeOK
    BatchesWhole
    
    DecidedHasSolution
PROPERTIES
    ExecutionConfirmed
SYMMETRY SlotSymmetry
CHECK_DEADLOCK FALSE
