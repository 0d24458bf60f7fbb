SPECIFICATION Spec
CONSTANTS
    N = 2
    Retries = 3
INVARIANTS
    TypeOK
    DuplicatesExplained
    AtMostRetries
    BackoffBounded
PROPERTIES
    KeepsContract
    SendEnds
CHECK_DEADLOCK FALSE
