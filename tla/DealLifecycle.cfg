SPECIFICATION Spec
CONSTANTS
    Users <- MCUsers
    Role <- MCRole
    Terms <- MCTerms
    Dates <- MCDates
    Settle <- MCSettle
INVARIANTS
    TypeOK
    PaymentsCurrent
    ValidIsPriced
    QueuedIsPriced
    ExecutedDelivered
    DecisionOnRecord
PROPERTIES
    AuditUnbroken
    KeepsPromise
