SPECIFICATION OverviewSpec
CONSTANTS
    Users <- MCUsers
    Role <- MCRole
    Terms <- MCTerms
    Dates <- MCDates
    Settle <- MCSettle
    Days <- MCDays
    Due <- MCDue
    Slots = {s1}
    MaxRequests = 7
INVARIANT NothingMissed
PROPERTY ServesSerially
CHECK_DEADLOCK FALSE
