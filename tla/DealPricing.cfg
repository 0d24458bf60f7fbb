SPECIFICATION Spec
CONSTANTS
    Currencies = {"USD", "RUB"}
    Counterparties = {"vtbr", "sber"}
    TradeDates = {4, 5}
    ValueDates = {3, 7, 9}
    Amounts = {4, 10, 300}
    Rates = {4, 50, 150}
    Unit = 10
    MaxMoney = 45
    Weekend = {5, 6}
    Window = 4
    Patience = 6
    Reference <- MCReference
    MaxChanges = 1
INVARIANTS
    TypeOK
    SettlesOnTime
    PaymentsBalance
    LimitsRespected
    PositiveAmounts
    RevalidationStable
