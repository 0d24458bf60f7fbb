SPECIFICATION Spec
CONSTANTS
    Ids = {1, 2}
    Exchanges <- MCExchanges
    Counterparties = {"vtbr"}
    Reference <- MCReference
    MaxCommits = 7
INVARIANTS
    TypeOK
    ExportResolved
    CrashExplained
    ExactWhenQuiet
