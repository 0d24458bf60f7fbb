SPECIFICATION Spec
CONSTANTS
    Ids = {1, 2}
    Exchanges <- MCExchanges
    Counterparties = {"vtbr"}
    Reference <- MCReference
    MaxCommits = 3
INVARIANTS
    NeverCrashes
