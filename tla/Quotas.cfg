\* Two requests at a time, two days, two wallets, every daily limit is one.
CONSTANTS
    h1 = h1
    h2 = h2
    w1 = w1
    w2 = w2
    Handlers <- McHandlers
    Wallets <- McWallets
    ExportLimit = 1
    RefreshLimit = 1
    MaxDays = 2
    MaxRequests = 3
    MaxFaults = 1
SPECIFICATION FairSpec
INVARIANTS
    ExportsBounded
    PendingExplained
    RefreshInTurn
PROPERTIES
    MinutePasses
CHECK_DEADLOCK FALSE
