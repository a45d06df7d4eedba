\* Two requests at a time, four in all; a premium user may have two wallets.
CONSTANTS
    a1 = a1
    a2 = a2
    a3 = a3
    a4 = a4
    c1 = c1
    n1 = n1
    h1 = h1
    h2 = h2
    Addresses <- McAddresses
    Chains <- McChains
    Nonces <- McNonces
    Handlers <- McHandlers
    Asks = {"unset"}
    PremiumLimit = 2
    MaxUsers = 2
    MaxRequests = 4
    MaxFaults = 1
SPECIFICATION Spec
SYMMETRY Symmetric
INVARIANTS
    OvershootBounded
    KeepsPrimary
    NonceOnce
PROPERTIES
    OthersUntouched
CHECK_DEADLOCK FALSE
