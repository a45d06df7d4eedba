\* Two requests at a time; three events of at most two customers.
CONSTANTS
    h1 = h1
    h2 = h2
    Handlers <- McHandlers
    MaxCustomers = 2
    MaxEvents = 3
    MaxCheckouts = 2
    MaxDuplicates = 1
    MaxFaults = 1
SPECIFICATION Spec
INVARIANTS
    SubscriptionRules
    TierAgrees
    PlanFollowsPayments
CHECK_DEADLOCK FALSE
