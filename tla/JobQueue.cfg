\* One API job and one cron job, two workers, three attempts, one fault.
CONSTANTS
    a1 = a1
    a2 = a2
    c1 = c1
    w1 = w1
    w2 = w2
    ApiJobs = {a1}
    CronJobs = {c1}
    Workers = {w1, w2}
    MaxAttempts = 3
    MaxConcurrent = 1
    MaxFaults = 1
SPECIFICATION FairSpec
INVARIANTS
    OneLiveCopy
    AttemptsAscend
    NothingVanishes
    BurialIsFinal
PROPERTIES
    EveryJobEnds
    DeliveryContract
CHECK_DEADLOCK FALSE
