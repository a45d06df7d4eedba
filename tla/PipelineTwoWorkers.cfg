\* Two workers that may have both jobs of the wallet at once.
CONSTANTS
    a1 = a1
    a2 = a2
    c1 = c1
    ApiJobs = {a1}
    CronJobs = {c1}
    Jobs = {a1, c1}
    MaxAttempts = 2
    WorkerCount = 2
    Lookback = 1
    Window = 0
    Genesis = 10
    NullKeyOk = TRUE
    Fractional = {}
    StartHead = 0
    MaxHead = 0
    MaxFailures = 2
    MaxFaults = 0
SPECIFICATION FairSpec
INVARIANTS
    StuckExplained
    CompletedHasSnapshot
PROPERTIES
    IndexingEnds
CHECK_DEADLOCK FALSE
