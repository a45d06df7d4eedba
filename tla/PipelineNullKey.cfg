\* One job without a failure: a fact without log index cannot be stored.
CONSTANTS
    a1 = a1
    a2 = a2
    c1 = c1
    ApiJobs = {a1}
    CronJobs = {}
    Jobs = {a1}
    MaxAttempts = 2
    WorkerCount = 1
    Lookback = 2
    Window = 1
    Genesis = 10
    NullKeyOk = FALSE
    Fractional = {}
    StartHead = 1
    MaxHead = 1
    MaxFailures = 0
    MaxFaults = 0
SPECIFICATION Spec
INVARIANTS
    DeadNeedsFailures
CHECK_DEADLOCK FALSE
