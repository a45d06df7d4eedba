\* One worker, one API job and one cron job, an exception, a crash, an unlink.
CONSTANTS
    a1 = a1
    a2 = a2
    c1 = c1
    ApiJobs = {a1}
    CronJobs = {c1}
    Jobs = {a1, c1}
    MaxAttempts = 2
    WorkerCount = 1
    Lookback = 2
    Window = 1
    Genesis = 10
    NullKeyOk = TRUE
    Fractional = {1}
    StartHead = 1
    MaxHead = 2
    MaxFailures = 1
    MaxFaults = 1
SPECIFICATION Spec
INVARIANTS
    ViewsAgree
    ScoredAtMostOnce
PROPERTIES
    CursorNeverSkips
CHECK_DEADLOCK FALSE
