\* Two requests in flight, two sessions, one page opened by the user, one refresh, one fault;
\* test mode, so that the pages open.
CONSTANTS
    r1 = r1
    r2 = r2
    Slots <- McSlots
    CookieGate = FALSE
    MaxSignIns = 2
    MaxVisits = 1
    MaxEdits = 3
    MaxJobs = 1
    MaxFaults = 1
SPECIFICATION FairSpec
INVARIANTS
    HintMatches
PROPERTIES
    SessionKept
    RenameConfirmed
    OnboardingEnds
CHECK_DEADLOCK FALSE
