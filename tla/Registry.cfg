\* Two processes of the API, two requests at a time.
CONSTANTS
    i1 = i1
    i2 = i2
    r1 = r1
    r2 = r2
    Instances <- McInstances
    Requests <- McRequests
    MaxRequests = 2
    MaxFaults = 1
SPECIFICATION FairSpec
INVARIANTS
    CacheExact
    PageShowsWork
PROPERTIES
    StaleEnds
CHECK_DEADLOCK FALSE
