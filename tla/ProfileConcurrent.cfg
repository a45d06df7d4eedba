\* A PATCH and a projection that overlap, a read, one fault, under fairness.
CONSTANTS
    p1 = p1
    p2 = p2
    j1 = j1
    j2 = j2
    r1 = r1
    r2 = r2
    s1 = s1
    s2 = s2
    Patches = {p1}
    Projections = {j1}
    Readers = {r1}
    Slugs = {s1, s2}
    MaxWriters = 2
    MaxFaults = 1
SPECIFICATION FairSpec
INVARIANTS
    OneViewPerVersion
PROPERTIES
    EventuallyFresh
CHECK_DEADLOCK FALSE
