\* Writers one after the other, two reads at any moment.
CONSTANTS
    p1 = p1
    p2 = p2
    j1 = j1
    j2 = j2
    r1 = r1
    r2 = r2
    s1 = s1
    s2 = s2
    Patches = {p1, p2}
    Projections = {j1}
    Readers = {r1, r2}
    Slugs = {s1}
    MaxWriters = 1
    MaxFaults = 0
SPECIFICATION Spec
SYMMETRY Symmetric
INVARIANTS
    SettledProjection
    AtMostOneBehind
CHECK_DEADLOCK FALSE
