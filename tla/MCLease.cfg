CONSTANTS
    p1 = p1
    p2 = p2
    Procs = {p1, p2}
    Nobody = Nobody
    TTL = 30
    Interval = 10
    Delay = 1
    Skew = 3
    Misses = 1
SPECIFICATION Spec
SYMMETRY Symmetric
INVARIANTS
    LeaseKept
    LeaseBounded
PROPERTY LeaseImplementsLock
