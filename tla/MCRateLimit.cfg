CONSTANTS
    a1 = a1
    a2 = a2
    a3 = a3
    Address <- MCAddress
    Rate = 1
    Token = 2
    Full = 4
    Stale = 3
    MaxBuckets = 2
    MaxTime = 5

SPECIFICATION Spec
CHECK_DEADLOCK FALSE

INVARIANTS
    WindowIsBounded
PROPERTIES
    ImplementsLimiter
