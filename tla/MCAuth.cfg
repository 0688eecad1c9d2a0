CONSTANTS
    a1 = a1
    a2 = a2
    r1 = r1
    r2 = r2
    Address <- MCAddress
    Request <- MCRequest
    ChallengeTTL = 2
    MaxNonces = 2
    MaxTime = 4
    MaxFaults = 1

SPECIFICATION Spec
SYMMETRY MCSymmetry
CHECK_DEADLOCK FALSE

INVARIANTS
    TokensAreEarned
    ConsumedIsGone
    TokensPerNonce
