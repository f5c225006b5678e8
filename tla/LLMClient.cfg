\* Three concurrent requests, thresholds of two, one retry.
SPECIFICATION FairSpec
CONSTANTS
    r1 = r1
    r2 = r2
    r3 = r3
    Requests <- ThreeRequests
    FailureThreshold = 2
    SuccessThreshold = 2
    MaxAttempts = 2
INVARIANTS
    TypeOK
    InFlightMatches
    PermitAccounted
    SingleProbe
PROPERTY EarnedTransitions
PROPERTY Recovers
