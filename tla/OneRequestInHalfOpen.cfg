SPECIFICATION Spec
CONSTANTS
    r1 = r1
    r2 = r2
    r3 = r3
    Requests <- ThreeRequests
    FailureThreshold = 1
    SuccessThreshold = 2
    MaxAttempts = 1
INVARIANT OneRequestInHalfOpen
