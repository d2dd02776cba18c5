SPECIFICATION Spec
CONSTANTS
    CBFailureThreshold = 5
    CBSuccessThreshold = 3
    CBWindow = 2
    CBOpenTimeout = 1
    CBHalfOpenMax = 3
    Requests = {r1, r2, r3, r4, r5}
SYMMETRY Symmetry
INVARIANTS MaxConcurrentRequestsInHalfOpen
