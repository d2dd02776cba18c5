SPECIFICATION Spec
CONSTANTS
    CBFailureThreshold = 2
    CBSuccessThreshold = 1
    CBWindow = 1
    CBOpenTimeout = 1
    CBHalfOpenMax = 1
    MaxFailures = 3
    MaxCooldown = 3
    MinCooldown = 1
    RequestScopedCooldown = 1
    TransportShort = 1
    TransportLong = 2
    JitterPercents = {50, 100}
    ProbingWindow = 2
    p = p
    m = m
    Providers <- MCProviders
    Models <- MCModels
    ProviderOf <- MCProviderOf
    Errors <- MCErrors
    Phantoms = {}
INVARIANTS ConsecutiveFailuresDisable

