SPECIFICATION FairSpec
CONSTANTS
    CBFailureThreshold = 1
    CBSuccessThreshold = 1
    CBWindow = 1
    CBOpenTimeout = 1
    CBHalfOpenMax = 1
    MaxFailures = 3
    MaxCooldown = 2
    MinCooldown = 1
    RequestScopedCooldown = 1
    TransportShort = 1
    TransportLong = 2
    JitterPercents = {100}
    ProbingWindow = 1
    p = p
    m = m
    Providers <- MCProviders
    Models <- MCModels
    ProviderOf <- MCProviderOf
    Errors <- MCErrors
    Phantoms = {}
INVARIANTS TypeOK OnlyCausesDisable

PROPERTIES EverythingComesBack AvailabilityIsKept
