SPECIFICATION Spec
CONSTANTS
    a1 = a1
    a2 = a2
    b1 = b1
    b2 = b2
    pa = pa
    pb = pb
    Models <- MCModels
    Providers <- MCProviders
    ProviderOf <- MCProviderOf
    Routers = {r1, r2}
    MaxRetries = 2
    None = None
INVARIANTS TimedOutModelsLeaveRotation
