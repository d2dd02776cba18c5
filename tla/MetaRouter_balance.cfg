SPECIFICATION BusySpec
CONSTANTS
    hub = hub
    kiro = kiro
    x = x
    krx = krx
    px = px
    t1 = t1
    None = None
    Strikes = 2
    Threshold = 1
    Routers <- MCRouters
    Lightweight = {hub}
    Rank <- MCRank
    Weight <- MCWeight
    Models <- MCModels
    Canonical <- MCCanonical
    ProviderOf <- MCProviderOf
    BareOf <- MCBareOf
    Catalog <- MCCatalog
    Dedicated = kiro
    DedicatedModels = {krx}
    TrainingModels = {krx}
    Requests = {t1}
PROPERTY TrafficIsBalanced
