SPECIFICATION FairSpec
CONSTANTS
    provider = provider
    other = other
    a = a
    b = b
    None = None
    Providers <- MCProviders
    Errors <- MCErrors
    TestModels <- MCTestModels
INVARIANT TypeOK
PROPERTIES NewsIsHeeded ProvidersReturn
