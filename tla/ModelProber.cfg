SPECIFICATION FairProberSpec
CONSTANTS
    a = a
    b = b
    c = c
    Tracked = {a, b, c}
    ScanOrder <- MCScanOrder
    Batch = 2
INVARIANT ScansTest
PROPERTY FewAreAllTested
