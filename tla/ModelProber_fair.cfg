SPECIFICATION FairProberSpec
CONSTANTS
    a = a
    b = b
    c = c
    Tracked = {a, b, c}
    ScanOrder <- MCScanOrder
    Batch = 1

PROPERTY EveryDueModelIsTested
