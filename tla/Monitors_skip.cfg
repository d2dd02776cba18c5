SPECIFICATION FairSpec
CONSTANTS
    Calls = {c1, c2}
    MaxRow = 3
PROPERTY NoRowIsSkipped
CHECK_DEADLOCK FALSE
