SPECIFICATION FairSpec
CONSTANTS
    Calls = {c1, c2}
    MaxRow = 3
INVARIANTS TypeOK RowsAreReportedOnce
PROPERTIES FeedIsServed QuietLosesNothing
CHECK_DEADLOCK FALSE
