\* Two models, of which the static list has one, and a third that the
\* filters drop; a request and the refresher.
SPECIFICATION FairSpec
CONSTANTS
    Models = {a, b, dead}
    Blocked = {dead}
    Static = {a}
    Retired = {a}
    MinWrite = 2
    Requests = {r1}
    Refresher = refresher
INVARIANTS TypeOK NothingBlockedIsServed
PROPERTY DisabledModelsLeave
