SPECIFICATION Spec
CONSTANTS
    Models = {a, b, dead}
    Blocked = {dead}
    Static = {a}
    Retired = {a}
    MinWrite = 2
    Requests = {r1}
    Refresher = refresher
INVARIANT FileIsNeverTorn
