CONSTANTS
    Tasks = {r1, r2}
    Requests = {r1, r2}
    NoTask = NoTask
    MaxAdminCalls = 0
    MaxRetries = 1
    MaxIssued = 2
    Interval = 1
    MaxClock = 3
SYMMETRY RequestSymmetry
SPECIFICATION Spec
INVARIANTS PaceKept GrantsSpaced
CHECK_DEADLOCK FALSE
