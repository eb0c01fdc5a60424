CONSTANTS
    a = a
    b = b
    c = c
    d = d
    e = e
    Requests = {r1, r2, r3}
    Symbols <- Stocks
    MaxItems = 2
    SingleWriter = FALSE
    Tables <- OneOrTwo
    Work <- Everything
SPECIFICATION Spec
SYMMETRY Perms
CHECK_DEADLOCK FALSE
PROPERTIES AddedReachesCommit
