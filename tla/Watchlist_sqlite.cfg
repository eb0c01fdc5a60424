CONSTANTS
    a = a
    b = b
    c = c
    d = d
    e = e
    Requests = {r1, r2, r3}
    Symbols <- MoreStocks
    MaxItems = 2
    SingleWriter = TRUE
    Tables <- OneOrTwo
    Work <- Crowding
SPECIFICATION Spec
SYMMETRY Perms
CHECK_DEADLOCK FALSE
INVARIANTS OvershootBounded
PROPERTIES AddedReachesCommit
