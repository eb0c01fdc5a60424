CONSTANTS
    a = a
    b = b
    c = c
    d = d
    e = e
    Requests = {r1, r2, r3}
    Symbols <- Stocks
    MaxItems = 2
    SingleWriter = FALSE
    Tables <- OneOrTwo
    Work <- Colliding
SPECIFICATION FairSpec
CHECK_DEADLOCK FALSE
INVARIANTS SymbolsUnique
PROPERTIES AllOrNothing RemovesOnlyReported EveryTransactionEnds
