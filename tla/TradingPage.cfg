CONSTANTS
    Symbols = {s1, s2}
    NoSymbol = NoSymbol
    MaxQuantity = 1
    Quantities = {0, 1, 2}
    Prices = {0, 1}
    MaxOpenings = 2
    MaxPosts = 2
    MaxVisits = 2
SPECIFICATION Spec
CHECK_DEADLOCK FALSE
INVARIANTS ReviewedBeforeSent NoDoubleSubmit SuccessBannerIsCurrent ListCatchesUp
