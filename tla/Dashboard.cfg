CONSTANTS
    Symbols = {s1, s2, s3}
    Domestic = {s1, s2}
    None = None
    SingleWriter = TRUE
    Tables <- MCTables
    Moments <- MCMoments
    MaxCalls = 1
    MaxBirths = 2
    MaxVisits = 1
SPECIFICATION FairSpec
INVARIANTS TypeOK AddedIsOwn
PROPERTIES SparesOthers ListHeals
