CONSTANTS
    Order <- MCOrder
    Size = 2
    TTL = 2
    MaxClock = 3
    MaxStarts = 3
SPECIFICATION Spec
CHECK_DEADLOCK FALSE
INVARIANTS TypeOK ListingIsRecent FailsAlone
PROPERTIES RestartSkipsDownload
