CONSTANTS
    Tasks = {r1, r2, a1}
    Requests = {r1, r2}
    NoTask = NoTask
    MaxAdminCalls = 1
    MaxRetries = 2
    MaxIssued = 2
    Interval = 0
    MaxClock = 0
SPECIFICATION FairSpec
INVARIANTS TypeOK NoNeedlessIssue ExecutedAtMostOnce RetryOnlyAfterRejection RetryCarriesNewerToken
PROPERTIES RevokedNeverSent ImplementsCallOnce ImplementsTokenCell EveryRequestEnds EveryOperationReturns
CHECK_DEADLOCK FALSE
