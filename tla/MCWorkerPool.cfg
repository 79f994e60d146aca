SPECIFICATION FairSpec
CONSTANTS
    Workers = {w1, w2}
    Jobs = {j1, j2, j3}
    MaxRetries = 1
    ParentCancels = TRUE
    None = None
INVARIANTS
    PoolInv
    GracefulStopIsClean
PROPERTIES
    SendOnlyOnOpenChannel
    WorkIsBounded
    ImplementsJobService
    ImplementsPoolLifecycle
    StopCompletes
    SubmittedIsSettled
