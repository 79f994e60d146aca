SPECIFICATION Spec
CONSTANTS
    Width = 16
    MaxDelay = 1200
    Types <- AllTypes
    Ids <- AllIds
    RetryCounts = {0, 2}
    MaxRetries <- MCRetries
    RetryTimeouts <- Timeouts
    RetryDelays <- MCDelays
    CanCancel = TRUE
INVARIANTS
    JobInv
    JobTimeIsBounded
    RejectionIsEarned
    BackoffGrowsToTheCap
