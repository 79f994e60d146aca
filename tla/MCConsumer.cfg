SPECIFICATION FairSpec
CONSTANTS
    Workers = {w1, w2}
    MaxRetries = 1
    None = None
    Messages = {m1, m2, bad}
    Undecodable = {bad}
    MaxLives = 2
INVARIANTS
    ConsumerInv
    HandledOncePerLife
    GracefulStopRepeatsNothing
PROPERTIES
    ImplementsAtLeastOnce
    SettledIsFinal
    PoolIsUsedAsSpecified
    EveryMessageIsSettled
    ShutdownCompletes
