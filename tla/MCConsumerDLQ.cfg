SPECIFICATION Spec
CONSTANTS
    Workers = {w1}
    MaxRetries = 1
    None = None
    Messages = {m1}
    Undecodable = {}
    MaxLives = 1
INVARIANT
    FailedReachDLQ
