SPECIFICATION PromptSpec
CONSTANTS
    Workers = {w1, w2}
    Jobs = {j1, j2}
    MaxRetries = 1
    ParentCancels = FALSE
    None = None
SYMMETRY Symmetry
INVARIANT
    ShutdownFinishesJobs
