SPECIFICATION FairSpec
CONSTANTS
    Sizes = {0, 1, 2}
    MaxStarts = 2
    MaxJobs = 4
INVARIANTS
    RestartInv
PROPERTIES
    StoppedForGood
    WorkersEnd
