SPECIFICATION FairSpec
CONSTANTS
    Goroutines = {g1, g2, g3, g4}
    Max = 2
INVARIANTS
    IndInv
PROPERTIES
    ImplementsSemaphore
    WaitersAreServed
