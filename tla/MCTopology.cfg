SPECIFICATION Spec
CONSTANTS
    Procs = {p1, p2}
    Patterns <- MCPatterns
    Events <- MCEvents
    DialTries = 2
SYMMETRY Symmetry
INVARIANTS
    TopologyInv
PROPERTIES
    NothingDroppedOnceBound
    QueueKeepsEvents
