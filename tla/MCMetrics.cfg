SPECIFICATION Spec
CONSTANTS
    Workers = {w1, w2}
    Types = {t1, t2}
    Rounds = 2
    None = None
SYMMETRY Symmetry
INVARIANTS
    MetricsInv
    SafeCountersAreExact
    ReportIsFresh
