SPECIFICATION ReportersFairSpec
CONSTANTS
    Clients = {c1, c2}
INVARIANTS
    ReportersInv
PROPERTIES
    ShutdownCompletes
