SPECIFICATION PublisherFairSpec
CONSTANTS
    Modes = {"cli", "continuous"}
    TestEvents = 5
    MaxCounter = 5
INVARIANTS
    PublisherInv
PROPERTIES
    PublisherEnds
    EventsKeepComing
