SPECIFICATION FairSpec
CONSTANTS
    Messages = {m1, m2}
    Undecodable = {m2}
    HasDeadLetterExchange = TRUE
    MaxLives = 2
INVARIANTS
    DeadLettersInv
PROPERTIES
    ImplementsAtLeastOnce
    DeadLettersAreSettled
