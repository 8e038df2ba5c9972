SPECIFICATION FairSpec
CONSTANTS
    MaxDelay = 1
    MaxLosses = 1
    TornReads = TRUE
    FailingChecks = TRUE
    DllDies = TRUE
INVARIANTS
    NoFalseQuit
    DeathIsNoticed
PROPERTIES
    DeathClosesGame
CHECK_DEADLOCK FALSE
