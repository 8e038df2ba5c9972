SPECIFICATION Spec
CONSTANTS
    MaxDelay = 1
    MaxLosses = 0
    TornReads = TRUE
    FailingChecks = FALSE
    DllDies = FALSE
INVARIANTS
    ClosedOnlyWhenDead
CHECK_DEADLOCK FALSE
