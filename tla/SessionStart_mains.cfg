SPECIFICATION Spec
CONSTANTS
    MaxMains = 2
    MaxGames = 1
    MaxFaults = 0
    WaitTime = 0
    BeatPeriod = 1
    FirstCheck = 2
    CheckPeriod = 1
    MaxAge = 1
    MaxDelay = 0
CHECK_DEADLOCK FALSE
INVARIANTS
    IdIsWhole
    IdIsThatOfTheMain
PROPERTIES
    ClosedForAReason
    UnattendedGameEnds
