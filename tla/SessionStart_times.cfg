SPECIFICATION Spec
CONSTANTS
    MaxMains = 1
    MaxGames = 2
    MaxFaults = 2
    WaitTime = 5
    BeatPeriod = 5
    FirstCheck = 22
    CheckPeriod = 10
    MaxAge = 15
    MaxDelay = 5
CHECK_DEADLOCK FALSE
PROPERTIES
    ClosedForAReason
    UnattendedGameEnds
