SPECIFICATION QuietSpec
CONSTANTS
    MaxChoke = 14
    MaxScore = 6
INVARIANTS
    PeakIsOfThisCycle
    FlagTakesThreeCycles
PROPERTIES
    RaisedAtCycleEnd
    FlagRunsOut
    FlagDecays
