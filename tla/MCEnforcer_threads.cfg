SPECIFICATION FairSpec
CONSTANTS
    Pids <- TwoPids
    Offences = {"dll", "tool", "vm"}
    Limit = 2
    MaxEvents = 2
    MaxLaunches = 2
    MaxFailures = 1
INVARIANTS
    KillJustified
PROPERTIES
    FlagClosesGame
    NoFlagIsLost
    OthersAreSpared
