SPECIFICATION FairSpec
CONSTANTS
    Pids <- TwoPids
    Offences = {"tool"}
    Limit = 5
    MaxEvents = 0
    MaxLaunches = 2
    MaxFailures = 0
PROPERTIES
    ToolClosesGame
