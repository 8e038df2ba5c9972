SPECIFICATION Spec
CONSTANTS
    Slots = 4
    Commands <- SomeCommands
INVARIANTS
    PreviousAgree
PROPERTIES
    BacktrackIsAStepBack
    FlicksAreReported
    RageAimHasCause
