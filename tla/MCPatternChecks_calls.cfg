SPECIFICATION Spec
CONSTANTS
    Window = 3
    Rounds = 2
    MaxTreshold = 3
    MaxTicks = 4
    Yaws <- SomeYaws
    Moves <- SomeMoves
INVARIANTS
    DesyncIsAngular
    MicroAlternates
    FlagsAreSpaced
    CooldownHidesFew
