SPECIFICATION FairSpec
CONSTANTS
    Workers = {w1, w2}
    Uploads = {u1}
    Shapes <- FaultShapes
    FaultKinds = {"timeout", "crash", "unlink", "record", "io"}
    MaxFaults = 2
INVARIANTS
    TypeOK
    StatesWellFormed
    SuspiciousRuleIsDead
    EnforcedBanIsRecorded
    NoDoubleCount
PROPERTIES
    DeletedIsJudged
    StoredIsJudged
