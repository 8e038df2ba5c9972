SPECIFICATION FairSpec
CONSTANTS
    Workers = {w1, w2}
    Uploads = {u1, u2}
    Shapes <- AllShapes
    FaultKinds = {"unlink"}
    MaxFaults = 1
INVARIANTS
    AuditAgrees
    PiecesHideNothing
PROPERTIES
    IsBanLatch
    BanReachesHandler
