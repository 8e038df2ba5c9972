SPECIFICATION FairSpec
CONSTANTS
    BatchSize = 3
    MaxPackets = 10
    Failures = {"thread", "lost", "append", "exit"}
INVARIANTS
    ExactlyOnce
PROPERTIES
    IsLossyChannel
    FullBatchArrives
CHECK_DEADLOCK FALSE
