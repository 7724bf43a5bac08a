SPECIFICATION FairSpec
CONSTANTS
    Inodes = {i1, i2}
    MaxLines = 3
    MaxGens = 2
    BatchLines = 2
    Env = {"remove", "truncate"}
    Faults = {"persist", "bulk"}
    MaxFaults = 1
    MaxCrashes = 1
    Junk = Junk
    None = None
CHECK_DEADLOCK FALSE
INVARIANTS TailerInv CheckpointAcked
PROPERTY EventuallyDelivered
