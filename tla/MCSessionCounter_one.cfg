SPECIFICATION CounterSpec
CONSTANTS
    Agents = {a1}
    Inodes = {i1, i2, i3}
    MaxStarts = 5
    MaxCrashes = 3
    MaxFailed = 2
    NoInode = NoInode
SYMMETRY Sym
CHECK_DEADLOCK FALSE
INVARIANT CounterInv
