SPECIFICATION Spec
CONSTANTS
    States <- MCStates
    NoSession <- MCNoSession
    ChannelSize = 2
    Threads = {1, 2}
    Devices = {d1, d2}
    Sectors = {s}
    Cpus = {0, 1}
    Lines = {9}
    Jobs = {1, 2, 3}
    MapSize = 2
    RingSize = 2
    MaxCalls = 3
    MaxClock = 2
    Bounds <- MCBounds
    Slow = 0
    Spike = 0
    TopThreads = 1
    Ccx <- MCCcx
    Hosts <- MCHosts
    MaxTicks = 2
    WarnInterval = 1
CHECK_DEADLOCK FALSE
INVARIANTS EbpfInv LatencyTrue FilterFollowsState DocumentsTrue
PROPERTY SignalStops
