SPECIFICATION Spec
CONSTANTS
    None = None
    Cores <- MCCores
    Disks <- MCDisks
    Interfaces <- MCInterfaces
    Virtual <- MCVirtual
    MountDevice = None
    Pids = {1, 2}
    Fds = {1, 2, 3}
    Contexts = {1, 2, 3}
    Engines <- MCEngines
    Unnamed = {3}
    Ttl = 2
    MaxFiles = 2
    MaxStarts = 2
    Apps = {a, b}
    Pipes <- MCPipes
    Logs = {l1, l2}
    ResolveTicks = 2
    CheckTicks = 2
    BackoffMax = 2
    Window = 2
    Workloads <- MCWorkloads
CHECK_DEADLOCK FALSE
INVARIANT CollectorsInv
PROPERTIES RatesTrue BusyTrue LogFollowed GameGetsReader ShutdownEnds
