SPECIFICATION Spec
CONSTANTS
    Games = {g1, g2}
    MaxWrites = 3
    MaxTree = 1
    ChannelSize = 16
    Window = FALSE
    Idle = Idle
    Empty = Empty
CHECK_DEADLOCK FALSE
INVARIANT WatcherInv
PROPERTIES FilterFollowsFile Delivers
