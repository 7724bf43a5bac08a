SPECIFICATION Spec
CONSTANTS
    Games = {g1, g2}
    Pids = {p1, p2}
    Profiled = {g1}
    MaxTicks = 5
    MaxRuns = 2
    MaxFaults = 1
    MaxDays = 2
    None = None
SYMMETRY Sym
CHECK_DEADLOCK FALSE
INVARIANTS SessionInv TicksSummarisedOnce LabelsDistinct
