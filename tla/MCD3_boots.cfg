SPECIFICATION Spec
CONSTANTS
    PrecursorWindow = 2
    Tolerance = 0
    SmuMin = 1
    ResetMin = 1
    JournalLimit = 3
    Grace = 0
    None = None
    Schema = 1
    MaxElements = 2
    MaxElementChars = 2
    MaxDisplayChars = 9
    MaxKeywordChars = 2
    MaxEventBytes = 20
    Runs = {r1, r2}
    Buses <- MCBuses
    FirstBus <- Present
    Slots <- MCSlots
    Bridges = {"b0"}
    Tails <- MCTails
    LockTries = 2
    MaxBoots = 3
    MaxRuns = 4
    MaxKills = 1
    MaxFaults = 1
SYMMETRY Sym
CHECK_DEADLOCK FALSE
INVARIANTS D3Inv RecoveredOnce VerdictTrueOfBoot
PROPERTY BaselineKept
