SPECIFICATION Spec
CONSTANTS
    None = None
    MaxElements = 7
    MaxElementChars = 2
    MaxDisplayChars = 33
    MaxKeywordChars = 3
    MaxEventBytes = 21
    Schema = 1
    PrecursorWindow = 2
    Tolerance = 1
    SmuMin = 2
    ResetMin = 1
    JournalLimit = 3
    Grace = 1
    Inputs <- MCInputs
    Uuids = {"c1", "c2"}
    VersionLists <- MCVersionLists
    Statuses = {200, 204, 302, 400, 401, 404, 405, 408, 500}
    MaxVersions = 2
    MaxChanges = 1
    Calls <- MCCalls
    Contexts <- MCContexts
CHECK_DEADLOCK FALSE
INVARIANTS CliInv DisplayVerdictRight JournalsRight ProbeAgreed
PROPERTY ProbeEnds
