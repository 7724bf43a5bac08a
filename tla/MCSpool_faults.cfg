SPECIFICATION Spec
CONSTANTS
    s1 = s1
    s2 = s2
    r1 = r1
    r2 = r2
    r3 = r3
    Slugs = {s1}
    Records = {r1, r2}
    SlugOf <- OneSlug
    MaxFileBytes = 3
    AgeRotation = TRUE
    MinPublished = 3
    Millis = {0}
    MaxSeq = 8
    Faults = {"sweep", "stage", "reserve", "rename", "dispose", "open", "write", "newline", "torn", "flush", "pad", "unlink"}
    MaxFaults = 2
    MaxCrashes = 2
    NL = NL
    Torn = Torn
    None = None
    NoFile = NoFile
INVARIANTS TypeOK NoLoss FewReservations
PROPERTY FinalsKept
