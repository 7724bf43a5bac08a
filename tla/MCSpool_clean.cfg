SPECIFICATION FairSpec
CONSTANTS
    s1 = s1
    s2 = s2
    r1 = r1
    r2 = r2
    r3 = r3
    Slugs = {s1, s2}
    Records = {r1, r2, r3}
    SlugOf <- TwoSlugs
    MaxFileBytes = 3
    AgeRotation = TRUE
    MinPublished = 3
    Millis = {0}
    MaxSeq = 8
    Faults = {"sweep", "stage", "reserve", "rename", "dispose", "open", "write", "flush", "unlink"}
    MaxFaults = 1
    MaxCrashes = 1
    NL = NL
    Torn = Torn
    None = None
    NoFile = NoFile
INVARIANTS FinalsWhole NoDuplicate
PROPERTY Published
