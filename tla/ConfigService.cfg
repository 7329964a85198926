SPECIFICATION ConfigSpec
CONSTANTS
    d1 = d1
    d2 = d2
    lacking = lacking
    outOfRange = outOfRange
    e1 = e1
    e2 = e2
    w1 = w1
    w2 = w2
    l1 = l1
    l2 = l2
    None = None
    Docs <- MCDocs
    Legacy <- MCLegacy
    Upgrade <- MCUpgrade
    Default = d1
    Events <- MCEvents
    Windows <- MCWindows
    Loads <- MCLoads
    MaxVersion = 3
    MaxChanges = 1
    MaxMishaps = 1
INVARIANTS
    ServedIsCurrent
    VersionsNameDocuments
SYMMETRY Alike
CHECK_DEADLOCK FALSE
