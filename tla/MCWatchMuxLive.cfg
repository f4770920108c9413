SPECIFICATION FairSpec
CONSTANTS
    a = a
    b = b
    other = other
    Namespaces = {a, b}
    Existing = {a}
    Elsewhere = other
    History <- OneObject
    StartRev = 1
    Bookmarks = TRUE
    InitialEvents = TRUE
    Attempts = 1
    MaxRev = 2
INVARIANTS
    ReplayEndComplete
PROPERTIES
    ReplayEndAnnounced
    Drains
    CoverageLossTold
