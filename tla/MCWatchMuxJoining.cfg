SPECIFICATION Spec
CONSTANTS
    a = a
    b = b
    other = other
    Namespaces = {a, b}
    Existing = {a}
    Elsewhere = other
    History <- Foreign
    StartRev = 1
    Bookmarks = TRUE
    InitialEvents = FALSE
    Attempts = 1
    MaxRev = 3
INVARIANTS
    BookmarkCoversNewNamespaces
