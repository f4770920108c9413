CONSTANTS
    home = home
    web = web
    b1 = b1
    b2 = b2
    b3 = b3
    c1 = c1
    c2 = c2
    Spaces = {home, web}
    Home = home
    Bindings = {b1}
    Clients = {c1, c2}
    Verbs <- Recreated
    Limit = 0
    MaxWrites = 2
    MaxCalls = 3
SPECIFICATION Spec
INVARIANT WrittenRecordStays
