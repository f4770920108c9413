CONSTANTS
    n1 = n1
    n2 = n2
    spec = spec
    labels = labels
    c1 = c1
    c2 = c2
    Names = {n1, n2}
    Keys = {spec, labels}
    Clients = {c1, c2}
    Verbs = {"create", "put", "patch", "apply", "delete", "deletecollection"}
    Versioned = {"put"}
    Unversioned = {"create", "patch", "apply", "delete", "deletecollection"}
    Supplies = TRUE
    Custom = TRUE
    Limit = 1
    MaxRev = 4
    MaxCalls = 3
SPECIFICATION FairSpec
INVARIANTS HiddenIsPlatforms CapOvershoot
PROPERTIES OnlyItsKey  RetryMeansRaced Answered
