CONSTANTS
    n1 = n1
    n2 = n2
    spec = spec
    labels = labels
    c1 = c1
    c2 = c2
    Names = {n1}
    Keys = {spec}
    Clients = {c1, c2}
    Verbs = {"create", "patch"}
    Versioned = {"patch"}
    Unversioned = {"create"}
    Supplies = FALSE
    Custom = FALSE
    Limit = 0
    MaxRev = 4
    MaxCalls = 4
SPECIFICATION Spec
PROPERTY RetryMeansRaced
