CONSTANTS
    crd = crd
    v1 = v1
    r1 = r1
    r2 = r2
    Names = {crd}
    Versions = {v1}
    Verbs = {"create", "watch"}
    Requests = {r1, r2}
    MaxRev = 3
    MaxLive = 1
SPECIFICATION FairSpec
INVARIANTS NothingStaleStays NoStorageLost DrainedFirst
PROPERTIES  DeadStorageGoes Answered
