CONSTANTS
    n1 = n1
    q1 = q1
    q2 = q2
    q3 = q3
    q4 = q4
    NoId = none
    Namespaces = {n1}
    Ids = {q1, q2, q3, q4}
    MaxSpec = 2
    MaxMoves = 2
    MaxLags = 1
    MaxFailures = 1
SPECIFICATION FairSpec
PROPERTIES  CreatedMatchingHasQuota NoDuplicateStays 
