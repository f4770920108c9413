CONSTANTS
    n1 = n1
    q1 = q1
    q2 = q2
    q3 = q3
    q4 = q4
    NoId = none
    Namespaces = {n1}
    Ids = {q1, q2, q3, q4}
    MaxSpec = 1
    MaxMoves = 2
    MaxLags = 1
    MaxFailures = 0
SPECIFICATION FairSpec
PROPERTY EveryMatchedHasQuota
