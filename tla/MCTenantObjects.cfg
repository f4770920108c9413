CONSTANTS
    Tenant = "t"
    Addresses = {"vip1", "vip2"}
    MaxChanges = 2
SPECIFICATION FairSpec
INVARIANTS  Confined  RewriteKeeps  OnlyOffered SteadyNotRefused NameserverServed
PROPERTIES SuspensionTakesHold
CHECK_DEADLOCK FALSE
