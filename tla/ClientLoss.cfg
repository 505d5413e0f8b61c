\* The same requests under fairness, with a server that ends once.
SPECIFICATION FairSpec
CONSTANTS
    Modes = {"BASK"}
    MaxRequests = 2
    MaxLosses = 1
    RegCount = 3
    MaxTables = 3
    MAX_HUGE_ALLOC = 2
    ArmSeesPending = TRUE
PROPERTY RequestEnds
\* ksmd stops at the bound on the requests; a wait for ever violates RequestEnds.
CHECK_DEADLOCK FALSE
