\* One request to a server that stays up.
SPECIFICATION Spec
CONSTANTS
    Modes = {"BASK"}
    MaxRequests = 1
    MaxLosses = 0
    RegCount = 1
    MaxTables = 1
    MAX_HUGE_ALLOC = 2
    ArmSeesPending = TRUE
INVARIANT AnswerNotLost
\* ksmd stops at the bound on the requests.
CHECK_DEADLOCK FALSE
