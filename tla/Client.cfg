\* Three requests in each mode: metadata of three registrations with results of up
\* to three parts and a reserve of two buffers, or single operations of one
\* registration; an answer may overtake the completion of its SEND, and the server
\* may end at any time.
SPECIFICATION FairSpec
CONSTANTS
    Modes = {"BASK", "STYX"}
    MaxRequests = 3
    MaxLosses = 1
    RegCount = 3
    MaxTables = 3
    MAX_HUGE_ALLOC = 2
    ArmSeesPending = TRUE
INVARIANTS TypeOK ResultIsOfThisRequest OnlyRegistrationsPolled AnswerFindsReceive GivesUpForCause
PROPERTY RequestEndsWhileUp
\* ksmd stops at the bound, and waits for ever when the server ended unnoticed.
CHECK_DEADLOCK FALSE
