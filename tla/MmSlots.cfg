\* Two processes that enter up to three times between them: a slot freed by one walk, or
\* by its process, while the other one's is the cursor, the next one or the neighbour.
CONSTANTS
    Mms = {m1, m2}
    MaxSlots = 3
SPECIFICATION FairSpec
INVARIANTS ListIntact LocalSlotsAllocated ReferenceExact WalkedTablesExist LocalDropsUnneeded FlagMatchesList
PROPERTY ExitedSlotFreed
\* After a race the behaviour ends.
CHECK_DEADLOCK FALSE
