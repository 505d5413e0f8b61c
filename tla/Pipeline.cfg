\* Three tables of several buffers, three addresses for at most two buffers.
CONSTANTS
    PageCounts <- MCPageCounts
    MAX_PAGES_IN_SGL = 3
    PRE_HASH_NUM = 2
    PRE_HASH_ON = TRUE
    Buffers = {b1, b2, b3}
    NoBuf = NoBuf
SPECIFICATION FairSpec
INVARIANTS TypeOK JobBufferHeld PreHashInStep
PROPERTIES ScansSerially ScanEnds
