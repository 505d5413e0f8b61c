\* A short of 8 values wraps at iteration 4.
CONSTANTS
    Items = {i1, i2}
    Pfns = {p1, p2}
    Hashes = {h1, h2}
    NullHash = NullHash
    NoPfn = NoPfn
    NoItem = NoItem
    MAX_PAGE_SHARING = 2
    RMAP_PRUNE_MARGIN = 0
    ShortRange = 8
    OldOps = FALSE
    SMART_SCAN_ON = FALSE
    MaxNodes = 4
    MaxIteration = 6
SPECIFICATION Spec
SYMMETRY MCSymmetry
INVARIANT PruneOnlyUnaccessed
\* The server stops when its connection fails, and at the bounds.
CHECK_DEADLOCK FALSE
