\* The same with pages given back, and without pruning on the server.
CONSTANTS
    Items = {1, 2, 3}
    Pfns = {p1, p2, p3, p4, p5}
    Hashes = {h1, h2}
    NullHash = NullHash
    NoPfn = NoPfn
    NoItem = 0
    MAX_PAGE_SHARING = 3
    RMAP_PRUNE_MARGIN = 3
    ShortRange = 16
    OldOps = FALSE
    SMART_SCAN_ON = FALSE
    MaxNodes = 10
    MaxIteration = 5
    ksm_max_page_sharing = 3
    MaxWrites = 2
    MaxQuiet = 3
SPECIFICATION SystemSpec
SYMMETRY MCSystemSymmetry
INVARIANT HostNeverStops
\* ksmd ends at the bound on rounds, and when no page is left to list.
CHECK_DEADLOCK FALSE
