\* Four items and nodes that take two of them, so that a hash can have two full nodes in
\* one chain; three iterations, the smart scan on.
CONSTANTS
    Items = {i1, i2, i3, i4}
    Pfns = {p1, p2}
    Hashes = {h1, h2}
    NullHash = NullHash
    NoPfn = NoPfn
    NoItem = NoItem
    MAX_PAGE_SHARING = 2
    RMAP_PRUNE_MARGIN = 0
    ShortRange = 16
    OldOps = FALSE
    SMART_SCAN_ON = TRUE
    MaxNodes = 8
    MaxIteration = 3
SPECIFICATION Spec
SYMMETRY MCSymmetry
INVARIANTS CountsExact HashesAgree TableSound TableComplete LogMatchesMetadata ErrorsApply PruneOnlyUnaccessed ServerInv
PROPERTIES DemotionIsLogged EveryRequestAnswered
\* The server stops when its connection fails, and at the bounds.
CHECK_DEADLOCK FALSE
