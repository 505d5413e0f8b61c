\* A short of 32 values: ages and scores wrap around within a behaviour.
CONSTANTS
    Contents = {c1, c2}
    NullHash = NullHash
    ShortRange = 32
SPECIFICATION Spec
INVARIANT SettledIsOffered
