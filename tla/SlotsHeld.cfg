\* Two processes, and the walk that prepares an offloaded iteration, without fairness.
CONSTANTS
    Mms = {m1, m2}
    MaxSlots = 3
SPECIFICATION Spec
INVARIANT HeldSlotsAllocated
\* After a race the behaviour ends.
CHECK_DEADLOCK FALSE
