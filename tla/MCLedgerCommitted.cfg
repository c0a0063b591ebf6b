CONSTANTS
    p1 = p1
    p2 = p2
    p3 = p3
    Pods = {p1, p2, p3}
    N = 2
    Selection <- SameItem
    TTL = 1
    MaxClock = 1
    MaxFaults = 1
    Cancels = FALSE
SYMMETRY PodSymmetry
SPECIFICATION Spec
CHECK_DEADLOCK FALSE
PROPERTY
    CommittedIsFinal
