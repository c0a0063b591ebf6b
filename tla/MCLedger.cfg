CONSTANTS
    p1 = p1
    p2 = p2
    p3 = p3
    Pods = {p1, p2}
    N = 2
    Selection <- SameItem
    TTL = 2
    MaxClock = 2
    MaxFaults = 1
    Cancels = TRUE
SYMMETRY PodSymmetry
SPECIFICATION Spec
CHECK_DEADLOCK FALSE
INVARIANTS
    TypeOK
    PlanIsComplete
    ReportIsHonest
PROPERTY
    LeasesProtectWork
