CONSTANTS
    Keys = {k1, k2}
    Runs = {r1, r2}
    FirstXid = 3
    MaxXid = 4
    EpochSize = 4
    MaxFaults = 2
SPECIFICATION Spec
CHECK_DEADLOCK FALSE
INVARIANTS
    TypeOK
    NoChangeIsLost
    OutcomeIsHonest
    RunsCommitTheirSnapshot
PROPERTIES
    TargetNeverGoesBack
    HandoffCompletes
