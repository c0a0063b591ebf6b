CONSTANTS
    w1 = w1
    w2 = w2
    w3 = w3
    Workers = {w1, w2, w3}
    Policy <- MixedPolicies
    Ages = TRUE
    MaxFaults = 2
SPECIFICATION Spec
CHECK_DEADLOCK FALSE
INVARIANTS
    TypeOK
    NoLockIsLeaked
PROPERTY
    OrphanLockIsReplaced
