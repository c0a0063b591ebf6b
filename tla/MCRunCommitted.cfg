CONSTANTS
    w1 = w1
    w2 = w2
    w3 = w3
    Workers = {w1}
    Policy <- MixedPolicies
    Ages = FALSE
    MaxFaults = 0
SPECIFICATION Spec
CHECK_DEADLOCK FALSE
PROPERTY
    CommittedIsKept
