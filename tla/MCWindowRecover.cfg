SPECIFICATION Spec
CONSTANTS
    r1 = r1
    r2 = r2
    w1 = w1
    w2 = w2
    NoRun = NoRun
    Runs <- TwoRuns
    Windows <- TwoWindows
    WindowOf <- SplitWindows
    NumChunks = 1
    Workers = 1
    LastAttempt = 1
    MaxFence = 3
    MaxFaults = 1
CHECK_DEADLOCK FALSE
INVARIANTS
    PublishedIsRecoverable
