SPECIFICATION FairSpec
CONSTANTS
    r1 = r1
    r2 = r2
    w1 = w1
    w2 = w2
    NoRun = NoRun
    Runs <- OneRun
    Windows <- OneWindow
    WindowOf <- SingleWindow
    NumChunks = 2
    Workers = 2
    LastAttempt = 2
    MaxFence = 3
    MaxFaults = 1
CHECK_DEADLOCK FALSE
PROPERTIES
    ExecutionsEnd
    PublishedRunsComplete
