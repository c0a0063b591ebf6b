CONSTANTS
    Owners = {parent, rival}
    Parent = parent
    Rival = rival
    NoOwner = noOwner
    None = none
    ChunkCount = 3
    LaneCount = 2
    Chunks <- MCChunks
    Lanes <- MCLanes
    Work <- MCWork
    Replayable = {1}
    Contested = {1}
    MaxFaults = 1
SPECIFICATION Spec
CHECK_DEADLOCK FALSE
PROPERTY StopDrains
INVARIANTS
    VerdictsFollowReceipts
    NoClaimLeaks
    TypeOK
    FailedClaimsAreQuiescent
