CONSTANTS
  Owners = {r1, r2}
  NoOwner = none
  Chunks = {1, 2}
  Lanes = 2
  LeaseTTL = 1
  MaxNow = 0
  MaxFaults = 1
SPECIFICATION FairSpec
PROPERTY EveryRunEnds
