CONSTANTS
  Owners = {r1, r2}
  NoOwner = none
  Chunks = {1, 2}
  Lanes = 2
  LeaseTTL = 2
  MaxNow = 2
  MaxFaults = 1
SPECIFICATION Spec
SYMMETRY Symmetry
INVARIANTS
  TypeOK
  PublishedIsComplete
  CutoverIsExclusive
  QuietCampaignIsPublished
PROPERTIES
  SuccessIsFinal
  LeaseIsRespected
  KeepsContract
