\* One account and copy, one loss.
SPECIFICATION FairSpec
CONSTANTS
  Account = {a}
  PendingCap = 1
  PageLimit = 1
  MaxClips = 2
  MaxDemands = 1
  MaxSignIns = 1
  MaxMoves = 1
  MaxFaults = 1
CHECK_DEADLOCK FALSE
PROPERTIES
  CopiesSent
