\* Two accounts, two sign-ins, a queue of one, pages of one clip, one loss.
SPECIFICATION FairSpec
CONSTANTS
  Account = {a, b}
  PendingCap = 1
  PageLimit = 1
  MaxClips = 1
  MaxDemands = 2
  MaxSignIns = 2
  MaxMoves = 1
  MaxFaults = 1
\* A phone without a user may stop.
CHECK_DEADLOCK FALSE
INVARIANTS
  LatestOfCursor
  OnlyBetweenMissed
  
PROPERTIES
  CopyKept
  OwnStream
  
