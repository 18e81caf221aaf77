\* Small and large clips, a locked screen, one copy, one fault of any kind, a slow bridge included.
SPECIFICATION FairSpec
CONSTANTS
  t1 = t1
  Text = {t1}
  Self = me
  Other = other
  Kind = {"small", "large"}
  PageLimit = 2
  ReadLimit = 3
  PushCap = 1
  PendingCap = 1
  EventCap = 2
  SlowBridge = TRUE
  Hiding = TRUE
  MaxSeq = 4
  MaxCopies = 1
  MaxFaults = 1
INVARIANTS
  NoEcho
  
PROPERTIES
  CatchesUp
  CopiesDrain
