\* Two texts, readable and garbled clips, a queue and channels of one, one fault.
SPECIFICATION Spec
CONSTANTS
  t1 = t1
  t2 = t2
  Text = {t1, t2}
  Self = me
  Other = other
  Kind = {"small", "garbled"}
  PageLimit = 2
  ReadLimit = 2
  PushCap = 1
  PendingCap = 1
  EventCap = 2
  SlowBridge = FALSE
  Hiding = FALSE
  MaxSeq = 5
  MaxCopies = 2
  MaxFaults = 1
SYMMETRY Symmetry
INVARIANTS
  CursorVerified
PROPERTIES
  ImplementsClient
