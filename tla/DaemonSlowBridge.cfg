\* A confirmation may come after Set gave up.
SPECIFICATION Spec
CONSTANTS
  t1 = t1
  Text = {t1}
  Self = me
  Other = other
  Kind = {"small"}
  PageLimit = 2
  ReadLimit = 2
  PushCap = 1
  PendingCap = 1
  EventCap = 2
  SlowBridge = TRUE
  Hiding = FALSE
  MaxSeq = 3
  MaxCopies = 0
  MaxFaults = 2
INVARIANTS
  CursorVerified
