\* One phone with two accounts and one with one, one clip too many for the queue.
SPECIFICATION FairSpec
CONSTANTS
  p = p
  q = q
  a = a
  b = b
  Device <- MCDevice
  Phone = {p, q}
  Account = {a, b}
  Desk = Desk
  QueueCap = 1
  MaxClips = 2
  MaxTokens = 2
  MaxRequests = 2
  MaxEvents = 3
  MaxFaults = 1
\* A server with nothing to do and bounds used up.
CHECK_DEADLOCK FALSE
INVARIANTS
  WakeUpsKept
  OnlyOverlookedTokens
PROPERTIES
  NewTokenKept
  WakeUpsEnd
