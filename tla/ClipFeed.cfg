\* One live hour, one expired one: three uploads race over two handlers.
SPECIFICATION FeedSpec
CONSTANTS
  d1 = d1
  d2 = d2
  Device = {d1, d2}
  UserOf <- MCUserOf
  EventId = {c1}
  Body = {b1}
  Handler = {h1, h2}
  ClipTTL = 1
  IdempotencyTTL = 1
  RequestLimit = 0
  MaxSeq = 3
  MaxNow = 1
  PageLimit = 1
INVARIANTS
  OnlyOvertakenMissed
PROPERTIES
  ClipReachesReaders
