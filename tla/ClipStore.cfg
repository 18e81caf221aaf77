\* Two handlers race on uploads of one id of one device, over enough time for
\* a clip to expire, its receipt to expire and the upload to be repeated.
SPECIFICATION FairSpec
CONSTANTS
  Device = {d1}
  EventId = {c1}
  Body = {b1, b2}
  Handler = {h1, h2}
  ClipTTL = 2
  IdempotencyTTL = 3
  RequestLimit = 1
  MaxSeq = 3
  MaxNow = 5
INVARIANTS
  ClipHasReceipt
  ClaimNeverClashes
  AnswerIsTheUpload
PROPERTIES
  OneClipPerWindow
  ImplementsClipLog
  UploadsAnswered
