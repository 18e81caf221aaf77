SPECIFICATION FairSpec
CONSTANTS
  Account = {a, b}
  MaxCommands = 3
  MaxCopies = 1
  MaxFaults = 2
INVARIANTS CursorOfAccount SignedOut
PROPERTIES UploadsOwnCopies  SessionsEndForCause QueueDrains
