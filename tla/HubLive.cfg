\* One connection of each device, reused.
SPECIFICATION FairSpec
CONSTANTS
  a = a
  b = b
  a1 = a1
  a2 = a2
  b1 = b1
  Device = {a, b}
  Conn = {a1, b1}
  DeviceOf <- MCOneEach
  SendCap = 2
  Ending = {a}
  MaxClips = 1
INVARIANTS
  OnlyLateStay
PROPERTIES
  ClipsArrive
