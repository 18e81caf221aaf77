\* Two connections of one device and one of another; one clip; nobody is revoked.
SPECIFICATION Spec
CONSTANTS
  a = a
  b = b
  a1 = a1
  a2 = a2
  b1 = b1
  Device = {a, b}
  Conn = {a1, a2, b1}
  DeviceOf <- MCDeviceOf
  SendCap = 2
  Ending = {}
  MaxClips = 1
SYMMETRY Symmetry
INVARIANTS
  NothingBetween
  PresenceToCome
\* With the bounded clips used up, all handlers can be stuck in their hello.
CHECK_DEADLOCK FALSE
