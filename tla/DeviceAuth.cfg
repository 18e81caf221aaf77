\* Two requests at a time on three devices of one account and one of another.
SPECIFICATION FairSpec
CONSTANTS
  a1 = a1
  a2 = a2
  a3 = a3
  b1 = b1
  Device = {a1, a2, a3, b1}
  AccountOf <- MCAccountOf
  Handler = {h1, h2}
  MaxUsers = 1
  MaxTokens = 3
INVARIANTS
  OneSuperAdmin
  OneSessionPerDevice
  DeadlocksExplained
PROPERTIES
  RequestsEnd
  ImplementsMembership
  ActedWithAuthority
