CONSTANTS
  one = one
  other = other
  key = key
  Services <- MCServices
  Keys <- MCKeys
  NoLock = NoLock
  MaxLocks = 3
  MaxLosses = 1
SPECIFICATION Spec
CHECK_DEADLOCK FALSE
INVARIANTS
  Exclusive
  KeptInTime
PROPERTIES
  InitSettles
