CONSTANTS
  t1 = t1
  t2 = t2
  t3 = t3
  i1 = i1
  i2 = i2
  NULL = NULL
  Thread = {t1, t2, t3}
  Ip = {i1, i2}
  LockoutThreshold = 2
  LockoutDuration = 2
  GlobalFailureWindow = 1
  GlobalFailureThreshold = 2
  GlobalLockoutDuration = 2
  MaxFailureEntries = 1
  EvictCount = 1
  MaxAttempts = 5
  MaxTime = 3
SPECIFICATION Spec
SYMMETRY Symmetry
INVARIANTS
  AddressLimit
PROPERTIES
  LockoutHolds
CHECK_DEADLOCK FALSE
