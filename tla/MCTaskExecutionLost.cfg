CONSTANTS
  NULL = NULL
  p1 = p1
  p2 = p2
  t1 = t1
  Task = {t1}
  Pid = {p1, p2}
  FirstPid = p1
  HadUser = TRUE
  ReusePid = FALSE
  MaxRaises = 0
  MaxTroubles = 1
SPECIFICATION Spec
INVARIANTS
  OriginalNeverLost
CHECK_DEADLOCK FALSE
