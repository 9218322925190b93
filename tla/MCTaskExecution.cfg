CONSTANTS
  NULL = NULL
  p1 = p1
  p2 = p2
  t1 = t1
  Task = {t1}
  Pid = {p1, p2}
  FirstPid = p1
  HadUser = TRUE
  ReusePid = TRUE
  MaxRaises = 1
  MaxTroubles = 2
SPECIFICATION FairSpec
INVARIANTS
  TypeOK
  OriginalKept
  ProjectRestored
  NoOrphan
  ClaudeAlone
PROPERTIES
  LiveRunSpared
  LifeKept
  RecoveryEnds
CHECK_DEADLOCK FALSE
