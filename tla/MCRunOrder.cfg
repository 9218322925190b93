CONSTANTS
  NULL = NULL
  N = 3
  Created <- LastFirst
  Wishes <- ThreeWishes
  SyncTool = TRUE
  MaxEvents = 1
SPECIFICATION FairSpec
INVARIANTS
  TypeOK
  OrderCorrect
PROPERTIES
  StartsBest
  DoneStaysDone
  NoneWaitsForEver
CHECK_DEADLOCK FALSE
