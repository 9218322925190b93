CONSTANTS
  NULL = NULL
  web1 = web1
  web2 = web2
  once = once
  WebCheck = {web1}
  WebRun = {}
  Hour = 12
  Cycle = 60
  TMinus60 = 12
  TMinus10 = 2
  TPlus5 = 1
  Floor = 0
  DriftTolerance = 3
  StaleGrace = 6
  MaxFuture = 72
  FallbackOverdue = 3
  SuppressWindow = 2
  BurnWindow = 14
  SleepCap = 2
  PollTick = 1
  MaxFetch = 1
  FetchFails = TRUE
  Restarts = 1
  MaxReady = 0
  MaxManual = 0
  MaxTime = 36
  StartsIn = {8, 13}
  Jitter <- Exact
SPECIFICATION Spec
INVARIANTS
  TypeOK
  NoSlotSleptThrough
  PostResetQueued
  AnchorRecovers
  GateSkipsSession
CHECK_DEADLOCK FALSE
