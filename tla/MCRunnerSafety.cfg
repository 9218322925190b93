CONSTANTS
  NULL = NULL
  web1 = web1
  web2 = web2
  once = once
  WebCheck = {web1}
  WebRun = {once}
  Hour = 4
  Cycle = 10
  TMinus60 = 4
  TMinus10 = 2
  TPlus5 = 1
  Floor = 0
  DriftTolerance = 2
  StaleGrace = 3
  MaxFuture = 11
  FallbackOverdue = 2
  SuppressWindow = 1
  BurnWindow = 5
  SleepCap = 2
  PollTick = 1
  MaxFetch = 1
  FetchFails = FALSE
  Restarts = 0
  MaxReady = 1
  MaxManual = 1
  MaxTime = 10
  StartsIn = {3}
  Jitter <- Exact
SPECIFICATION Spec
INVARIANTS
  OneTaskAtATime
  OneCheckAtATime
  BurnWithinSession
  NoLostWakeup
  SlotsDistinct
PROPERTIES
  StartsOnlyInBurn
  BurnsKept
CHECK_DEADLOCK FALSE
