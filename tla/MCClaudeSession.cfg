CONSTANTS
  HeadLines = 2
  HeadBytes = 3
  TailLines = 2
  TailBytes = 4
  CwdLines = 2
  Timeout = 1
  Grace = 1
  JoinTime = 1
  Sessions <- Earlier
  MaxEvents = 2
SPECIFICATION FairSpec
INVARIANTS
  UsageComplete
  SummaryTrue
PROPERTIES
  DriverReturns
CHECK_DEADLOCK FALSE
