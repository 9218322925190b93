CONSTANTS
  runner = runner
  web1 = web1
  web2 = web2
  cli = cli
  server = server
  shell = shell
  NULL = NULL
  Task = {t1, t2}
  t1 = t1
  t2 = t2
  Client <- SerialClients
  Ops <- SerialOps
  ProcessOf <- InShell
  Process = {shell}
  Crashable = {}
  MaxRev = 1
SPECIFICATION Spec
INVARIANTS
  NeverLost
  RemovedStaysRemoved
  StatusMatchesBucket
CHECK_DEADLOCK FALSE
