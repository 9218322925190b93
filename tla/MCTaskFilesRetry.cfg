CONSTANTS
  runner = runner
  web1 = web1
  web2 = web2
  cli = cli
  server = server
  shell = shell
  NULL = NULL
  Task = {t1}
  t1 = t1
  Client <- RetryClients
  Ops <- RetryOps
  ProcessOf <- RetryProcesses
  Process = {server}
  Crashable = {}
  MaxRev = 1
SPECIFICATION Spec
INVARIANTS
  NeverLost
CHECK_DEADLOCK FALSE
