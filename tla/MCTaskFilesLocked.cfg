CONSTANTS
  runner = runner
  web1 = web1
  web2 = web2
  cli = cli
  server = server
  shell = shell
  NULL = NULL
  Task = {t1}
  t1 = t1
  Client <- LockedClients
  Ops <- LockedOps
  ProcessOf <- InServer
  Process = {server}
  Crashable = {server}
  MaxRev = 2
SPECIFICATION Spec
INVARIANTS
  OneCopy
  NeverLost
  EditsDurable
