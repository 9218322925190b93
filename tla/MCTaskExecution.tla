-------------------------- MODULE MCTaskExecution --------------------------
(***************************************************************************)
(* Instances of TaskExecution: one task, a server and two restarts of it,  *)
(* which may get the process id of a dead one.                             *)
(***************************************************************************)
EXTENDS TaskExecution

CONSTANTS p1, p2, t1
============================================================================
