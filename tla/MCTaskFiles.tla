---------------------------- MODULE MCTaskFiles ----------------------------
(***************************************************************************)
(* Instances of TaskFiles: who calls which operation from which process.   *)
(***************************************************************************)
EXTENDS TaskFiles, TLC

CONSTANTS runner, web1, web2, cli, server, shell

\* The server's runner loop and two request threads that edit and shelve.
LockedClients == {runner, web1, web2}
LockedOps ==
  runner :> {"run"} @@ web1 :> {"create", "edit", "unfinish"}
    @@ web2 :> {"begin", "edit", "unfinish"}
InServer == [c \in LockedClients |-> server]

\* One operator who calls everything, one call after the other.
SerialClients == {cli}
SerialOps == cli :> OpName
InShell == [c \in SerialClients |-> shell]

\* One request thread retries while another shelves the pending copy.
RetryClients == {web1, web2}
RetryOps == web1 :> {"unfinish"} @@ web2 :> {"retry"}
RetryProcesses == [c \in RetryClients |-> server]
============================================================================
