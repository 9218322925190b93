----------------------------- MODULE TaskFiles -----------------------------
(***************************************************************************)
(* The queue directory: one YAML file per task, moved between five bucket  *)
(* directories by the functions of queue_ops.py and task.py, which the     *)
(* runner loop, the web handlers and the CLI call concurrently.            *)
(*                                                                         *)
(* Every file-system call is a step of its own (probe, read, write of the  *)
(* temporary file, replace, rename, unlink), because no function holds     *)
(* more than PENDING_MUTATION_LOCK and most hold nothing.  A client is a   *)
(* thread of the server or a CLI process; PENDING_MUTATION_LOCK is a       *)
(* threading.Lock, so each process has its own.                            *)
(*                                                                         *)
(* Abstracted: a copy of a task is its number of edits, its status field   *)
(* and whether it still has its required fields.  The probes of one lookup *)
(* (find_task_yaml, retry_task) are one step, and so is writing a .tmp     *)
(* file; opening and dumping a file in place are two.                      *)
(***************************************************************************)
EXTENDS Naturals, Sequences

CONSTANTS
  Task,        \* task ids
  Client,      \* threads and CLI processes that call queue_ops
  Process,     \* operating-system processes
  ProcessOf,   \* [Client -> Process]
  Ops,         \* [Client -> SUBSET OpName]: the operations a client calls
  Crashable,   \* processes that may die at any step
  MaxRev,      \* bound on the edits applied to a task
  NULL

OpName == {"create", "begin", "run", "done", "fail", "stall",
           "retry", "remove", "edit", "unfinish"}

\* QUEUE_STATUSES, in the order find_task_yaml probes them.
QueueStatuses == <<"pending", "running", "done", "unfinished", "failed">>
Bucket == {"pending", "running", "done", "unfinished", "failed"}
Outcome == {"done", "unfinished", "failed"}

ASSUME ClientAssumption ==
  /\ ProcessOf \in [Client -> Process]
  /\ Ops \in [Client -> SUBSET OpName]
  /\ Crashable \subseteq Process
  /\ MaxRev \in Nat
  /\ NULL \notin Client
  /\ NULL \notin Task
  /\ NULL \notin Bucket

\* Slips the checks must notice stand before the definition they replace:
\* here begin_task, or api_edit_task, without the lock.
LockOpsWithoutStart == {"edit", "unfinish"}
LockOpsWithoutEdit == {"begin", "run", "unfinish"}

\* The operations whose body is `with PENDING_MUTATION_LOCK`.
LockOps == {"begin", "run", "edit", "unfinish"}

\* "exec" and "finalize" are the later parts of a "run": the executor's own
\* writes to the running file, and run_and_finalize after it.
Phase == OpName \cup {"exec", "finalize"}

-----------------------------------------------------------------------------
VARIABLES
  file,     \* file[b][t]: the copy of t in bucket b, or NoFile
  tmp,      \* tmp[b][t]: its temporary sibling <t>.yaml.tmp, or NoFile
  lock,     \* lock[p]: holder of PENDING_MUTATION_LOCK in process p
  pc,       \* pc[c]: the next file-system call of client c
  job,      \* job[c]: the locals of the function client c is in
  live,     \* tasks whose creation was reported and removal was not
  removed,  \* tasks whose removal was reported
  used,     \* ids handed out
  acked     \* acked[t]: the newest edit reported to its author

vars == <<file, tmp, lock, pc, job, live, removed, used, acked>>

-----------------------------------------------------------------------------
\* A copy: its edits, its status field, whether its required fields are
\* there, and who has it open for writing in place.
Copy == [rev : Nat, status : Bucket \cup {"unset"}, whole : BOOLEAN,
         writers : SUBSET Client]
NoFile == [rev |-> 0, status |-> "none", whole |-> FALSE, writers |-> {}]
Fresh == [rev |-> 0, status |-> "unset", whole |-> TRUE, writers |-> {}]

PC == {"idle", "acquire", "check", "parse", "read", "write", "replace",
       "rename", "execute", "load", "open", "dump", "unlink"}

Job == [op : Phase, task : Task \cup {NULL}, at : Bucket, left : Nat,
        data : Copy, to : Bucket]
NoJob == [op |-> "create", task |-> NULL, at |-> "pending", left |-> 0,
          data |-> Fresh, to |-> "pending"]

Exists(b, t) == file[b][t] # NoFile
Listed(t) == \E b \in Bucket : file[b][t].whole

\* Where a function looks for the task's file, in order.
Look(o) ==
  CASE o \in {"begin", "run", "unfinish"} -> <<"pending">>
    [] o \in {"done", "fail", "stall"}    -> <<"running">>
    [] o = "retry"                        -> <<"unfinished", "failed">>
    [] OTHER                              -> QueueStatuses

\* The bucket a function moves the file to.
Target(o) ==
  CASE o \in {"begin", "run"}      -> "running"
    [] o = "done"                  -> "done"
    [] o = "fail"                  -> "failed"
    [] o \in {"stall", "unfinish"} -> "unfinished"
    [] OTHER                       -> "pending"

\* augment_task calls before the rename: stall_task makes two.
StampsBeforeMove(o) == IF o = "stall" THEN 2 ELSE 1

\* Slip: move_task leaves the status field alone.
StampedWithoutStatus(j, old) ==
  [old EXCEPT !.writers = {},
              !.rev = IF j.op = "edit" THEN @ + 1 ELSE @]

\* What an augment_task or update_task_yaml call writes over the copy it read.
\* done, fail and the finalizer already name the new status before moving.
Stamped(j, old) ==
  [old EXCEPT
     !.writers = {},
     !.rev = IF j.op = "edit" THEN @ + 1 ELSE @,
     !.status = IF j.at = j.to /\ j.op \notin {"edit", "exec"} THEN j.to
                ELSE IF j.op \in {"done", "fail", "finalize"} THEN j.to
                ELSE @]

-----------------------------------------------------------------------------
Init ==
  /\ \E place \in [Task -> Bucket \cup {NULL}] :
       /\ file = [b \in Bucket |-> [t \in Task |->
             IF place[t] = b THEN [Fresh EXCEPT !.status =
                                     IF b = "pending" THEN "unset" ELSE b]
                             ELSE NoFile]]
       /\ live = {t \in Task : place[t] # NULL}
       /\ used = {t \in Task : place[t] # NULL}
  /\ tmp = [b \in Bucket |-> [t \in Task |-> NoFile]]
  /\ lock = [p \in Process |-> NULL]
  /\ pc = [c \in Client |-> "idle"]
  /\ job = [c \in Client |-> NoJob]
  /\ removed = {}
  /\ acked = [t \in Task |-> 0]

Goto(c, l) == pc' = [pc EXCEPT ![c] = l]
Mine(c) == lock[ProcessOf[c]] = c

\* Leaving the function, normally or by an exception: `with` drops the lock.
Leave(c) ==
  /\ Goto(c, "idle")
  /\ job' = [job EXCEPT ![c] = NoJob]
  /\ lock' = IF Mine(c) THEN [lock EXCEPT ![ProcessOf[c]] = NULL] ELSE lock

\* An exception.  execute_task's are caught by run_and_finalize, which then
\* finalizes the task as failed; the others leave the function.
Raise(c) ==
  IF job[c].op = "exec"
  THEN /\ Goto(c, "read")
       /\ job' = [job EXCEPT ![c].op = "finalize", ![c].to = "failed",
                             ![c].left = 1]
       /\ UNCHANGED lock
  ELSE Leave(c)

Ghosts == <<live, removed, used, acked>>

-----------------------------------------------------------------------------
\* A client calls operation o on a task it has seen in a listing; create
\* takes a new id.
Call(c, o, t) ==
  /\ pc[c] = "idle"
  /\ o \in Ops[c]
  /\ IF o = "create" THEN t \notin used ELSE Listed(t)
  /\ o = "edit" => \A b \in Bucket : file[b][t].rev < MaxRev
  /\ used' = IF o = "create" THEN used \cup {t} ELSE used
  /\ job' = [job EXCEPT ![c] = [NoJob EXCEPT !.op = o, !.task = t,
                                             !.left = StampsBeforeMove(o),
                                             !.to = Target(o)]]
  /\ Goto(c, CASE o \in LockOps -> "acquire"
               [] o = "create"  -> "open"
               [] OTHER         -> "check")
  /\ UNCHANGED <<file, tmp, lock, live, removed, acked>>

\* with PENDING_MUTATION_LOCK
Acquire(c) ==
  /\ pc[c] = "acquire"
  /\ lock[ProcessOf[c]] = NULL
  /\ lock' = [lock EXCEPT ![ProcessOf[c]] = c]
  /\ Goto(c, "check")
  /\ UNCHANGED <<file, tmp, job, Ghosts>>

\* src.exists() or find_task_yaml; api_edit_task refuses other buckets.
Check(c) ==
  LET t == job[c].task
      o == job[c].op
      here == {i \in DOMAIN Look(o) : Exists(Look(o)[i], t)}
      first == Look(o)[CHOOSE i \in here : \A k \in here : i <= k]
  IN /\ pc[c] = "check"
     /\ IF here = {} \/ (o = "edit" /\ first # "pending")
        THEN Leave(c)
        ELSE /\ job' = [job EXCEPT ![c].at = first]
             /\ Goto(c, CASE o = "edit"   -> "read"
                          [] o = "retry"  -> "load"
                          [] o = "remove" -> "unlink"
                          [] OTHER        -> "parse")
             /\ UNCHANGED lock
     /\ UNCHANGED <<file, tmp, Ghosts>>

\* parse_task: a missing file and a missing required field both raise.
Parse(c) ==
  /\ pc[c] = "parse"
  /\ IF file[job[c].at][job[c].task].whole
     THEN Goto(c, "read") /\ UNCHANGED <<job, lock>>
     ELSE Leave(c)
  /\ UNCHANGED <<file, tmp, Ghosts>>

\* augment_task, update_task_yaml: read the file and merge the new fields.
\* An edit that changes nothing returns here.
Read(c) ==
  LET old == file[job[c].at][job[c].task]
  IN /\ pc[c] = "read"
     /\ \/ /\ old # NoFile
           /\ job' = [job EXCEPT ![c].data = Stamped(job[c], old)]
           /\ Goto(c, "write")
           /\ UNCHANGED lock
        \/ /\ old = NoFile
           /\ Raise(c)
        \/ /\ old # NoFile
           /\ job[c].op = "edit"
           /\ Leave(c)
     /\ UNCHANGED <<file, tmp, Ghosts>>

\* Slip: the YAML is rewritten in place, as in create_task.
WriteInPlace(c) ==
  /\ pc[c] = "write"
  /\ tmp' = [tmp EXCEPT ![job[c].at][job[c].task] = job[c].data]
  /\ file' = [file EXCEPT ![job[c].at][job[c].task].whole = FALSE]
  /\ Goto(c, "replace")
  /\ UNCHANGED <<lock, job, Ghosts>>

\* Write <t>.yaml.tmp, a path every writer of the same file shares.
Write(c) ==
  /\ pc[c] = "write"
  /\ tmp' = [tmp EXCEPT ![job[c].at][job[c].task] = job[c].data]
  /\ Goto(c, "replace")
  /\ UNCHANGED <<file, lock, job, Ghosts>>

\* tmp.replace(target), then the caller's next statement.
Replace(c) ==
  LET t == job[c].task
      b == job[c].at
      o == job[c].op
  IN /\ pc[c] = "replace"
     /\ IF tmp[b][t] = NoFile
        THEN Raise(c) /\ UNCHANGED <<file, tmp, Ghosts>>
        ELSE /\ file' = [file EXCEPT ![b][t] = tmp[b][t]]
             /\ tmp' = [tmp EXCEPT ![b][t] = NoFile]
             /\ acked' = IF o = "edit"
                         THEN [acked EXCEPT ![t] = job[c].data.rev] ELSE acked
             /\ UNCHANGED <<live, removed, used>>
             /\ \/ /\ o = "exec"
                   /\ Goto(c, "execute")
                   /\ UNCHANGED <<lock, job>>
                \/ /\ o # "exec"
                   /\ b # job[c].to
                   /\ IF job[c].left > 1
                      THEN /\ Goto(c, "read")
                           /\ job' = [job EXCEPT ![c].left = @ - 1]
                      ELSE Goto(c, "rename") /\ UNCHANGED job
                   /\ UNCHANGED lock
                \/ /\ o = "run"
                   /\ b = job[c].to
                   /\ lock' = [lock EXCEPT ![ProcessOf[c]] = NULL]
                   /\ job' = [job EXCEPT ![c].op = "exec"]
                   /\ Goto(c, "execute")
                \/ /\ o \notin {"exec", "run"}
                   /\ b = job[c].to
                   /\ Leave(c)

\* move_task: src.rename(dest), which replaces a file already there.
Rename(c) ==
  LET t == job[c].task
      b == job[c].at
      d == job[c].to
  IN /\ pc[c] = "rename"
     /\ IF Exists(b, t)
        THEN /\ file' = [file EXCEPT ![d][t] = file[b][t], ![b][t] = NoFile]
             /\ job' = [job EXCEPT ![c].at = d]
             /\ Goto(c, "read")
             /\ UNCHANGED lock
        ELSE Leave(c) /\ UNCHANGED file
     /\ UNCHANGED <<tmp, Ghosts>>

\* execute_task: it may stamp the running file (session id, stall metadata)
\* and ends with an outcome, which run_and_finalize writes and moves to.
Execute(c) ==
  /\ pc[c] = "execute"
  /\ \/ job' = [job EXCEPT ![c].to = "running"]
     \/ \E r \in Outcome :
          job' = [job EXCEPT ![c].op = "finalize", ![c].to = r,
                             ![c].left = 1]
  /\ Goto(c, "read")
  /\ UNCHANGED <<file, tmp, lock, Ghosts>>

\* Slip: the stopped copy is unlinked before the new one is written.
LoadAndUnlink(c) ==
  LET old == file[job[c].at][job[c].task]
  IN /\ pc[c] = "load"
     /\ old # NoFile
     /\ file' = [file EXCEPT ![job[c].at][job[c].task] = NoFile]
     /\ job' = [job EXCEPT ![c].data = [old EXCEPT !.status = "unset"]]
     /\ Goto(c, "open")
     /\ UNCHANGED <<tmp, lock, Ghosts>>

\* retry_task: read the stopped copy and drop the fields of the last run.
Load(c) ==
  LET old == file[job[c].at][job[c].task]
  IN /\ pc[c] = "load"
     /\ IF old # NoFile
        THEN /\ job' = [job EXCEPT ![c].data =
                          [old EXCEPT !.status = "unset", !.writers = {}]]
             /\ Goto(c, "open")
             /\ UNCHANGED lock
        ELSE Leave(c)
     /\ UNCHANGED <<file, tmp, Ghosts>>

\* open(pending file, 'w') in retry_task and create_task truncates in place.
Open(c) ==
  LET t == job[c].task
      others == file["pending"][t].writers
  IN /\ pc[c] = "open"
     /\ file' = [file EXCEPT !["pending"][t] =
                   [rev |-> 0, status |-> "unset", whole |-> FALSE,
                    writers |-> others \cup {c}]]
     /\ Goto(c, "dump")
     /\ UNCHANGED <<tmp, lock, job, Ghosts>>

\* yaml.dump to the open file, wherever it has been renamed to meanwhile.
Dump(c) ==
  LET t == job[c].task
  IN /\ pc[c] = "dump"
     /\ file' = [b \in Bucket |-> [file[b] EXCEPT ![t] =
                   IF c \in @.writers
                   THEN [job[c].data EXCEPT !.writers = @ \cup
                            (file[b][t].writers \ {c})]
                   ELSE @]]
     /\ IF job[c].op = "create"
        THEN Leave(c) /\ live' = live \cup {t}
        ELSE Goto(c, "unlink") /\ UNCHANGED <<job, lock, live>>
     /\ UNCHANGED <<tmp, removed, used, acked>>

\* Slip: retry copies instead of moving.
UnlinkOnlyOnRemove(c) ==
  LET t == job[c].task
      b == job[c].at
  IN /\ pc[c] = "unlink"
     /\ IF job[c].op = "remove" /\ Exists(b, t)
        THEN /\ file' = [file EXCEPT ![b][t] = NoFile]
             /\ removed' = removed \cup {t}
             /\ live' = live \ {t}
        ELSE UNCHANGED <<file, removed, live>>
     /\ Leave(c)
     /\ UNCHANGED <<tmp, used, acked>>

\* src.unlink() in retry_task, path.unlink() in remove_task.
Unlink(c) ==
  LET t == job[c].task
      b == job[c].at
  IN /\ pc[c] = "unlink"
     /\ file' = [file EXCEPT ![b][t] = NoFile]
     /\ IF job[c].op = "remove" /\ Exists(b, t)
        THEN /\ removed' = removed \cup {t}
             /\ live' = live \ {t}
        ELSE UNCHANGED <<removed, live>>
     /\ Leave(c)
     /\ UNCHANGED <<tmp, used, acked>>

\* A process dies: its threads vanish with its locks, open files stay as
\* they are, and so do temporary files.
Crash(p) ==
  LET dead == {c \in Client : ProcessOf[c] = p}
  IN /\ p \in Crashable
     /\ pc' = [c \in Client |-> IF c \in dead THEN "idle" ELSE pc[c]]
     /\ job' = [c \in Client |-> IF c \in dead THEN NoJob ELSE job[c]]
     /\ lock' = [lock EXCEPT ![p] = NULL]
     /\ file' = [b \in Bucket |-> [t \in Task |->
                   [file[b][t] EXCEPT !.writers = @ \ dead]]]
     /\ UNCHANGED <<tmp, Ghosts>>

Step(c) ==
  \/ Acquire(c) \/ Check(c) \/ Parse(c) \/ Read(c) \/ Write(c) \/ Replace(c)
  \/ Rename(c) \/ Execute(c) \/ Load(c) \/ Open(c) \/ Dump(c) \/ Unlink(c)

Next ==
  \/ \E c \in Client :
       Step(c) \/ \E o \in OpName, t \in Task : Call(c, o, t)
  \/ \E p \in Process : Crash(p)

Spec == Init /\ [][Next]_vars

-----------------------------------------------------------------------------
TypeOK ==
  /\ file \in [Bucket -> [Task -> Copy \cup {NoFile}]]
  /\ tmp \in [Bucket -> [Task -> Copy \cup {NoFile}]]
  /\ lock \in [Process -> Client \cup {NULL}]
  /\ pc \in [Client -> PC]
  /\ job \in [Client -> Job]
  /\ live \subseteq Task
  /\ removed \subseteq Task
  /\ used \subseteq Task
  /\ acked \in [Task -> Nat]

Busy(t) == \E c \in Client : pc[c] # "idle" /\ job[c].task = t

\* retry_task writes the new copy before it unlinks the old one.
Copying(t) ==
  \E c \in Client : /\ pc[c] \in {"dump", "unlink"}
                    /\ job[c].op = "retry"
                    /\ job[c].task = t

\* A task's file is in one bucket at a time, except while retry_task copies
\* it: no interleaving of a task's start with edits and moves of it leaves a
\* second copy behind (what PENDING_MUTATION_LOCK is for).
OneCopy ==
  \A t \in Task : \/ Copying(t)
                  \/ \A a, b \in Bucket : Exists(a, t) /\ Exists(b, t) => a = b

\* A task whose creation was reported and that nobody removed has a copy
\* with all its fields in some bucket, whatever dies and whenever: renames
\* and replaces never pass through a state without one.
NeverLost == \A t \in live : Listed(t)

\* An edit that was reported as applied is in every later copy of the task:
\* the stamps of a concurrent start or move are written over it, not over
\* what they read before it.
EditsDurable ==
  \A t \in Task, b \in Bucket : file[b][t].whole => file[b][t].rev >= acked[t]

\* A task whose removal was reported never comes back.
RemovedStaysRemoved == \A t \in removed, b \in Bucket : ~Exists(b, t)

\* Once every call on a task has returned, the status field in the file
\* names the directory it is in; a pending task has none.
StatusMatchesBucket ==
  \A t \in Task, b \in Bucket :
    Exists(b, t) /\ ~Busy(t) =>
      file[b][t].status = IF b = "pending" THEN "unset" ELSE b

=============================================================================
