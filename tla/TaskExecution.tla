--------------------------- MODULE TaskExecution ---------------------------
(***************************************************************************)
(* The life of one execution: executor.execute_task with lock.py and the   *)
(* CLAUDE.md handling of injector.py, run_and_finalize around it, the crash *)
(* recovery of runner._recover_stale, which a start, a restart of the      *)
(* runner's thread and run-once make, side by side if it so happens, and   *)
(* what the dashboard and the command line do to tasks meanwhile, with the *)
(* process dying at any step.  Tasks run one after the other in one        *)
(* project directory (the execution lock is Runner's).                     *)
(*                                                                         *)
(* Path.write_text truncates and then writes, so each write of a lock file *)
(* is two steps.  Moves between buckets are one (TaskFiles has the steps), *)
(* and may fail.  External: the claude subprocess, which may outlive the   *)
(* server, and the processes that get the ids of dead servers.             *)
(***************************************************************************)
EXTENDS Naturals, FiniteSets

CONSTANTS
  Task,
  Pid,        \* the process ids the server may get
  FirstPid,   \* the first one
  ReusePid,   \* whether an id may be given out again while files have it
  HadUser,    \* whether the project has a CLAUDE.md of its user's
  MaxRaises,  \* how many file operations may raise,
  MaxTroubles, \* and how many of them and deaths there may be together
  NULL

ASSUME ExecutionAssumption ==
  /\ ReusePid \in BOOLEAN /\ HadUser \in BOOLEAN
  /\ MaxTroubles \in Nat /\ MaxRaises \in Nat
  /\ FirstPid \in Pid
  /\ NULL \notin Task /\ NULL \notin Pid

Bucket == {"pending", "running", "done", "unfinished", "failed", "gone"}

\* Who runs _recover_stale: start_runner in the server's background thread,
\* and a run-once worker, under the execution lock.
Recoverer == {"start", "once"}

VARIABLES
  bucket,    \* bucket[t]: the directory t is in
  claudeMd,  \* CLAUDE.md of the project: "none", "user" or "injected"
  backup,    \* backup[p]: CLAUDE.md.queue-worker-bak-<p>, likewise
  lock,      \* lock[t]: running/<t>.lock
  pid,       \* the server's process id, NULL when it is down
  claude,    \* tasks whose claude process this server started and is alive
  ex,        \* execute_task and run_and_finalize: position and locals
  rec,       \* rec[r]: _recover_stale as r runs it: position and locals
  crashes, raised,
  intact,    \* history: FALSE once something has happened that the code does
             \* not repair (the actions that clear it say what)
  exposed,   \* history: this run began while a start's recovery was under way, or
             \* has been without a whole lock file of its own during one
  touched,   \* history: a user has moved the file of this run
  left       \* history: tasks in running/ that this server has given up there

vars == <<bucket, claudeMd, backup, lock, pid, claude, ex, rec, crashes,
          raised, intact, exposed, touched, left>>
Project == <<claudeMd, backup>>
Server == <<pid, crashes>>

-----------------------------------------------------------------------------
\* A lock file: torn between truncation and write, or its JSON.
NoLock == [there |-> FALSE, torn |-> FALSE, pid |-> NULL, written |-> FALSE,
           backedUp |-> FALSE, group |-> FALSE]
Torn == [NoLock EXCEPT !.there = TRUE, !.torn = TRUE]
LockOf(p) == [NoLock EXCEPT !.there = TRUE, !.pid = p]

\* had is BackupInfo.had_original; "unset" is `backup is None`.
Idle == [pc |-> "idle", task |-> NULL, had |-> "unset", outcome |-> "done",
         data |-> NoLock]
NoRecovery == [pc |-> "done", stale |-> {}, seen |-> {}, cur |-> NULL,
               read |-> [t \in Task |-> NoLock]]

Init ==
  /\ bucket = [t \in Task |-> "pending"]
  /\ claudeMd = IF HadUser THEN "user" ELSE "none"
  /\ backup = [p \in Pid |-> "none"]
  /\ lock = [t \in Task |-> NoLock]
  /\ pid = FirstPid
  /\ claude = {}
  /\ ex = Idle
  /\ rec = [r \in Recoverer |-> IF r = "start" THEN [NoRecovery EXCEPT !.pc = "scan"]
                                 ELSE NoRecovery]
  /\ crashes = 0 /\ raised = 0
  /\ intact = TRUE /\ exposed = FALSE /\ touched = FALSE /\ left = {}

Goto(l) == ex' = [ex EXCEPT !.pc = l]
Move(t, b) == bucket' = [bucket EXCEPT ![t] = b]
Raise == /\ raised < MaxRaises /\ crashes + raised < MaxTroubles
         /\ raised' = raised + 1
Up == pid # NULL

\* A start's recovery is not over, whether it is at it or has failed.
StartRecovers == rec["start"].pc \notin {"check", "done"}
OnceRecovers == rec["once"].pc # "done"
Recovering == StartRecovers \/ OnceRecovers

\* Slip: a lock that does not parse is left alone.
IsStaleIfParsed(l, alien) == l.there /\ ~l.torn /\ l.pid \notin alien \cup {pid}

\* recover_stale_locks: locks of dead processes and locks that do not parse.
\* os.kill(pid, 0) finds the server and, of the ids of dead servers, those in
\* alien, which processes of other programs have got.
IsStale(l, alien) == l.there /\ (l.torn \/ l.pid \notin alien \cup {pid})

\* No lock file for a task in running/.
Orphan(t) == bucket[t] = "running" /\ ~lock[t].there

-----------------------------------------------------------------------------
(* The histories; every action ends in Record. *)

\* What tells a recovery that the run of ex.task is a live one.
Guarded == /\ lock[ex.task].there /\ ~lock[ex.task].torn
           /\ lock[ex.task].pid = pid

\* A step that leaves t in running/ for nobody: begun by hand, not moved by its
\* worker, not moved by a recovery that had it, or taken for a live one's.
GivenUp(t) ==
  \/ bucket[t] = "pending" /\ ex' = ex
  \/ ex.task = t /\ ex'.task # t
  \/ \E r \in Recoverer :
       \/ rec[r].pc = "move" /\ rec'[r].pc = "release" /\ rec[r].cur = t
       \/ /\ rec[r].pc = "orphans" /\ Orphan(t)
          /\ t \in rec[r].stale \ rec'[r].stale
       \/ /\ rec[r].pc = "scan" /\ rec'[r].pc = "next"
          /\ lock[t].there /\ ~lock[t].torn
          /\ t \notin rec'[r].seen /\ ex.task # t

Record ==
  /\ exposed' = /\ ex'.pc # "idle"
                /\ \/ exposed
                   \/ StartRecovers' /\ (ex.pc = "idle" \/ ~Guarded')
  /\ touched' = /\ ex.pc # "idle" /\ ex'.pc # "idle"
                /\ \/ touched
                   \/ ex' = ex /\ rec' = rec /\ bucket'[ex.task] # bucket[ex.task]
  /\ left' = IF pid' # pid THEN {}
             ELSE {t \in Task : bucket'[t] = "running" /\ (t \in left \/ GivenUp(t))}

-----------------------------------------------------------------------------
(* execute_task *)

\* begin_task, under the execution lock, which run-once holds while it
\* recovers.  The runner begins none before its recovery is over; dashboard
\* workers may.
Begin(t) ==
  /\ Up
  /\ ex.pc = "idle"
  /\ ~OnceRecovers
  /\ bucket[t] = "pending"
  /\ Move(t, "running")
  /\ ex' = [Idle EXCEPT !.pc = "acquire", !.task = t]
  /\ intact' = (intact /\ ~Recovering)
  /\ UNCHANGED <<Project, lock, Server, raised, claude, rec>>
  /\ Record

\* acquire_task_lock and update_task_lock: truncate, then write; with no space
\* left the write raises.
WriteLock(from, mid, to, failed, content) ==
  \/ /\ ex.pc = from
     /\ lock' = [lock EXCEPT ![ex.task] = Torn]
     /\ ex' = [ex EXCEPT !.pc = mid, !.data = content]
     /\ UNCHANGED <<intact, raised>>
  \/ /\ ex.pc = mid
     /\ lock' = [lock EXCEPT ![ex.task] = ex.data]
     /\ ex' = [ex EXCEPT !.pc = to, !.data = NoLock]
     /\ UNCHANGED <<intact, raised>>
  \/ /\ ex.pc = mid
     /\ ex' = [ex EXCEPT !.pc = failed, !.data = NoLock, !.outcome = "failed"]
     /\ intact' = FALSE
     /\ Raise
     /\ UNCHANGED lock

\* update_task_lock reads the file first: one that recovery removed raises.
UpdateLock(from, mid, to, failed, content) ==
  \/ /\ ex.pc = from
     /\ ~lock[ex.task].there
     /\ ex' = [ex EXCEPT !.pc = failed, !.outcome = "failed"]
     /\ UNCHANGED <<lock, intact, raised>>
  \/ /\ ex.pc = from => lock[ex.task].there
     /\ WriteLock(from, mid, to, failed, content)

\* Before the try block: what it raises goes to run_and_finalize.
AcquireLock ==
  /\ WriteLock("acquire", "acquiring", "build", "finalize", LockOf(pid))
  /\ UNCHANGED <<bucket, Project, Server, claude, rec>>
  /\ Record

\* build_claude_md may raise; inject_claude_md sets an original aside.
BuildAndBackUp ==
  /\ ex.pc = "build"
  /\ \/ /\ ex' = [ex EXCEPT !.pc = "release", !.outcome = "failed"]
        /\ UNCHANGED Project
     \/ /\ claudeMd # "none"
        /\ backup' = [backup EXCEPT ![pid] = claudeMd]
        /\ claudeMd' = "none"
        /\ ex' = [ex EXCEPT !.pc = "inject", !.had = "pending"]
     \/ /\ claudeMd = "none"
        /\ Goto("inject")
        /\ UNCHANGED Project
  /\ UNCHANGED <<bucket, lock, Server, raised, claude, rec, intact>>
  /\ Record

\* claude_path.write_text; when it raises, execute_task has no BackupInfo.
Inject ==
  /\ ex.pc = "inject"
  /\ \/ /\ claudeMd' = "injected"
        /\ ex' = [ex EXCEPT !.pc = "record",
                            !.had = IF @ = "pending" THEN "yes" ELSE "no"]
        /\ UNCHANGED <<intact, raised>>
     \/ /\ claudeMd' \in {claudeMd, "injected"}
        /\ ex' = [ex EXCEPT !.pc = "release", !.had = "unset",
                            !.outcome = "failed"]
        /\ intact' = FALSE
        /\ Raise
  /\ UNCHANGED <<bucket, backup, lock, Server, claude, rec>>
  /\ Record

RecordInjection ==
  /\ UpdateLock("record", "recording", "spawn", "unlink",
                [lock[ex.task] EXCEPT !.written = TRUE,
                                      !.backedUp = (ex.had = "yes")])
  /\ UNCHANGED <<bucket, Project, Server, claude, rec>>
  /\ Record

\* The session id is stamped on the task's file, which raises if somebody has
\* moved it; then Popen, in a process group of its own, or no such command.
Spawn ==
  /\ ex.pc = "spawn"
  /\ \/ /\ bucket[ex.task] = "running"
        /\ claude' = claude \cup {ex.task}
        /\ Goto("group")
     \/ /\ ex' = [ex EXCEPT !.pc = "unlink", !.outcome = "failed"]
        /\ UNCHANGED claude
  /\ UNCHANGED <<bucket, Project, lock, Server, raised, rec, intact>>
  /\ Record

\* What it raises leaves the claude that has just been spawned running.
RecordGroup ==
  /\ UpdateLock("group", "grouping", "wait", "unlink",
                [lock[ex.task] EXCEPT !.group = TRUE])
  /\ UNCHANGED <<bucket, Project, Server, claude, rec>>
  /\ Record

\* Slip: the stall reason is taken for the bucket.
OutcomeByReason(checkpoint, dryRun, timedOut, badExit) ==
  IF timedOut THEN "timeout" ELSE IF badExit THEN "failed" ELSE "done"

\* checkpoint, then dry-run output, then timeout, then exit code.
OutcomeOf(checkpoint, dryRun, timedOut, badExit) ==
  IF checkpoint \/ dryRun \/ timedOut THEN "unfinished"
  ELSE IF badExit THEN "failed" ELSE "done"

Ends == {OutcomeOf(checkpoint, dryRun, timedOut, badExit) :
           checkpoint, dryRun, timedOut, badExit \in BOOLEAN}

\* Slip: after the time budget the executor goes on without killing claude.
WaitOnly ==
  /\ ex.pc = "wait"
  /\ \E outcome \in Ends :
       /\ ex' = [ex EXCEPT !.pc = "unlink", !.outcome = outcome]
       /\ claude' = IF outcome = "unfinished" THEN claude ELSE claude \ {ex.task}
  /\ UNCHANGED <<bucket, Project, lock, Server, raised, rec, intact>>
  /\ Record

\* proc.wait returns, by itself or killed after the budget or by a cancel.  A
\* stall is stamped on the task's file: if somebody has moved it, or the write
\* fails, that raises, which is caught as a failure.
Wait ==
  /\ ex.pc = "wait"
  /\ claude' = claude \ {ex.task}
  /\ \E outcome \in Ends \cup {"failed"} :
       /\ outcome = "unfinished" => bucket[ex.task] = "running"
       /\ ex' = [ex EXCEPT !.pc = "unlink", !.outcome = outcome]
  /\ UNCHANGED <<bucket, Project, lock, Server, raised, rec, intact>>
  /\ Record

\* The finally block: cleanup_claude_md's unlink and rename, then the lock.
\* What the first two raise leaves the lock where it is.
CleanupRaises ==
  /\ ex.pc \in {"unlink", "restore"}
  /\ ex' = [ex EXCEPT !.pc = "finalize", !.outcome = "failed"]
  /\ intact' = FALSE
  /\ Raise
  /\ UNCHANGED <<bucket, Project, lock, Server, claude, rec>>
  /\ Record

Unlink ==
  /\ ex.pc = "unlink"
  /\ claudeMd' = "none"
  /\ Goto("restore")
  /\ UNCHANGED <<bucket, backup, lock, Server, raised, claude, rec, intact>>
  /\ Record

\* Slip: an original that was set aside is not put back.
RestoreNever ==
  /\ ex.pc = "restore"
  /\ backup' = [backup EXCEPT ![pid] = "none"]
  /\ Goto("release")
  /\ UNCHANGED <<bucket, claudeMd, lock, Server, raised, claude, rec, intact>>
  /\ Record

Restore ==
  /\ ex.pc = "restore"
  /\ IF ex.had = "yes" /\ backup[pid] # "none"
     THEN /\ claudeMd' = backup[pid]
          /\ backup' = [backup EXCEPT ![pid] = "none"]
     ELSE UNCHANGED <<claudeMd, backup>>
  /\ Goto("release")
  /\ UNCHANGED <<bucket, lock, Server, raised, claude, rec, intact>>
  /\ Record

\* Slip: releasing also moves the task, as complete_task does.
ReleaseAndMove ==
  /\ ex.pc = "release"
  /\ lock' = [lock EXCEPT ![ex.task] = NoLock]
  /\ Move(ex.task, ex.outcome)
  /\ Goto("finalize")
  /\ UNCHANGED <<Project, Server, raised, claude, rec, intact>>
  /\ Record

Release ==
  /\ ex.pc = "release"
  /\ lock' = [lock EXCEPT ![ex.task] = NoLock]
  /\ Goto("finalize")
  /\ UNCHANGED <<bucket, Project, Server, raised, claude, rec, intact>>
  /\ Record

\* run_and_finalize stamps and moves the file.  If it is gone or a write fails,
\* that raises, to the runner's loop or the dashboard's worker, which log it:
\* the task stays where it is, also in running/.
Finalize ==
  /\ ex.pc = "finalize"
  /\ \/ /\ bucket[ex.task] = "running"
        /\ Move(ex.task, ex.outcome)
        /\ UNCHANGED raised
     \/ /\ bucket[ex.task] # "running"
        /\ UNCHANGED <<bucket, raised>>
     \/ /\ Raise
        /\ UNCHANGED bucket
  /\ ex' = Idle
  /\ UNCHANGED <<Project, lock, Server, claude, rec, intact>>
  /\ Record

\* POST /api/tasks/{id}/cancel needs the process group in the lock file; the
\* executor then sees the exit like any other.
Cancel(t) ==
  /\ Up
  /\ lock[t].group
  /\ t \in claude
  /\ claude' = claude \ {t}
  /\ UNCHANGED <<bucket, Project, lock, Server, raised, ex, rec, intact>>
  /\ Record

Execution ==
  \/ AcquireLock \/ BuildAndBackUp \/ Inject \/ RecordInjection \/ Spawn
  \/ RecordGroup \/ Wait \/ Unlink \/ Restore \/ CleanupRaises \/ Release
  \/ Finalize

-----------------------------------------------------------------------------
(* _recover_stale, as r runs it *)

Put(r, v) == rec' = [rec EXCEPT ![r] = v]

\* The locks that are stale now; one of a dead server that is taken for a live
\* process's is not looked at again.
Scan(r) ==
  \E alien \in SUBSET (IF ReusePid THEN Pid ELSE {}) :
    LET stale == {t \in Task : IsStale(lock[t], alien)}
    IN /\ rec[r].pc = "scan"
       /\ Put(r, [NoRecovery EXCEPT
                    !.pc = "next", !.stale = stale, !.seen = stale,
                    !.read = [t \in Task |-> IF t \in stale THEN lock[t] ELSE NoLock]])
       /\ intact' = (intact /\ \A t \in Task :
                               lock[t].there => t \in stale \/ t = ex.task)
       /\ UNCHANGED <<bucket, Project, lock, Server, raised, claude, ex>>
       /\ Record

\* running/*.yaml, listed once, without those that had a stale lock.
ListOrphans(r) ==
  Put(r, [NoRecovery EXCEPT !.pc = "orphans",
            !.stale = {t \in Task : bucket[t] = "running"} \ rec[r].seen])

\* Slip: a stale lock is taken up again for as long as it is listed.
NextStaleForever(r) ==
  /\ rec[r].pc = "next"
  /\ \/ \E t \in rec[r].stale :
          Put(r, [rec[r] EXCEPT !.cur = t, !.pc =
                    IF rec[r].read[t].written THEN "unlink" ELSE "move"])
     \/ rec[r].stale = {} /\ ListOrphans(r)
  /\ UNCHANGED <<bucket, Project, lock, Server, raised, claude, ex, intact>>
  /\ Record

\* The next stale lock as Scan read it, or the orphans when there is none.
NextStale(r) ==
  /\ rec[r].pc = "next"
  /\ \/ \E t \in rec[r].stale :
          Put(r, [rec[r] EXCEPT !.stale = @ \ {t}, !.cur = t, !.pc =
                    IF rec[r].read[t].written THEN "unlink" ELSE "move"])
     \/ rec[r].stale = {} /\ ListOrphans(r)
  /\ UNCHANGED <<bucket, Project, lock, Server, raised, claude, ex, intact>>
  /\ Record

\* cleanup_claude_md with the BackupInfo rebuilt from the lock; what it raises
\* is logged.
RecoverUnlink(r) ==
  /\ rec[r].pc = "unlink"
  /\ \/ /\ claudeMd' = "none"
        /\ Put(r, [rec[r] EXCEPT !.pc = "restore"])
        /\ UNCHANGED <<intact, raised>>
     \/ /\ Put(r, [rec[r] EXCEPT !.pc = "move"])
        /\ intact' = FALSE
        /\ Raise
        /\ UNCHANGED claudeMd
  /\ UNCHANGED <<bucket, backup, lock, Server, claude, ex>>
  /\ Record

\* Slip: the backup is looked up under the new process id.
RecoverRestoreOwn(r) ==
  /\ rec[r].pc = "restore"
  /\ IF rec[r].read[rec[r].cur].backedUp /\ backup[pid] # "none"
     THEN /\ claudeMd' = backup[pid]
          /\ backup' = [backup EXCEPT ![pid] = "none"]
     ELSE UNCHANGED <<claudeMd, backup>>
  /\ Put(r, [rec[r] EXCEPT !.pc = "move"])
  /\ UNCHANGED <<bucket, lock, Server, raised, claude, ex, intact>>
  /\ Record

RecoverRestore(r) ==
  LET l == rec[r].read[rec[r].cur]
  IN /\ rec[r].pc = "restore"
     /\ \/ /\ l.backedUp /\ backup[l.pid] # "none"
           /\ claudeMd' = backup[l.pid]
           /\ backup' = [backup EXCEPT ![l.pid] = "none"]
           /\ UNCHANGED <<intact, raised>>
        \/ /\ ~(l.backedUp /\ backup[l.pid] # "none")
           /\ UNCHANGED <<claudeMd, backup, intact, raised>>
        \/ /\ l.backedUp
           /\ intact' = FALSE
           /\ Raise
           /\ UNCHANGED <<claudeMd, backup>>
     /\ Put(r, [rec[r] EXCEPT !.pc = "move"])
     /\ UNCHANGED <<bucket, lock, Server, claude, ex>>
     /\ Record

\* The task's file, if it is there; what stamping and moving it raise is
\* logged, and the lock goes all the same.
RecoverMove(r) ==
  /\ rec[r].pc = "move"
  /\ \/ /\ bucket[rec[r].cur] = "running"
        /\ Move(rec[r].cur, "unfinished")
        /\ UNCHANGED raised
     \/ /\ bucket[rec[r].cur] # "running"
        /\ UNCHANGED <<bucket, raised>>
     \/ /\ Raise
        /\ UNCHANGED bucket
  /\ Put(r, [rec[r] EXCEPT !.pc = "release"])
  /\ UNCHANGED <<Project, lock, Server, claude, ex, intact>>
  /\ Record

RecoverRelease(r) ==
  /\ rec[r].pc = "release"
  /\ lock' = [lock EXCEPT ![rec[r].cur] = NoLock]
  /\ Put(r, [rec[r] EXCEPT !.pc = "next", !.cur = NULL,
                           !.read = [@ EXCEPT ![rec[r].cur] = NoLock]])
  /\ UNCHANGED <<bucket, Project, Server, raised, claude, ex, intact>>
  /\ Record

\* Those that have no lock, one by one, likewise.  start_runner goes on with
\* the file names and a first usage check.
RecoverOrphans(r) ==
  /\ rec[r].pc = "orphans"
  /\ \/ \E t \in rec[r].stale :
          /\ Put(r, [rec[r] EXCEPT !.stale = @ \ {t}])
          /\ \/ /\ Orphan(t)
                /\ Move(t, "unfinished")
                /\ UNCHANGED raised
             \/ /\ ~Orphan(t)
                /\ UNCHANGED <<bucket, raised>>
             \/ /\ Raise
                /\ UNCHANGED bucket
     \/ /\ rec[r].stale = {}
        /\ Put(r, [NoRecovery EXCEPT !.pc = IF r = "start" THEN "check" ELSE "done"])
        /\ UNCHANGED <<bucket, raised>>
  /\ UNCHANGED <<Project, lock, Server, claude, ex, intact>>
  /\ Record

\* The runner's loop, which survives what is raised in it.
EnterLoop ==
  /\ rec["start"].pc = "check"
  /\ Put("start", NoRecovery)
  /\ UNCHANGED <<bucket, Project, lock, Server, raised, claude, ex, intact>>
  /\ Record

RecoveryOf(r) ==
  /\ Up
  /\ \/ Scan(r) \/ NextStale(r) \/ RecoverUnlink(r) \/ RecoverRestore(r)
     \/ RecoverMove(r) \/ RecoverRelease(r) \/ RecoverOrphans(r)
     \/ r = "start" /\ EnterLoop

\* Reading or removing a lock file that is gone or cannot be touched, or the
\* first usage check, raises: start_runner ends.
RunnerFails(r) ==
  /\ Up
  /\ rec[r].pc \in {"scan", "release", "check"}
  /\ intact' = (intact /\ ~(rec[r].pc = "release" /\ rec[r].read[rec[r].cur].written))
  /\ Raise
  /\ Put(r, [NoRecovery EXCEPT !.pc = IF r = "start" THEN "failed" ELSE "done"])
  /\ UNCHANGED <<bucket, Project, lock, Server, claude, ex>>
  /\ Record

\* _background_runner starts it again after 15 s, in the same server, whatever
\* runs there now.
RunnerAgain ==
  /\ Up
  /\ rec["start"].pc = "failed"
  /\ Put("start", [NoRecovery EXCEPT !.pc = "scan"])
  /\ intact' = (intact /\ ex.pc = "idle" /\ ~OnceRecovers)
  /\ UNCHANGED <<bucket, Project, lock, Server, raised, claude, ex>>
  /\ Record

\* Slip: run-once does not take the execution lock.
RunOnceAnyway ==
  /\ Up
  /\ ~OnceRecovers
  /\ Put("once", [NoRecovery EXCEPT !.pc = "scan"])
  /\ intact' = (intact /\ ~Recovering)
  /\ UNCHANGED <<bucket, Project, lock, Server, raised, claude, ex>>
  /\ Record

\* run-once goes through start_runner too and recovers again, under the
\* execution lock, and beside the start's recovery if that is not over.
RunOnce ==
  /\ Up
  /\ ex.pc = "idle"
  /\ ~OnceRecovers
  /\ Put("once", [NoRecovery EXCEPT !.pc = "scan"])
  /\ intact' = (intact /\ ~Recovering)
  /\ UNCHANGED <<bucket, Project, lock, Server, raised, claude, ex>>
  /\ Record

-----------------------------------------------------------------------------
\* Deaths the next recovery cannot put right.  An original is set aside, or an
\* injected file in place, and the lock does not say so or is torn; or the
\* original is back and the lock still says that it is not.
Unrepairable ==
  \/ ex.pc = "inject" /\ ex.had = "pending"
  \/ ex.pc \in {"record", "recording", "grouping"}
  \/ ex.pc = "release" /\ ex.had = "yes"
  \/ \E r \in Recoverer : /\ rec[r].pc \in {"move", "release"}
                          /\ rec[r].read[rec[r].cur].backedUp

\* The server dies.  claude, in a session of its own, may go on, and write to
\* the project; what it does then is nobody's any more and not followed here.
Crash ==
  /\ Up
  /\ crashes + raised < MaxTroubles
  /\ crashes' = crashes + 1
  /\ pid' = NULL
  /\ ex' = Idle
  /\ rec' = [r \in Recoverer |-> NoRecovery]
  /\ claude' = {}
  /\ intact' = (intact /\ ~Unrepairable)
  /\ UNCHANGED <<bucket, Project, lock, raised>>
  /\ Record

\* No lock and no backup has the id of p.
Fresh(p) == backup[p] = "none" /\ \A t \in Task : lock[t].pid # p

\* start_runner in its background thread, and the process id the system gives.
Start(p) ==
  /\ ~Up
  /\ Fresh(p) \/ ReusePid
  /\ pid' = p
  /\ rec' = [rec EXCEPT !["start"] = [NoRecovery EXCEPT !.pc = "scan"]]
  /\ UNCHANGED <<bucket, Project, lock, crashes, raised, claude, ex, intact>>
  /\ Record

\* claude ends by itself.
ClaudeExits(t) ==
  /\ t \in claude
  /\ claude' = claude \ {t}
  /\ UNCHANGED <<bucket, Project, lock, Server, raised, ex, rec, intact>>
  /\ Record

\* What the dashboard and the command line do, also to a task that is running:
\* from one bucket to another, without asking whose it is.
ByHand(t, from, to) ==
  /\ Up
  /\ bucket[t] \in from
  /\ Move(t, to)
  /\ UNCHANGED <<Project, lock, Server, raised, claude, ex, rec, intact>>
  /\ Record

Retry(t) == ByHand(t, {"unfinished", "failed"}, "pending")
Unfinish(t) == ByHand(t, {"pending"}, "unfinished")
BeginAlone(t) == ByHand(t, {"pending"}, "running")
Settle(t) == \E b \in {"done", "failed", "unfinished"} : ByHand(t, {"running"}, b)
Remove(t) == ByHand(t, Bucket \ {"gone"}, "gone")

Next ==
  \/ \E t \in Task : \/ Begin(t) \/ Cancel(t) \/ ClaudeExits(t)
                     \/ Retry(t) \/ Unfinish(t) \/ BeginAlone(t) \/ Settle(t) \/ Remove(t)
  \/ Execution
  \/ \E r \in Recoverer : RecoveryOf(r) \/ RunnerFails(r)
  \/ RunnerAgain \/ RunOnce
  \/ Crash
  \/ \E p \in Pid : Start(p)

Spec == Init /\ [][Next]_vars

\* The threads that recover run, and a failed runner is started again.
FairSpec ==
  /\ Spec
  /\ WF_vars(RecoveryOf("start") \/ RunnerAgain)
  /\ WF_vars(RecoveryOf("once"))

-----------------------------------------------------------------------------
\* The positions of execute_task and of _recover_stale.
Position == {"idle", "acquire", "acquiring", "build", "inject", "record",
             "recording", "spawn", "group", "grouping", "wait", "unlink",
             "restore", "release", "finalize"}
RecPosition == {"done", "scan", "next", "unlink", "restore", "move", "release",
                "orphans", "check", "failed"}
Text == {"none", "user", "injected"}
LockFile == [there : BOOLEAN, torn : BOOLEAN, pid : Pid \cup {NULL},
             written : BOOLEAN, backedUp : BOOLEAN, group : BOOLEAN]

ExRecord == [pc : Position, task : Task \cup {NULL},
             had : {"unset", "pending", "yes", "no"},
             outcome : {"done", "unfinished", "failed"}, data : LockFile]
RecRecord == [pc : RecPosition, stale : SUBSET Task, seen : SUBSET Task,
              cur : Task \cup {NULL}, read : [Task -> LockFile]]

TypeOK ==
  /\ bucket \in [Task -> Bucket]
  /\ claudeMd \in Text
  /\ backup \in [Pid -> Text]
  /\ lock \in [Task -> LockFile]
  /\ pid \in Pid \cup {NULL}
  /\ claude \subseteq Task
  /\ ex \in ExRecord
  /\ ex.pc = "idle" <=> ex.task = NULL
  /\ rec \in [Recoverer -> RecRecord]
  /\ crashes \in Nat /\ raised \in Nat
  /\ intact \in BOOLEAN /\ exposed \in BOOLEAN /\ touched \in BOOLEAN
  /\ left \subseteq Task

\* docs/agent-context.md:236 says that the backup is restored "so your
\* interactive `CLAUDE.md` is never lost": it always exists somewhere, in
\* place or in the backup of some process.
OriginalNeverLost ==
  HadUser => claudeMd = "user" \/ \E p \in Pid : backup[p] = "user"

\* This is so for deaths outside the windows of Unrepairable, while the writes
\* of execution and clean-up succeed, a recovery overlaps neither a run nor
\* another recovery, and no dead server's id is a live process's.
OriginalKept == intact => OriginalNeverLost

\* Nothing runs and nothing is left to recover.
Quiet == Up /\ ex.pc = "idle" /\ ~Recovering

\* Whenever the server is idle, whatever the last tasks did or died of (with
\* the same exceptions) and whoever moved their files meanwhile, the project
\* has the CLAUDE.md its user left there and no lock remains.
ProjectRestored ==
  intact /\ Quiet => /\ claudeMd = IF HadUser THEN "user" ELSE "none"
                     /\ \A t \in Task : ~lock[t].there

\* After start-up no task sits in running/ without somebody running it, even
\* if the server died again while recovering, except those that have been given
\* up since: begun by hand, not moved for an error, or taken for a live one's.
NoOrphan ==
  Up /\ ~StartRecovers =>
    \A t \in Task : bucket[t] = "running" => ex.task = t \/ t \in left

\* Recovery takes away only what a dead server left: that of run-once never
\* meets a run, and a start's, also beside runs of the same server, moves no
\* task and removes no lock of a live run that had its lock file throughout.
LiveRunSpared ==
  [][\A r \in Recoverer :
       RecoveryOf(r) /\ ex.pc # "idle" /\ ~exposed =>
         bucket'[ex.task] = bucket[ex.task] /\ lock'[ex.task] = lock[ex.task]]_vars

\* "Two tasks never run concurrently": the only claude alive of those that the
\* present server has started is the one its executor waits for.
ClaudeAlone ==
  intact => \A t \in claude :
              t = ex.task /\ ex.pc \in {"group", "grouping", "wait"}

\* Every recovery ends, also beside another one and beside runs, and after
\* start_runner has failed: nothing in a stale lock, and nothing it raises, can
\* keep the runner from its loop.
RecoveryEnds == Recovering ~> ~Recovering

-----------------------------------------------------------------------------
\* What the users of the queue are promised: the refinement to TaskLife.
Phase == IF ~Up THEN "down" ELSE IF StartRecovers THEN "recovering" ELSE "up"

Life == INSTANCE TaskLife WITH
  status <- bucket, phase <- Phase, worker <- ex.task

\* Every behaviour of the executor, of recovery and of the server's deaths is
\* one of the life that TaskLife describes.
LifeKept == Life!Spec
=============================================================================
