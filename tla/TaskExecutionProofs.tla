------------------------- MODULE TaskExecutionProofs -------------------------
(***************************************************************************)
(* Theorems about TaskExecution, for any tasks, process ids (reused or     *)
(* not), failing file operations and deaths: types, that no task is        *)
(* orphaned but those that somebody has given up, that recovery spares     *)
(* live runs, and that the detailed steps implement TaskLife.              *)
(***************************************************************************)
EXTENDS TaskExecution, TLAPS

-----------------------------------------------------------------------------
(* The inductive invariant *)

\* Only a server that is up executes, recovers or has given up a task.
Alive == ~Up => /\ ex.pc = "idle" /\ left = {}
                /\ \A r \in Recoverer : rec[r].pc = "done"

\* A recovery visits the stale locks one by one, and is at one in AtLock.
AtLock == {"unlink", "restore", "move", "release"}
Visiting == AtLock \cup {"next"}
Cursor == \A r \in Recoverer : rec[r].cur # NULL <=> rec[r].pc \in AtLock

\* A lock file that says that an original was set aside names the process.
Known(l) == l.backedUp => l.pid \in Pid
LocksKnown ==
  /\ \A t \in Task : Known(lock[t])
  /\ \A r \in Recoverer, t \in Task : Known(rec[r].read[t])
  /\ Known(ex.data)

\* What the executor writes into its lock has the server's process id.
OwnLock ==
  /\ ex.pc \in {"acquiring", "recording", "grouping"} => ex.data.pid = pid
  /\ ex.pc \in {"build", "inject", "record", "spawn", "group", "wait"}
       => (lock[ex.task].there => lock[ex.task].pid = pid)

\* run-once recovers while nothing runs, and goes nowhere else.
OnceAlone == /\ OnceRecovers => ex.pc = "idle"
             /\ rec["once"].pc \notin {"check", "failed"}

\* The histories of a run end with it; what has been given up is in running/.
Calm == /\ ex.pc = "idle" => ~exposed /\ ~touched
        /\ \A t \in left : bucket[t] = "running"

\* The tasks in running/ that nobody runs or has given up are those that the
\* start's recovery has yet to visit, those that will be orphans to it, and none
\* when it is over.
Pending(t, s) ==
  /\ s.pc \in Visiting => \/ t \in s.stale
                          \/ t = s.cur /\ s.pc # "release"
                          \/ t \notin s.seen /\ ~lock[t].there
  /\ s.pc = "orphans" => t \in s.stale /\ ~lock[t].there
  /\ s.pc \notin {"check", "done"}
Unowned(t) == bucket[t] = "running" /\ t # ex.task /\ t \notin left
Shelved == Up => \A t \in Task : Unowned(t) => Pending(t, rec["start"])

\* A run that is not exposed has its lock, and recovery is not after it.
Spared ==
  ex.pc # "idle" /\ ~exposed /\ StartRecovers =>
    /\ Guarded
    /\ rec["start"].pc \in Visiting =>
         ex.task \notin rec["start"].stale /\ ex.task # rec["start"].cur

\* And its file is in running/ unless a user has moved it.
InRunning ==
  ex.pc # "idle" /\ ~exposed /\ ~touched => bucket[ex.task] = "running"

Inv == /\ TypeOK /\ Alive /\ Cursor /\ LocksKnown /\ OwnLock /\ OnceAlone
       /\ Calm /\ Shelved /\ Spared /\ InRunning

-----------------------------------------------------------------------------
(* It is inductive *)

\* The forms of a lock file.
LEMMA LockForms ==
  /\ NoLock \in LockFile /\ Torn \in LockFile
  /\ \A p \in Pid \cup {NULL} : LockOf(p) \in LockFile
  /\ ~NoLock.there /\ ~NoLock.backedUp
  /\ Torn.torn /\ Torn.there /\ ~Torn.written /\ ~Torn.backedUp
  /\ \A p : LockOf(p).pid = p /\ LockOf(p).there /\ ~LockOf(p).written
            /\ ~LockOf(p).backedUp
  BY DEF NoLock, Torn, LockOf, LockFile

\* An executor and a recovery that do nothing.
LEMMA IdleForm ==
  /\ Idle \in ExRecord /\ Idle.pc = "idle" /\ Idle.task = NULL
  /\ Idle.data = NoLock /\ Idle.had = "unset"
  /\ NoRecovery \in RecRecord /\ NoRecovery.pc = "done" /\ NoRecovery.stale = {}
  /\ NoRecovery.cur = NULL /\ NoRecovery.seen = {}
  /\ \A t \in Task : NoRecovery.read[t] = NoLock
<1>1. Idle \in ExRecord
  BY LockForms DEF Idle, ExRecord, Position
<1>2. NoRecovery \in RecRecord
  BY LockForms DEF NoRecovery, RecRecord, RecPosition
<1> QED
  BY <1>1, <1>2 DEF Idle, NoRecovery

\* One that is somewhere else in its code has the same locals.
LEMMA AtForm ==
  ASSUME NEW l \in RecPosition
  PROVE  /\ [NoRecovery EXCEPT !.pc = l] \in RecRecord
         /\ [NoRecovery EXCEPT !.pc = l].pc = l
         /\ [NoRecovery EXCEPT !.pc = l].stale = {}
         /\ [NoRecovery EXCEPT !.pc = l].seen = {}
         /\ [NoRecovery EXCEPT !.pc = l].cur = NULL
         /\ \A t \in Task : [NoRecovery EXCEPT !.pc = l].read[t] = NoLock
  BY IdleForm DEF NoRecovery, RecRecord

\* The recoverers.
LEMMA Recoverers == "start" \in Recoverer /\ "once" \in Recoverer
                    /\ \A r \in Recoverer : r = "start" \/ r = "once"
  BY DEF Recoverer

\* The invariant holds at first.
LEMMA InitInv == Init => Inv
<1> SUFFICES ASSUME Init PROVE Inv
  OBVIOUS
<1> USE ExecutionAssumption, LockForms, IdleForm, Recoverers
<1>1. /\ rec["start"] = [NoRecovery EXCEPT !.pc = "scan"]
      /\ rec["once"] = NoRecovery /\ rec \in [Recoverer -> RecRecord]
  BY AtForm DEF Init, RecPosition
<1>2. rec["start"].pc = "scan" /\ rec["start"].cur = NULL
      /\ \A t \in Task : rec["start"].read[t] = NoLock
  BY <1>1, AtForm DEF RecPosition
<1>3. TypeOK
  BY <1>1 DEF Init, TypeOK, Bucket, Text
<1>4. Alive /\ Cursor /\ OnceAlone /\ Calm /\ OwnLock /\ Spared /\ InRunning
  BY <1>1, <1>2 DEF Init, Alive, Cursor, OnceAlone, Calm, OwnLock, Spared, InRunning,
     OnceRecovers, AtLock, Up
<1>5. LocksKnown
  BY <1>1, <1>2 DEF Init, LocksKnown, Known
<1>6. Shelved
  BY DEF Init, Shelved, Unowned
<1> QED
  BY <1>3, <1>4, <1>5, <1>6 DEF Inv

\* The types of what the steps count and remember.
LEMMA HistoryTypes ==
  ASSUME Record
  PROVE  exposed' \in BOOLEAN /\ touched' \in BOOLEAN /\ left' \subseteq Task
  BY DEF Record

LEMMA RaisedType ==
  ASSUME TypeOK, Raise
  PROVE  raised' \in Nat
  BY DEF TypeOK, Raise

\* What the steps of the executor have in common: it stays in its run, and
\* touches no lock but its own.
ExecutorStep ==
  /\ ex.pc # "idle" /\ ex'.pc # "idle"
  /\ ex' \in ExRecord /\ ex'.task = ex.task
  /\ lock' \in [Task -> LockFile]
  /\ \A t \in Task : t # ex.task => lock'[t] = lock[t]
  /\ UNCHANGED <<bucket, rec, pid>>
  /\ Record

\* Nobody gives up a task in such a step, or in one of a claude's.
LEMMA NobodyGivesUp ==
  ASSUME Calm, NEW t \in Task, UNCHANGED <<bucket, rec, pid>>, Record,
         ex'.task = ex.task
  PROVE  t \in left' <=> t \in left
<1>1. bucket[t] = "running" => ~GivenUp(t)
  BY DEF GivenUp
<1> QED
  BY <1>1 DEF Record, Calm

\* So the invariant survives if the types and the lock's contents do.
LEMMA ExecutorInv ==
  ASSUME Inv, ExecutorStep, TypeOK', LocksKnown', OwnLock'
  PROVE  Inv'
<1> USE DEF ExecutorStep
<1>1. ex.task \in Task /\ Up
  BY DEF Inv, Alive, TypeOK, ExRecord
<1>2. Alive' /\ Cursor' /\ OnceAlone' /\ InRunning'
  BY <1>1 DEF Inv, Alive, Cursor, OnceAlone, InRunning, OnceRecovers, Up, Record
<1>3. \A t \in Task : t \in left' <=> t \in left
  BY NobodyGivesUp DEF Inv
<1>4. Calm'
  BY <1>3 DEF Inv, Calm, TypeOK, Record
<1>5. Shelved'
  BY <1>1, <1>3 DEF Inv, Shelved, Unowned, Pending, Up
<1>6. Spared'
  BY <1>1 DEF Inv, Spared, Record, StartRecovers, Guarded
<1> QED
  BY <1>2, <1>4, <1>5, <1>6 DEF Inv

\* What the executor writes keeps the locks in order.
LEMMA WriteLockStep ==
  ASSUME Inv, Record,
         NEW from \in Position \ {"idle"}, NEW mid \in {"acquiring", "recording", "grouping"},
         NEW to \in {"build", "spawn", "wait"}, NEW failed \in {"unlink", "finalize"},
         NEW content \in LockFile, Known(content), content.pid = pid,
         WriteLock(from, mid, to, failed, content),
         UNCHANGED <<bucket, claudeMd, backup, pid, crashes, claude, rec>>
  PROVE  ExecutorStep /\ TypeOK' /\ LocksKnown' /\ OwnLock'
<1>1. /\ TypeOK /\ ex \in ExRecord /\ ex.data \in LockFile /\ ex.pc # "idle"
      /\ ex.task \in Task /\ lock \in [Task -> LockFile] /\ rec' = rec
  BY DEF Inv, TypeOK, ExRecord, WriteLock, Position
<1>2. CASE /\ lock' = [lock EXCEPT ![ex.task] = Torn]
           /\ ex' = [ex EXCEPT !.pc = mid, !.data = content]
           /\ UNCHANGED <<intact, raised>>
  <2>1. /\ ex' \in ExRecord /\ ex'.pc = mid /\ ex'.task = ex.task /\ ex'.data = content
    BY <1>1, <1>2 DEF ExRecord, Position
  <2>2. /\ lock' \in [Task -> LockFile] /\ lock'[ex.task] = Torn
        /\ \A t \in Task : t # ex.task => lock'[t] = lock[t]
    BY <1>1, <1>2, LockForms
  <2>3. ExecutorStep
    BY <1>1, <2>1, <2>2 DEF ExecutorStep
  <2>4. TypeOK'
    BY <1>1, <1>2, <2>1, <2>2, HistoryTypes DEF TypeOK
  <2>5. LocksKnown' /\ OwnLock'
    BY <1>1, <2>1, <2>2, LockForms DEF Inv, LocksKnown, Known, OwnLock
  <2> QED
    BY <2>3, <2>4, <2>5
<1>3. CASE /\ ex.pc = mid
           /\ lock' = [lock EXCEPT ![ex.task] = ex.data]
           /\ ex' = [ex EXCEPT !.pc = to, !.data = NoLock]
           /\ UNCHANGED <<intact, raised>>
  <2>1. /\ ex' \in ExRecord /\ ex'.pc = to /\ ex'.task = ex.task /\ ex'.data = NoLock
    BY <1>1, <1>3, LockForms DEF ExRecord, Position
  <2>2. /\ lock' \in [Task -> LockFile] /\ lock'[ex.task] = ex.data
        /\ \A t \in Task : t # ex.task => lock'[t] = lock[t]
    BY <1>1, <1>3, LockForms
  <2>3. ExecutorStep
    BY <1>1, <2>1, <2>2 DEF ExecutorStep
  <2>4. TypeOK'
    BY <1>1, <1>3, <2>1, <2>2, HistoryTypes DEF TypeOK
  <2>5. LocksKnown' /\ OwnLock'
    BY <1>1, <1>3, <2>1, <2>2, LockForms DEF Inv, LocksKnown, Known, OwnLock
  <2> QED
    BY <2>3, <2>4, <2>5
<1>4. CASE /\ ex' = [ex EXCEPT !.pc = failed, !.data = NoLock, !.outcome = "failed"]
           /\ intact' = FALSE /\ Raise /\ UNCHANGED lock
  <2>1. /\ ex' \in ExRecord /\ ex'.pc = failed /\ ex'.task = ex.task /\ ex'.data = NoLock
    BY <1>1, <1>4, LockForms DEF ExRecord, Position
  <2>2. lock' = lock
    BY <1>4
  <2>3. ExecutorStep
    BY <1>1, <2>1, <2>2 DEF ExecutorStep
  <2>4. TypeOK'
    BY <1>1, <1>4, <2>1, <2>2, HistoryTypes, RaisedType DEF TypeOK
  <2>5. LocksKnown' /\ OwnLock'
    BY <1>1, <2>1, <2>2, LockForms DEF Inv, LocksKnown, Known, OwnLock
  <2> QED
    BY <2>3, <2>4, <2>5
<1> QED
  BY <1>2, <1>3, <1>4 DEF WriteLock

LEMMA AcquireLockStep ==
  ASSUME Inv, AcquireLock
  PROVE  ExecutorStep /\ TypeOK' /\ LocksKnown' /\ OwnLock'
<1>1. LockOf(pid) \in LockFile /\ Known(LockOf(pid)) /\ LockOf(pid).pid = pid
  BY LockForms DEF Inv, TypeOK, Known
<1> QED
  BY <1>1, WriteLockStep DEF AcquireLock, Server, Project, Position

\* An executor that finds its lock file removed goes to its clean-up.
LEMMA NoLockStep ==
  ASSUME Inv, Record, ex.pc # "idle",
         ex' = [ex EXCEPT !.pc = "unlink", !.outcome = "failed"],
         UNCHANGED <<bucket, claudeMd, backup, lock, pid, crashes, raised, claude,
                     rec, intact>>
  PROVE  ExecutorStep /\ TypeOK' /\ LocksKnown' /\ OwnLock'
<1>1. /\ TypeOK /\ ex \in ExRecord /\ ex.task \in Task /\ rec' = rec
  BY DEF Inv, TypeOK, ExRecord
<1>2. /\ ex' \in ExRecord /\ ex'.pc = "unlink" /\ ex'.task = ex.task
      /\ ex'.data = ex.data
  BY <1>1 DEF ExRecord, Position
<1>3. ExecutorStep
  BY <1>1, <1>2 DEF ExecutorStep, TypeOK
<1>4. TypeOK'
  BY <1>1, <1>2, HistoryTypes DEF TypeOK
<1>5. LocksKnown' /\ OwnLock'
  BY <1>1, <1>2 DEF Inv, LocksKnown, Known, OwnLock
<1> QED
  BY <1>3, <1>4, <1>5

LEMMA RecordInjectionStep ==
  ASSUME Inv, RecordInjection
  PROVE  ExecutorStep /\ TypeOK' /\ LocksKnown' /\ OwnLock'
<1> DEFINE l == [lock[ex.task] EXCEPT !.written = TRUE, !.backedUp = (ex.had = "yes")]
<1>1. /\ ex.task \in Task /\ ex.pc \in {"record", "recording"} /\ Up
      /\ lock[ex.task] \in LockFile /\ pid \in Pid
  BY DEF Inv, TypeOK, ExRecord, RecordInjection, UpdateLock, WriteLock, Alive, Up
<1>2. l \in LockFile /\ l.pid = lock[ex.task].pid
  BY <1>1 DEF LockFile
<1> HIDE DEF l
<1>3. CASE ~lock[ex.task].there /\ ex.pc = "record"
  BY <1>3, NoLockStep DEF RecordInjection, UpdateLock, WriteLock, Server, Project
<1>4. CASE lock[ex.task].there /\ ex.pc = "record"
  <2>1. l.pid = pid /\ Known(l)
    BY <1>1, <1>2, <1>4 DEF Inv, OwnLock, Known
  <2>2. WriteLock("record", "recording", "spawn", "unlink", l)
    BY <1>4 DEF RecordInjection, UpdateLock, l
  <2> QED
    BY <1>2, <2>1, <2>2, WriteLockStep
       DEF RecordInjection, Server, Project, Position
<1>5. CASE ex.pc = "recording"
  <2>1. WriteLock("record", "recording", "spawn", "unlink", ex.data)
    BY <1>5 DEF RecordInjection, UpdateLock, WriteLock
  <2>2. ex.data \in LockFile /\ Known(ex.data) /\ ex.data.pid = pid
    BY <1>1, <1>5 DEF Inv, TypeOK, ExRecord, LocksKnown, OwnLock
  <2> QED
    BY <2>1, <2>2, WriteLockStep DEF RecordInjection, Server, Project, Position
<1> QED
  BY <1>1, <1>3, <1>4, <1>5

LEMMA RecordGroupStep ==
  ASSUME Inv, RecordGroup
  PROVE  ExecutorStep /\ TypeOK' /\ LocksKnown' /\ OwnLock'
<1> DEFINE l == [lock[ex.task] EXCEPT !.group = TRUE]
<1>1. /\ ex.task \in Task /\ ex.pc \in {"group", "grouping"} /\ Up
      /\ lock[ex.task] \in LockFile /\ pid \in Pid
  BY DEF Inv, TypeOK, ExRecord, RecordGroup, UpdateLock, WriteLock, Alive, Up
<1>2. l \in LockFile /\ l.pid = lock[ex.task].pid
  BY <1>1 DEF LockFile
<1> HIDE DEF l
<1>3. CASE ~lock[ex.task].there /\ ex.pc = "group"
  BY <1>3, NoLockStep DEF RecordGroup, UpdateLock, WriteLock, Server, Project
<1>4. CASE lock[ex.task].there /\ ex.pc = "group"
  <2>1. l.pid = pid /\ Known(l)
    BY <1>1, <1>2, <1>4 DEF Inv, OwnLock, Known
  <2>2. WriteLock("group", "grouping", "wait", "unlink", l)
    BY <1>4 DEF RecordGroup, UpdateLock, l
  <2> QED
    BY <1>2, <2>1, <2>2, WriteLockStep
       DEF RecordGroup, Server, Project, Position
<1>5. CASE ex.pc = "grouping"
  <2>1. WriteLock("group", "grouping", "wait", "unlink", ex.data)
    BY <1>5 DEF RecordGroup, UpdateLock, WriteLock
  <2>2. ex.data \in LockFile /\ Known(ex.data) /\ ex.data.pid = pid
    BY <1>1, <1>5 DEF Inv, TypeOK, ExRecord, LocksKnown, OwnLock
  <2> QED
    BY <2>1, <2>2, WriteLockStep DEF RecordGroup, Server, Project, Position
<1> QED
  BY <1>1, <1>3, <1>4, <1>5

LEMMA BuildAndBackUpStep ==
  ASSUME Inv, BuildAndBackUp
  PROVE  ExecutorStep /\ TypeOK' /\ LocksKnown' /\ OwnLock'
<1>1. /\ TypeOK /\ ex \in ExRecord /\ ex.pc = "build" /\ ex.task \in Task
      /\ rec' = rec /\ pid \in Pid
  BY DEF Inv, Alive, Up, TypeOK, ExRecord, BuildAndBackUp
<1>2. /\ ex' \in ExRecord /\ ex'.pc \in {"release", "inject"}
      /\ ex'.task = ex.task /\ ex'.data = ex.data
  BY <1>1 DEF ExRecord, Position, BuildAndBackUp, Goto, Project, Server
<1>3. /\ lock' \in [Task -> LockFile]
      /\ \A t \in Task : lock'[t] = lock[t] \/ (t = ex.task /\ lock'[t] = NoLock)
  BY <1>1, LockForms DEF TypeOK, BuildAndBackUp
<1>4. ExecutorStep
  BY <1>1, <1>2, <1>3 DEF ExecutorStep, BuildAndBackUp, Server
<1>5. TypeOK'
  BY <1>1, <1>2, <1>3, HistoryTypes
     DEF TypeOK, Text, BuildAndBackUp, Goto, Project, Server
<1>6. LocksKnown'
  BY <1>1, <1>2, <1>3, LockForms DEF Inv, LocksKnown, Known
<1>7. OwnLock'
  BY <1>1, <1>2, <1>3, LockForms DEF Inv, OwnLock, BuildAndBackUp, Server
<1> QED
  BY <1>4, <1>5, <1>6, <1>7

LEMMA InjectStep ==
  ASSUME Inv, Inject
  PROVE  ExecutorStep /\ TypeOK' /\ LocksKnown' /\ OwnLock'
<1>1. /\ TypeOK /\ ex \in ExRecord /\ ex.pc = "inject" /\ ex.task \in Task
      /\ rec' = rec /\ pid \in Pid
  BY DEF Inv, Alive, Up, TypeOK, ExRecord, Inject
<1>2. /\ ex' \in ExRecord /\ ex'.pc \in {"record", "release"}
      /\ ex'.task = ex.task /\ ex'.data = ex.data
  BY <1>1 DEF ExRecord, Position, Inject, Server, Raise
<1>3. /\ lock' \in [Task -> LockFile]
      /\ \A t \in Task : lock'[t] = lock[t] \/ (t = ex.task /\ lock'[t] = NoLock)
  BY <1>1, LockForms DEF TypeOK, Inject
<1>4. ExecutorStep
  BY <1>1, <1>2, <1>3 DEF ExecutorStep, Inject, Server
<1>5. TypeOK'
  BY <1>1, <1>2, <1>3, HistoryTypes, RaisedType
     DEF TypeOK, Text, Inject, Server
<1>6. LocksKnown'
  BY <1>1, <1>2, <1>3, LockForms DEF Inv, LocksKnown, Known
<1>7. OwnLock'
  BY <1>1, <1>2, <1>3, LockForms DEF Inv, OwnLock, Inject, Server
<1> QED
  BY <1>4, <1>5, <1>6, <1>7

LEMMA SpawnStep ==
  ASSUME Inv, Spawn
  PROVE  ExecutorStep /\ TypeOK' /\ LocksKnown' /\ OwnLock'
<1>1. /\ TypeOK /\ ex \in ExRecord /\ ex.pc = "spawn" /\ ex.task \in Task
      /\ rec' = rec /\ pid \in Pid
  BY DEF Inv, Alive, Up, TypeOK, ExRecord, Spawn
<1>2. /\ ex' \in ExRecord /\ ex'.pc \in {"group", "unlink"}
      /\ ex'.task = ex.task /\ ex'.data = ex.data
  BY <1>1 DEF ExRecord, Position, Spawn, Goto, Project, Server
<1>3. /\ lock' \in [Task -> LockFile]
      /\ \A t \in Task : lock'[t] = lock[t] \/ (t = ex.task /\ lock'[t] = NoLock)
  BY <1>1, LockForms DEF TypeOK, Spawn
<1>4. ExecutorStep
  BY <1>1, <1>2, <1>3 DEF ExecutorStep, Spawn, Server
<1>5. TypeOK'
  BY <1>1, <1>2, <1>3, HistoryTypes
     DEF TypeOK, Text, Spawn, Goto, Project, Server
<1>6. LocksKnown'
  BY <1>1, <1>2, <1>3, LockForms DEF Inv, LocksKnown, Known
<1>7. OwnLock'
  BY <1>1, <1>2, <1>3, LockForms DEF Inv, OwnLock, Spawn, Server
<1> QED
  BY <1>4, <1>5, <1>6, <1>7

LEMMA WaitStep ==
  ASSUME Inv, Wait
  PROVE  ExecutorStep /\ TypeOK' /\ LocksKnown' /\ OwnLock'
<1>1. /\ TypeOK /\ ex \in ExRecord /\ ex.pc = "wait" /\ ex.task \in Task
      /\ rec' = rec /\ pid \in Pid
  BY DEF Inv, Alive, Up, TypeOK, ExRecord, Wait
<1>2. /\ ex' \in ExRecord /\ ex'.pc \in {"unlink"}
      /\ ex'.task = ex.task /\ ex'.data = ex.data
  <2>1. Ends \subseteq {"done", "unfinished", "failed"}
    BY DEF Ends, OutcomeOf
  <2>2. PICK outcome \in Ends \cup {"failed"} :
               ex' = [ex EXCEPT !.pc = "unlink", !.outcome = outcome]
    BY DEF Wait
  <2> QED
    BY <1>1, <2>1, <2>2 DEF ExRecord, Position
<1>3. /\ lock' \in [Task -> LockFile]
      /\ \A t \in Task : lock'[t] = lock[t] \/ (t = ex.task /\ lock'[t] = NoLock)
  BY <1>1, LockForms DEF TypeOK, Wait
<1>4. ExecutorStep
  BY <1>1, <1>2, <1>3 DEF ExecutorStep, Wait, Server
<1>5. TypeOK'
  BY <1>1, <1>2, <1>3, HistoryTypes
     DEF TypeOK, Text, Wait, Project, Server, Ends, OutcomeOf
<1>6. LocksKnown'
  BY <1>1, <1>2, <1>3, LockForms DEF Inv, LocksKnown, Known
<1>7. OwnLock'
  BY <1>1, <1>2, <1>3, LockForms DEF Inv, OwnLock, Wait, Server
<1> QED
  BY <1>4, <1>5, <1>6, <1>7

LEMMA CleanupRaisesStep ==
  ASSUME Inv, CleanupRaises
  PROVE  ExecutorStep /\ TypeOK' /\ LocksKnown' /\ OwnLock'
<1>1. /\ TypeOK /\ ex \in ExRecord /\ ex.pc \in {"unlink", "restore"} /\ ex.task \in Task
      /\ rec' = rec /\ pid \in Pid
  BY DEF Inv, Alive, Up, TypeOK, ExRecord, CleanupRaises
<1>2. /\ ex' \in ExRecord /\ ex'.pc \in {"finalize"}
      /\ ex'.task = ex.task /\ ex'.data = ex.data
  BY <1>1 DEF ExRecord, Position, CleanupRaises, Project, Server, Raise
<1>3. /\ lock' \in [Task -> LockFile]
      /\ \A t \in Task : lock'[t] = lock[t] \/ (t = ex.task /\ lock'[t] = NoLock)
  BY <1>1, LockForms DEF TypeOK, CleanupRaises
<1>4. ExecutorStep
  BY <1>1, <1>2, <1>3 DEF ExecutorStep, CleanupRaises, Server
<1>5. TypeOK'
  BY <1>1, <1>2, <1>3, HistoryTypes, RaisedType
     DEF TypeOK, Text, CleanupRaises, Project, Server
<1>6. LocksKnown'
  BY <1>1, <1>2, <1>3, LockForms DEF Inv, LocksKnown, Known
<1>7. OwnLock'
  BY <1>1, <1>2, <1>3, LockForms DEF Inv, OwnLock, CleanupRaises, Server
<1> QED
  BY <1>4, <1>5, <1>6, <1>7

LEMMA UnlinkStep ==
  ASSUME Inv, Unlink
  PROVE  ExecutorStep /\ TypeOK' /\ LocksKnown' /\ OwnLock'
<1>1. /\ TypeOK /\ ex \in ExRecord /\ ex.pc = "unlink" /\ ex.task \in Task
      /\ rec' = rec /\ pid \in Pid
  BY DEF Inv, Alive, Up, TypeOK, ExRecord, Unlink
<1>2. /\ ex' \in ExRecord /\ ex'.pc \in {"restore"}
      /\ ex'.task = ex.task /\ ex'.data = ex.data
  BY <1>1 DEF ExRecord, Position, Unlink, Goto, Server
<1>3. /\ lock' \in [Task -> LockFile]
      /\ \A t \in Task : lock'[t] = lock[t] \/ (t = ex.task /\ lock'[t] = NoLock)
  BY <1>1, LockForms DEF TypeOK, Unlink
<1>4. ExecutorStep
  BY <1>1, <1>2, <1>3 DEF ExecutorStep, Unlink, Server
<1>5. TypeOK'
  BY <1>1, <1>2, <1>3, HistoryTypes
     DEF TypeOK, Text, Unlink, Goto, Server
<1>6. LocksKnown'
  BY <1>1, <1>2, <1>3, LockForms DEF Inv, LocksKnown, Known
<1>7. OwnLock'
  BY <1>1, <1>2, <1>3, LockForms DEF Inv, OwnLock, Unlink, Server
<1> QED
  BY <1>4, <1>5, <1>6, <1>7

LEMMA RestoreStep ==
  ASSUME Inv, Restore
  PROVE  ExecutorStep /\ TypeOK' /\ LocksKnown' /\ OwnLock'
<1>1. /\ TypeOK /\ ex \in ExRecord /\ ex.pc = "restore" /\ ex.task \in Task
      /\ rec' = rec /\ pid \in Pid
  BY DEF Inv, Alive, Up, TypeOK, ExRecord, Restore
<1>2. /\ ex' \in ExRecord /\ ex'.pc \in {"release"}
      /\ ex'.task = ex.task /\ ex'.data = ex.data
  BY <1>1 DEF ExRecord, Position, Restore, Goto, Server
<1>3. /\ lock' \in [Task -> LockFile]
      /\ \A t \in Task : lock'[t] = lock[t] \/ (t = ex.task /\ lock'[t] = NoLock)
  BY <1>1, LockForms DEF TypeOK, Restore
<1>4. ExecutorStep
  BY <1>1, <1>2, <1>3 DEF ExecutorStep, Restore, Server
<1>5. TypeOK'
  BY <1>1, <1>2, <1>3, HistoryTypes
     DEF TypeOK, Text, Restore, Goto, Server
<1>6. LocksKnown'
  BY <1>1, <1>2, <1>3, LockForms DEF Inv, LocksKnown, Known
<1>7. OwnLock'
  BY <1>1, <1>2, <1>3, LockForms DEF Inv, OwnLock, Restore, Server
<1> QED
  BY <1>4, <1>5, <1>6, <1>7

LEMMA ReleaseStep ==
  ASSUME Inv, Release
  PROVE  ExecutorStep /\ TypeOK' /\ LocksKnown' /\ OwnLock'
<1>1. /\ TypeOK /\ ex \in ExRecord /\ ex.pc = "release" /\ ex.task \in Task
      /\ rec' = rec /\ pid \in Pid
  BY DEF Inv, Alive, Up, TypeOK, ExRecord, Release
<1>2. /\ ex' \in ExRecord /\ ex'.pc \in {"finalize"}
      /\ ex'.task = ex.task /\ ex'.data = ex.data
  BY <1>1 DEF ExRecord, Position, Release, Goto, Project, Server
<1>3. /\ lock' \in [Task -> LockFile]
      /\ \A t \in Task : lock'[t] = lock[t] \/ (t = ex.task /\ lock'[t] = NoLock)
  BY <1>1, LockForms DEF TypeOK, Release
<1>4. ExecutorStep
  BY <1>1, <1>2, <1>3 DEF ExecutorStep, Release, Server
<1>5. TypeOK'
  BY <1>1, <1>2, <1>3, HistoryTypes
     DEF TypeOK, Text, Release, Goto, Project, Server
<1>6. LocksKnown'
  BY <1>1, <1>2, <1>3, LockForms DEF Inv, LocksKnown, Known
<1>7. OwnLock'
  BY <1>1, <1>2, <1>3, LockForms DEF Inv, OwnLock, Release, Server
<1> QED
  BY <1>4, <1>5, <1>6, <1>7

\* Every step of an execution but its last.
LEMMA ExecutionInv ==
  ASSUME Inv, Execution, ~Finalize
  PROVE  ExecutorStep /\ Inv'
<1>1. ExecutorStep /\ TypeOK' /\ LocksKnown' /\ OwnLock'
  BY AcquireLockStep, BuildAndBackUpStep, InjectStep, RecordInjectionStep, SpawnStep,
     RecordGroupStep, WaitStep, UnlinkStep, RestoreStep, CleanupRaisesStep, ReleaseStep
     DEF Execution
<1> QED
  BY <1>1, ExecutorInv

\* A task is begun while nothing runs.
LEMMA BeginInv ==
  ASSUME Inv, NEW t \in Task, Begin(t)
  PROVE  Inv'
<1> DEFINE e == [Idle EXCEPT !.pc = "acquire", !.task = t]
<1>1. e \in ExRecord /\ e.pc = "acquire" /\ e.task = t /\ e.data = NoLock
  BY IdleForm DEF Idle, ExRecord, Position
<1>2. /\ TypeOK /\ ex.pc = "idle" /\ ex.task = NULL /\ t # NULL /\ Up
      /\ ~OnceRecovers /\ bucket[t] = "pending" /\ Record
      /\ bucket' = [bucket EXCEPT ![t] = "running"] /\ ex' = e
      /\ UNCHANGED <<claudeMd, backup, lock, pid, crashes, raised, claude, rec>>
      /\ intact' \in BOOLEAN
  BY ExecutionAssumption DEF Inv, TypeOK, Begin, Move, Project, Server
<1> HIDE DEF e
<1>3. bucket'[t] = "running" /\ \A u \in Task : u # t => bucket'[u] = bucket[u]
  BY <1>2 DEF TypeOK
<1>4. TypeOK'
  BY <1>1, <1>2, HistoryTypes DEF TypeOK, Bucket
<1>5. Alive' /\ Cursor' /\ OnceAlone' /\ LocksKnown' /\ OwnLock'
  BY <1>1, <1>2, LockForms
     DEF Inv, Alive, Cursor, OnceAlone, LocksKnown, Known, OwnLock, OnceRecovers, Up
<1>6. Calm'
  BY <1>1, <1>2 DEF Calm, Record
<1>7. InRunning'
  BY <1>1, <1>2, <1>3 DEF InRunning
<1>8. Spared'
  BY <1>1, <1>2 DEF Spared, Record
<1>9. \A u \in Task : u \in left => u \in left'
  BY <1>2, <1>3 DEF Record, Inv, Calm
<1>10. \A u \in Task : Unowned(u)' => Unowned(u)
  BY <1>1, <1>2, <1>3, <1>9, ExecutionAssumption DEF Unowned
<1>11. Shelved'
  BY <1>2, <1>10 DEF Inv, Shelved, Pending, Up
<1> QED
  BY <1>4, <1>5, <1>6, <1>7, <1>8, <1>11 DEF Inv

\* A task whose worker does not move it is given up.
LEMMA FinalizeInv ==
  ASSUME Inv, Finalize
  PROVE  Inv'
<1>1. /\ TypeOK /\ ex.pc = "finalize" /\ ex.task \in Task /\ ex' = Idle /\ Record
      /\ UNCHANGED <<claudeMd, backup, lock, pid, crashes, claude, rec, intact>>
      /\ raised' \in Nat /\ Up
  BY RaisedType DEF Inv, Alive, TypeOK, ExRecord, Finalize, Project, Server
<1>2. /\ bucket' \in [Task -> Bucket]
      /\ \A u \in Task : u # ex.task => bucket'[u] = bucket[u]
  BY <1>1 DEF Finalize, Move, TypeOK, ExRecord, Bucket
<1>3. /\ TypeOK'
  BY <1>1, <1>2, HistoryTypes, IdleForm DEF TypeOK
<1>4. Alive' /\ Cursor' /\ OnceAlone' /\ LocksKnown' /\ OwnLock'
  BY <1>1, IdleForm, LockForms
     DEF Inv, Alive, Cursor, OnceAlone, LocksKnown, Known, OwnLock, OnceRecovers, Up
<1>5. Calm' /\ InRunning' /\ Spared'
  BY <1>1, IdleForm DEF Calm, InRunning, Spared, Record
<1>6. ASSUME NEW u \in Task, Unowned(u)' PROVE Unowned(u)
  <2>1. bucket'[u] = "running" /\ u \notin left'
    BY <1>6 DEF Unowned
  <2>2. u \notin left /\ ~GivenUp(u)
    BY <1>1, <2>1 DEF Record
  <2>3. u # ex.task
    BY <1>1, <2>2, IdleForm, ExecutionAssumption DEF GivenUp
  <2> QED
    BY <1>2, <2>1, <2>2, <2>3 DEF Unowned
<1>7. Shelved'
  BY <1>1, <1>6 DEF Inv, Shelved, Pending, Up
<1> QED
  BY <1>3, <1>4, <1>5, <1>7 DEF Inv

\* A user's hand may take a task into running/, where it is given up, or out of
\* it, from under its worker.
LEMMA ByHandInv ==
  ASSUME Inv, NEW t \in Task, NEW from, NEW to \in Bucket, ByHand(t, from, to),
         to # "running" \/ from = {"pending"}
  PROVE  Inv'
<1>1. /\ TypeOK /\ Up /\ Record /\ bucket' = [bucket EXCEPT ![t] = to]
      /\ UNCHANGED <<claudeMd, backup, lock, pid, crashes, raised, claude, ex, rec,
                     intact>>
      /\ bucket[t] \in from
  BY DEF Inv, ByHand, Move, Project, Server
<1>2. /\ bucket'[t] = to /\ \A u \in Task : u # t => bucket'[u] = bucket[u]
      /\ bucket' \in [Task -> Bucket]
  BY <1>1 DEF TypeOK
<1>3. TypeOK'
  BY <1>1, <1>2, HistoryTypes DEF TypeOK
<1>4. Alive' /\ Cursor' /\ OnceAlone' /\ LocksKnown' /\ OwnLock'
  BY <1>1 DEF Inv, Alive, Cursor, OnceAlone, LocksKnown, Known, OwnLock, OnceRecovers, Up
<1>5. Calm'
  BY <1>1 DEF Inv, Calm, Record
<1>6. InRunning'
  BY <1>1 DEF Inv, InRunning, Record
<1>7. Spared'
  BY <1>1 DEF Inv, Spared, Record, StartRecovers, Guarded
<1>8. ASSUME NEW u \in Task, Unowned(u)' PROVE Unowned(u)
  <2>1. bucket'[u] = "running" /\ u \notin left' /\ u # ex.task
    BY <1>1, <1>8 DEF Unowned
  <2>2. u \notin left /\ ~GivenUp(u)
    BY <1>1, <2>1 DEF Record
  <2>3. bucket[u] = "running"
    BY <1>1, <1>2, <2>1, <2>2 DEF GivenUp
  <2> QED
    BY <2>1, <2>2, <2>3 DEF Unowned
<1>9. Shelved'
  BY <1>1, <1>8 DEF Inv, Shelved, Pending, Up
<1> QED
  BY <1>3, <1>4, <1>5, <1>6, <1>7, <1>9 DEF Inv

LEMMA HandsInv ==
  ASSUME Inv, NEW t \in Task,
         Retry(t) \/ Unfinish(t) \/ BeginAlone(t) \/ Settle(t) \/ Remove(t)
  PROVE  Inv'
  BY ByHandInv DEF Retry, Unfinish, BeginAlone, Settle, Remove, Bucket

\* A claude that ends, by itself or cancelled.
LEMMA ClaudeInv ==
  ASSUME Inv, NEW t \in Task, Cancel(t) \/ ClaudeExits(t)
  PROVE  Inv'
<1>1. /\ TypeOK /\ Record /\ claude' \subseteq Task
      /\ UNCHANGED <<bucket, claudeMd, backup, lock, pid, crashes, raised, ex, rec,
                     intact>>
  BY DEF Inv, Cancel, ClaudeExits, Project, Server, TypeOK
<1>2. TypeOK'
  BY <1>1, HistoryTypes DEF TypeOK
<1>3. \A u \in Task : u \in left' <=> u \in left
  BY <1>1, NobodyGivesUp DEF Inv
<1>4. left' = left
  BY <1>2, <1>3 DEF Inv, TypeOK
<1>5. Alive' /\ Cursor' /\ OnceAlone' /\ LocksKnown' /\ OwnLock'
  BY <1>1, <1>4 DEF Inv, Alive, Cursor, OnceAlone, LocksKnown, Known, OwnLock,
     OnceRecovers, Up
<1>6. Calm' /\ InRunning' /\ Spared'
  BY <1>1, <1>4 DEF Inv, Calm, InRunning, Spared, Record, StartRecovers, Guarded
<1>7. Shelved'
  BY <1>1, <1>4 DEF Inv, Shelved, Unowned, Pending, Up
<1> QED
  BY <1>2, <1>5, <1>6, <1>7 DEF Inv

LEMMA CrashInv ==
  ASSUME Inv, Crash
  PROVE  Inv'
<1>1. /\ TypeOK /\ Record /\ ex' = Idle /\ rec' = [r \in Recoverer |-> NoRecovery]
      /\ claude' = {} /\ pid' = NULL /\ crashes' \in Nat /\ intact' \in BOOLEAN
      /\ UNCHANGED <<bucket, claudeMd, backup, lock, raised>> /\ pid # NULL
  BY DEF Inv, TypeOK, Crash, Project, Up
<1>2. TypeOK'
  BY <1>1, HistoryTypes, IdleForm DEF TypeOK
<1>3. left' = {}
  BY <1>1 DEF Record
<1>4. /\ Alive' /\ Cursor' /\ OnceAlone' /\ OwnLock' /\ Calm' /\ InRunning'
      /\ Spared' /\ Shelved'
  BY <1>1, <1>3, IdleForm, Recoverers
     DEF Alive, Cursor, OnceAlone, OwnLock, Calm, InRunning, Spared, Shelved, AtLock,
         OnceRecovers, Record, Up
<1>5. LocksKnown'
  BY <1>1, IdleForm, LockForms DEF Inv, LocksKnown, Known
<1> QED
  BY <1>2, <1>4, <1>5 DEF Inv

LEMMA StartInv ==
  ASSUME Inv, NEW p \in Pid, Start(p)
  PROVE  Inv'
<1> DEFINE s == [NoRecovery EXCEPT !.pc = "scan"]
<1>1. /\ s \in RecRecord /\ s.pc = "scan" /\ s.cur = NULL
      /\ \A t \in Task : s.read[t] = NoLock
  BY AtForm DEF RecPosition
<1>2. /\ TypeOK /\ Record /\ rec' = [rec EXCEPT !["start"] = s] /\ pid' = p /\ ~Up
      /\ UNCHANGED <<bucket, claudeMd, backup, lock, crashes, raised, claude, ex, intact>>
      /\ p # NULL
  BY ExecutionAssumption DEF Inv, TypeOK, Start, Project
<1> HIDE DEF s
<1>3. rec'["start"] = s /\ rec'["once"] = rec["once"] /\ rec' \in [Recoverer -> RecRecord]
  BY <1>1, <1>2, Recoverers DEF TypeOK
<1>4. TypeOK'
  BY <1>2, <1>3, HistoryTypes DEF TypeOK
<1>5. left' = {} /\ ex.pc = "idle"
  BY <1>2 DEF Record, Inv, Alive, Up
<1>6. /\ Alive' /\ Cursor' /\ OnceAlone' /\ OwnLock' /\ Calm' /\ InRunning' /\ Spared'
  BY <1>1, <1>2, <1>3, <1>5, Recoverers
     DEF Inv, Alive, Cursor, OnceAlone, OwnLock, Calm, InRunning, Spared, AtLock,
         OnceRecovers, Record, Up
<1>7. LocksKnown'
  BY <1>1, <1>2, <1>3, LockForms, Recoverers DEF Inv, LocksKnown, Known
<1>8. Shelved'
  BY <1>1, <1>3 DEF Shelved, Pending, Visiting, AtLock
<1> QED
  BY <1>4, <1>6, <1>7, <1>8 DEF Inv

-----------------------------------------------------------------------------
(* Recovery *)

\* The step r makes is one of its code, or of a failure of it.
RecoveryStep(r) ==
  /\ Up /\ Record
  /\ r = "once" => ex.pc = "idle" /\ rec'[r].pc \notin {"check", "failed"}
  /\ UNCHANGED <<pid, crashes, claude, ex>>
  /\ rec' \in [Recoverer -> RecRecord]
  /\ \A q \in Recoverer : q # r => rec'[q] = rec[q]
  /\ rec'[r].cur # NULL <=> rec'[r].pc \in AtLock
  /\ \A t \in Task : rec'[r].read[t] \in {rec[r].read[t], lock[t], NoLock}
  /\ lock' \in [Task -> LockFile]
  /\ \A t \in Task : lock'[t] \in {lock[t], NoLock}
  /\ bucket' \in [Task -> Bucket]
  /\ \A t \in Task : \/ bucket'[t] = bucket[t]
                     \/ /\ bucket'[t] = "unfinished" /\ rec' # rec
                        /\ t = ex.task => exposed
  /\ claudeMd' \in Text /\ backup' \in [Pid -> Text]
  /\ raised' \in Nat /\ intact' \in BOOLEAN

\* What such steps never do: leave a task that nobody owns without saying so.
LEMMA StaysOwned ==
  ASSUME Inv, NEW r \in Recoverer, RecoveryStep(r), NEW t \in Task, Unowned(t)'
  PROVE  /\ Unowned(t) /\ ~GivenUp(t) /\ bucket'[t] = "running"
         /\ Pending(t, rec["start"])
<1>1. bucket'[t] = "running" /\ t \notin left' /\ t # ex.task
  BY DEF Unowned, RecoveryStep
<1>2. bucket[t] = "running"
  BY <1>1 DEF RecoveryStep
<1>3. t \notin left /\ ~GivenUp(t)
  BY <1>1 DEF Record, RecoveryStep
<1> QED
  BY <1>1, <1>2, <1>3 DEF Unowned, Inv, Shelved, RecoveryStep

\* A run that stays out of a start's reach has its lock.
LEMMA StaysGuarded ==
  ASSUME Inv, NEW r \in Recoverer, RecoveryStep(r),
         ex'.pc # "idle", ~exposed', StartRecovers'
  PROVE  Guarded' /\ ~exposed /\ ex.pc # "idle" /\ (StartRecovers => Guarded)
<1>1. ex.pc # "idle" /\ ~exposed /\ Guarded'
  BY DEF Record, RecoveryStep
<1> QED
  BY <1>1 DEF Inv, Spared

\* So a start's recovery has to keep Shelved and Spared only.
LEMMA RecoveryFrame ==
  ASSUME Inv, NEW r \in Recoverer, RecoveryStep(r),
         r = "start" => Shelved' /\ Spared'
  PROVE  Inv'
<1>1. TypeOK'
  BY HistoryTypes DEF Inv, TypeOK, RecoveryStep
<1>2. Alive' /\ Cursor' /\ OnceAlone'
  BY Recoverers DEF Inv, Alive, Cursor, OnceAlone, OnceRecovers, Up, RecoveryStep
<1>3. LocksKnown'
  <2>1. \A l : l = NoLock => Known(l)
    BY LockForms DEF Known
  <2>2. \A t \in Task : Known(lock'[t])
    BY <2>1 DEF RecoveryStep, Inv, LocksKnown
  <2>3. \A q \in Recoverer, t \in Task : Known(rec'[q].read[t])
    BY <2>1 DEF RecoveryStep, Inv, LocksKnown
  <2>4. Known(ex'.data)
    BY DEF RecoveryStep, Inv, LocksKnown
  <2> QED
    BY <2>2, <2>3, <2>4 DEF LocksKnown, Known
<1>4. OwnLock'
  BY LockForms DEF Inv, OwnLock, RecoveryStep, TypeOK, ExRecord
<1>5. Calm' /\ InRunning'
  BY DEF Inv, Calm, InRunning, Record, RecoveryStep, TypeOK, ExRecord
<1>6. CASE r = "start"
  BY <1>1, <1>2, <1>3, <1>4, <1>5, <1>6 DEF Inv
<1>7. CASE r = "once"
  <2>1. rec'["start"] = rec["start"] /\ ex.pc = "idle" /\ ex' = ex /\ Up'
    BY <1>7, Recoverers DEF RecoveryStep, Up
  <2>2. Spared'
    BY <2>1 DEF Spared
  <2>3. \A t \in Task : lock'[t].there => lock[t].there
    BY LockForms DEF RecoveryStep
  <2>4. Shelved'
    BY <2>1, <2>3, StaysOwned DEF Shelved, Pending
  <2> QED
    BY <1>1, <1>2, <1>3, <1>4, <1>5, <2>2, <2>4 DEF Inv
<1> QED
  BY <1>6, <1>7, Recoverers

\* LiveRunSpared, where the invariant holds.
LEMMA RecoverySpares ==
  ASSUME Inv, NEW r \in Recoverer, RecoveryOf(r), ex.pc # "idle", ~exposed
  PROVE  bucket'[ex.task] = bucket[ex.task] /\ lock'[ex.task] = lock[ex.task]
<1>1. ex.task \in Task /\ rec[r].cur \in Task \cup {NULL}
  BY DEF Inv, TypeOK, ExRecord, RecRecord
<1>2. ~OnceRecovers
  BY DEF Inv, OnceAlone
<1>3. r = "start"
  BY <1>2, Recoverers DEF RecoveryOf, OnceRecovers, Scan, NextStale, RecoverUnlink,
     RecoverRestore, RecoverMove, RecoverRelease, RecoverOrphans
<1>4. CASE UNCHANGED <<bucket, lock>>
  BY <1>4
<1>5. CASE RecoverMove(r) \/ RecoverRelease(r)
  <2>1. rec["start"].pc \in {"move", "release"}
    BY <1>3, <1>5 DEF RecoverMove, RecoverRelease
  <2>2. rec["start"].cur # ex.task
    BY <2>1 DEF Inv, Spared, StartRecovers, Visiting, AtLock
  <2> QED
    BY <1>1, <1>3, <1>5, <2>2 DEF RecoverMove, RecoverRelease, Move, Inv, TypeOK
<1>6. CASE RecoverOrphans(r)
  <2>1. Guarded
    BY <1>3, <1>6 DEF RecoverOrphans, Inv, Spared, StartRecovers
  <2>2. ~Orphan(ex.task)
    BY <2>1 DEF Guarded, Orphan
  <2> QED
    BY <1>1, <1>6, <2>2 DEF RecoverOrphans, Move, Inv, TypeOK
<1> QED
  BY <1>4, <1>5, <1>6 DEF RecoveryOf, Scan, NextStale, RecoverUnlink,
     RecoverRestore, EnterLoop

\* The steps of recovery that touch neither a task's file nor a lock.
LEMMA ScanInv ==
  ASSUME Inv, NEW r \in Recoverer, Up, Scan(r)
  PROVE  RecoveryStep(r) /\ Inv'
<1>1. PICK alien \in SUBSET (IF ReusePid THEN Pid ELSE {}) :
        LET stale == {t \in Task : IsStale(lock[t], alien)}
        IN /\ rec[r].pc = "scan"
           /\ Put(r, [NoRecovery EXCEPT
                    !.pc = "next", !.stale = stale, !.seen = stale,
                    !.read = [t \in Task |-> IF t \in stale THEN lock[t] ELSE NoLock]])
           /\ intact' = (intact /\ \A t \in Task :
                                     lock[t].there => t \in stale \/ t = ex.task)
           /\ UNCHANGED <<bucket, Project, lock, Server, raised, claude, ex>>
           /\ Record
  BY DEF Scan
<1> DEFINE stale == {t \in Task : IsStale(lock[t], alien)}
           s == [NoRecovery EXCEPT
                    !.pc = "next", !.stale = stale, !.seen = stale,
                    !.read = [t \in Task |-> IF t \in stale THEN lock[t] ELSE NoLock]]
<1>2. /\ s \in RecRecord /\ s.pc = "next" /\ s.cur = NULL /\ s.stale = stale
      /\ s.seen = stale
      /\ \A t \in Task : s.read[t] = IF t \in stale THEN lock[t] ELSE NoLock
  <2>1. [t \in Task |-> IF t \in stale THEN lock[t] ELSE NoLock] \in [Task -> LockFile]
    BY LockForms DEF Inv, TypeOK
  <2> QED
    BY <2>1 DEF NoRecovery, RecRecord, RecPosition
<1>3. \A t \in Task : /\ t \in stale => lock[t].there
                      /\ lock[t].there /\ lock[t].torn => t \in stale
                      /\ lock[t].there /\ lock[t].pid = pid /\ ~lock[t].torn => t \notin stale
  BY DEF IsStale
<1>4. /\ rec[r].pc = "scan" /\ rec' = [rec EXCEPT ![r] = s] /\ TypeOK /\ Record
      /\ UNCHANGED <<bucket, claudeMd, backup, lock, pid, crashes, raised, claude, ex>>
      /\ intact' \in BOOLEAN
  BY <1>1 DEF Put, Project, Server, Inv, TypeOK
<1> HIDE DEF s, stale
<1>5. /\ rec'[r] = s /\ \A q \in Recoverer : q # r => rec'[q] = rec[q]
      /\ rec' \in [Recoverer -> RecRecord]
  BY <1>2, <1>4 DEF TypeOK
<1>6. RecoveryStep(r)
  BY <1>2, <1>4, <1>5
     DEF RecoveryStep, TypeOK, Inv, OnceAlone, OnceRecovers, AtLock
<1>7. ASSUME r = "start" PROVE Shelved' /\ Spared'
  <2>1. ASSUME NEW t \in Task, Unowned(t)' PROVE Pending(t, rec["start"])'
    <3>1. ~GivenUp(t) /\ t # ex.task
      BY <1>6, <2>1, StaysOwned DEF Unowned
    <3>2. lock[t].there /\ ~lock[t].torn => t \in stale
      BY <1>2, <1>4, <1>5, <3>1 DEF GivenUp
    <3>3. t \in stale \/ ~lock[t].there
      BY <1>3, <3>2
    <3> QED
      BY <1>2, <1>4, <1>5, <1>7, <3>3 DEF Pending, Visiting, AtLock
  <2>2. Shelved'
    BY <2>1 DEF Shelved
  <2>3. ASSUME ex'.pc # "idle", ~exposed', StartRecovers'
        PROVE  Guarded' /\ ex'.task \notin stale /\ ex'.task # NULL /\ ex'.task \in Task
    <3>1. Guarded' /\ ex.task \in Task
      BY <1>4, <1>6, <2>3, StaysGuarded DEF TypeOK, ExRecord
    <3> QED
      BY <1>3, <1>4, <3>1, ExecutionAssumption DEF Guarded
  <2>4. Spared'
    BY <1>2, <1>5, <1>7, <2>3 DEF Spared
  <2> QED
    BY <2>2, <2>4
<1> QED
  BY <1>6, <1>7, RecoveryFrame

LEMMA NextStaleInv ==
  ASSUME Inv, NEW r \in Recoverer, Up, NextStale(r)
  PROVE  RecoveryStep(r) /\ Inv'
<1>1. /\ rec[r].pc = "next" /\ rec[r] \in RecRecord /\ TypeOK /\ Record
      /\ UNCHANGED <<bucket, claudeMd, backup, lock, pid, crashes, raised, claude, ex,
                     intact>>
      /\ rec[r].cur = NULL
  BY DEF NextStale, Project, Server, Inv, TypeOK, Cursor, AtLock
<1>2. ASSUME NEW t \in rec[r].stale,
             Put(r, [rec[r] EXCEPT !.stale = @ \ {t}, !.cur = t, !.pc =
                        IF rec[r].read[t].written THEN "unlink" ELSE "move"])
      PROVE  RecoveryStep(r) /\ Inv'
  <2> DEFINE s == [rec[r] EXCEPT !.stale = @ \ {t}, !.cur = t, !.pc =
                     IF rec[r].read[t].written THEN "unlink" ELSE "move"]
  <2>1. /\ s \in RecRecord /\ s.pc \in {"unlink", "move"} /\ s.cur = t /\ t \in Task
        /\ s.stale = rec[r].stale \ {t} /\ s.seen = rec[r].seen /\ s.read = rec[r].read
        /\ t # NULL
    BY <1>1, <1>2, ExecutionAssumption DEF RecRecord, RecPosition
  <2>2. rec' = [rec EXCEPT ![r] = s]
    BY <1>2 DEF Put
  <2> HIDE DEF s
  <2>3. /\ rec'[r] = s /\ \A q \in Recoverer : q # r => rec'[q] = rec[q]
        /\ rec' \in [Recoverer -> RecRecord]
    BY <1>1, <2>1, <2>2 DEF TypeOK
  <2>4. RecoveryStep(r)
    BY <1>1, <2>1, <2>3 DEF RecoveryStep, TypeOK, Inv, OnceAlone, OnceRecovers, AtLock
  <2>5. ASSUME r = "start" PROVE Shelved' /\ Spared'
    <3>1. ASSUME NEW u \in Task, Unowned(u)' PROVE Pending(u, rec["start"])'
      <4>1. Pending(u, rec["start"])
        BY <2>4, <3>1, StaysOwned
      <4> QED
        BY <1>1, <2>1, <2>3, <2>5, <4>1, ExecutionAssumption
           DEF Pending, Visiting, AtLock
    <3>2. Shelved'
      BY <3>1 DEF Shelved
    <3>3. Spared'
      BY <1>1, <2>1, <2>3, <2>4, <2>5, StaysGuarded
         DEF Inv, Spared, StartRecovers, Visiting, AtLock
    <3> QED
      BY <3>2, <3>3
  <2> QED
    BY <2>4, <2>5, RecoveryFrame
<1>3. CASE rec[r].stale = {} /\ ListOrphans(r)
  <2> DEFINE os == {t \in Task : bucket[t] = "running"} \ rec[r].seen
             s == [NoRecovery EXCEPT !.pc = "orphans", !.stale = os]
  <2>1. /\ s \in RecRecord /\ s.pc = "orphans" /\ s.cur = NULL /\ s.stale = os
        /\ \A t \in Task : s.read[t] = NoLock
    BY IdleForm DEF NoRecovery, RecRecord, RecPosition
  <2>2. rec' = [rec EXCEPT ![r] = s]
    BY <1>3 DEF ListOrphans, Put
  <2> HIDE DEF s
  <2>3. /\ rec'[r] = s /\ \A q \in Recoverer : q # r => rec'[q] = rec[q]
        /\ rec' \in [Recoverer -> RecRecord]
    BY <1>1, <2>1, <2>2 DEF TypeOK
  <2>4. RecoveryStep(r)
    BY <1>1, <2>1, <2>3 DEF RecoveryStep, TypeOK, Inv, OnceAlone, OnceRecovers, AtLock
  <2>5. ASSUME r = "start" PROVE Shelved' /\ Spared'
    <3>1. ASSUME NEW u \in Task, Unowned(u)' PROVE Pending(u, rec["start"])'
      <4>1. Pending(u, rec["start"]) /\ Unowned(u)
        BY <2>4, <3>1, StaysOwned
      <4>2. u \notin rec["start"].seen /\ ~lock[u].there /\ u # NULL
        BY <1>1, <1>3, <2>5, <4>1, ExecutionAssumption DEF Pending, Visiting
      <4> QED
        BY <1>1, <2>1, <2>3, <2>5, <4>1, <4>2 DEF Pending, Visiting, AtLock, Unowned
    <3>2. Shelved'
      BY <3>1 DEF Shelved
    <3>3. Spared'
      BY <1>1, <2>1, <2>3, <2>4, <2>5, StaysGuarded DEF Spared, Visiting, AtLock
    <3> QED
      BY <3>2, <3>3
  <2> QED
    BY <2>4, <2>5, RecoveryFrame
<1> QED
  BY <1>2, <1>3 DEF NextStale

\* The steps at a stale lock before its task is moved.
LEMMA CleanUpInv ==
  ASSUME Inv, NEW r \in Recoverer, Up, RecoverUnlink(r) \/ RecoverRestore(r)
  PROVE  RecoveryStep(r) /\ Inv'
<1>1. PICK l \in {"restore", "move"} :
        rec[r].pc \in {"unlink", "restore"} /\ rec' = [rec EXCEPT ![r] = [rec[r] EXCEPT !.pc = l]]
  BY DEF RecoverUnlink, RecoverRestore, Put
<1>2. /\ rec[r] \in RecRecord /\ TypeOK /\ Record
      /\ UNCHANGED <<bucket, lock, pid, crashes, claude, ex>>
      /\ raised' \in Nat /\ intact' \in BOOLEAN
  BY RaisedType DEF RecoverUnlink, RecoverRestore, Project, Server, Inv, TypeOK
<1>3. claudeMd' \in Text /\ backup' \in [Pid -> Text]
  <2>1. CASE RecoverUnlink(r)
    BY <1>2, <2>1 DEF RecoverUnlink, TypeOK, Text
  <2>2. CASE RecoverRestore(r)
    <3> DEFINE m == rec[r].read[rec[r].cur]
    <3>1. m.backedUp => m.pid \in Pid
      <4>1. rec[r].cur \in Task
        BY <1>1, <1>2 DEF Inv, Cursor, AtLock, RecRecord
      <4> QED
        BY <4>1 DEF Inv, LocksKnown, Known
    <3> QED
      BY <1>2, <2>2, <3>1 DEF RecoverRestore, TypeOK, Text
  <2> QED
    BY <2>1, <2>2
<1> DEFINE s == [rec[r] EXCEPT !.pc = l]
<1>4. /\ s \in RecRecord /\ s.pc = l /\ s.cur = rec[r].cur
      /\ s.stale = rec[r].stale /\ s.seen = rec[r].seen /\ s.read = rec[r].read
  BY <1>1, <1>2 DEF RecRecord, RecPosition
<1>5. rec' = [rec EXCEPT ![r] = s]
  BY <1>1
<1> HIDE DEF s
<1>6. /\ rec'[r] = s /\ \A q \in Recoverer : q # r => rec'[q] = rec[q]
      /\ rec' \in [Recoverer -> RecRecord]
  BY <1>2, <1>4, <1>5 DEF TypeOK
<1>7. RecoveryStep(r)
  BY <1>1, <1>2, <1>3, <1>4, <1>6
     DEF RecoveryStep, TypeOK, Inv, OnceAlone, OnceRecovers, AtLock, Cursor
<1>8. ASSUME r = "start" PROVE Shelved' /\ Spared'
  <2>1. ASSUME NEW u \in Task, Unowned(u)' PROVE Pending(u, rec["start"])'
    <3>1. Pending(u, rec["start"])
      BY <1>7, <2>1, StaysOwned
    <3> QED
      BY <1>1, <1>2, <1>4, <1>6, <1>8, <3>1 DEF Pending, Visiting, AtLock
  <2>2. Shelved'
    BY <2>1 DEF Shelved
  <2>3. Spared'
    BY <1>1, <1>2, <1>4, <1>6, <1>7, <1>8, StaysGuarded
       DEF Inv, Spared, StartRecovers, Visiting, AtLock
  <2> QED
    BY <2>2, <2>3
<1> QED
  BY <1>7, <1>8, RecoveryFrame

\* The task's file goes, or is given up.
LEMMA RecoverMoveInv ==
  ASSUME Inv, NEW r \in Recoverer, Up, RecoverMove(r)
  PROVE  RecoveryStep(r) /\ Inv'
<1> DEFINE s == [rec[r] EXCEPT !.pc = "release"]
           c == rec[r].cur
<1>1. /\ rec[r].pc = "move" /\ rec[r] \in RecRecord /\ TypeOK /\ Record /\ c \in Task
      /\ rec' = [rec EXCEPT ![r] = s]
      /\ UNCHANGED <<claudeMd, backup, lock, pid, crashes, claude, ex, intact>>
      /\ raised' \in Nat
  BY RaisedType
     DEF RecoverMove, Put, Project, Server, Inv, TypeOK, Cursor, AtLock, RecRecord
<1>2. /\ s \in RecRecord /\ s.pc = "release" /\ s.cur = c /\ s.stale = rec[r].stale
      /\ s.seen = rec[r].seen /\ s.read = rec[r].read
  BY <1>1 DEF RecRecord, RecPosition
<1> HIDE DEF s
<1>3. /\ rec'[r] = s /\ \A q \in Recoverer : q # r => rec'[q] = rec[q]
      /\ rec' \in [Recoverer -> RecRecord] /\ rec' # rec
  BY <1>1, <1>2 DEF TypeOK
<1>4. \/ /\ bucket[c] = "running" /\ bucket' = [bucket EXCEPT ![c] = "unfinished"]
      \/ bucket' = bucket
  BY DEF RecoverMove, Move
<1>5. c = ex.task /\ bucket'[c] # bucket[c] => exposed
  <2>1. RecoveryOf(r)
    BY DEF RecoveryOf
  <2> QED
    BY <1>1, <2>1, RecoverySpares, ExecutionAssumption DEF TypeOK
<1>6. /\ bucket' \in [Task -> Bucket]
      /\ \A t \in Task : bucket'[t] = bucket[t]
                         \/ (bucket'[t] = "unfinished" /\ t = c /\ bucket'[c] # bucket[c])
  BY <1>1, <1>4 DEF TypeOK, Bucket
<1>7. RecoveryStep(r)
  BY <1>1, <1>2, <1>3, <1>5, <1>6, ExecutionAssumption
     DEF RecoveryStep, TypeOK, Inv, OnceAlone, OnceRecovers, AtLock
<1>8. ASSUME r = "start" PROVE Shelved' /\ Spared'
  <2>1. ASSUME NEW u \in Task, Unowned(u)' PROVE Pending(u, rec["start"])'
    <3>1. Pending(u, rec["start"]) /\ ~GivenUp(u) /\ bucket'[u] = "running"
      BY <1>7, <2>1, StaysOwned
    <3>2. u # c
      BY <1>1, <1>2, <1>3, <3>1 DEF GivenUp
    <3> QED
      BY <1>1, <1>2, <1>3, <1>8, <3>1, <3>2 DEF Pending, Visiting, AtLock
  <2>2. Shelved'
    BY <2>1 DEF Shelved
  <2>3. Spared'
    BY <1>1, <1>2, <1>3, <1>7, <1>8, StaysGuarded
       DEF Inv, Spared, StartRecovers, Visiting, AtLock
  <2> QED
    BY <2>2, <2>3
<1> QED
  BY <1>7, <1>8, RecoveryFrame

\* And its lock.
LEMMA RecoverReleaseInv ==
  ASSUME Inv, NEW r \in Recoverer, Up, RecoverRelease(r)
  PROVE  RecoveryStep(r) /\ Inv'
<1> DEFINE c == rec[r].cur
           s == [rec[r] EXCEPT !.pc = "next", !.cur = NULL,
                               !.read = [@ EXCEPT ![rec[r].cur] = NoLock]]
<1>1. /\ rec[r].pc = "release" /\ rec[r] \in RecRecord /\ TypeOK /\ Record /\ c \in Task
      /\ rec' = [rec EXCEPT ![r] = s] /\ lock' = [lock EXCEPT ![c] = NoLock]
      /\ UNCHANGED <<bucket, claudeMd, backup, pid, crashes, raised, claude, ex, intact>>
  BY DEF RecoverRelease, Put, Project, Server, Inv, TypeOK, Cursor, AtLock, RecRecord
<1>2. /\ s \in RecRecord /\ s.pc = "next" /\ s.cur = NULL /\ s.stale = rec[r].stale
      /\ s.seen = rec[r].seen
      /\ \A t \in Task : s.read[t] \in {rec[r].read[t], NoLock}
  BY <1>1, LockForms DEF RecRecord, RecPosition
<1> HIDE DEF s
<1>3. /\ rec'[r] = s /\ \A q \in Recoverer : q # r => rec'[q] = rec[q]
      /\ rec' \in [Recoverer -> RecRecord]
  BY <1>1, <1>2 DEF TypeOK
<1>4. /\ lock' \in [Task -> LockFile] /\ lock'[c] = NoLock
      /\ \A t \in Task : t # c => lock'[t] = lock[t]
  BY <1>1, LockForms DEF TypeOK
<1>5. RecoveryStep(r)
  BY <1>1, <1>2, <1>3, <1>4
     DEF RecoveryStep, TypeOK, Inv, OnceAlone, OnceRecovers, AtLock
<1>6. ASSUME r = "start" PROVE Shelved' /\ Spared'
  <2>1. ASSUME NEW u \in Task, Unowned(u)' PROVE Pending(u, rec["start"])'
    <3>1. Pending(u, rec["start"])
      BY <1>5, <2>1, StaysOwned
    <3>2. lock'[u].there => lock[u].there
      BY <1>4, LockForms
    <3> QED
      BY <1>1, <1>2, <1>3, <1>6, <3>1, <3>2 DEF Pending, Visiting, AtLock
  <2>2. Shelved'
    BY <2>1 DEF Shelved
  <2>3. Spared'
    BY <1>1, <1>2, <1>3, <1>5, <1>6, StaysGuarded, ExecutionAssumption
       DEF Inv, Spared, StartRecovers, Visiting, AtLock, TypeOK
  <2> QED
    BY <2>2, <2>3
<1> QED
  BY <1>5, <1>6, RecoveryFrame

\* Orphans go likewise, and with the last of them a start's recovery is over.
LEMMA RecoverOrphansInv ==
  ASSUME Inv, NEW r \in Recoverer, Up, RecoverOrphans(r)
  PROVE  RecoveryStep(r) /\ Inv'
<1>1. /\ rec[r].pc = "orphans" /\ rec[r] \in RecRecord /\ TypeOK /\ Record
      /\ UNCHANGED <<claudeMd, backup, lock, pid, crashes, claude, ex, intact>>
      /\ raised' \in Nat /\ rec[r].cur = NULL
  BY RaisedType
     DEF RecoverOrphans, Project, Server, Inv, TypeOK, Cursor, AtLock
<1>2. ASSUME NEW t \in rec[r].stale, Put(r, [rec[r] EXCEPT !.stale = @ \ {t}]),
             \/ Orphan(t) /\ Move(t, "unfinished") /\ UNCHANGED raised
             \/ ~Orphan(t) /\ UNCHANGED <<bucket, raised>>
             \/ Raise /\ UNCHANGED bucket
      PROVE  RecoveryStep(r) /\ Inv'
  <2> DEFINE s == [rec[r] EXCEPT !.stale = @ \ {t}]
  <2>1. /\ s \in RecRecord /\ s.pc = "orphans" /\ s.cur = NULL /\ t \in Task
        /\ s.stale = rec[r].stale \ {t} /\ s.read = rec[r].read
    BY <1>1, <1>2 DEF RecRecord
  <2>2. rec' = [rec EXCEPT ![r] = s]
    BY <1>2 DEF Put
  <2> HIDE DEF s
  <2>3. /\ rec'[r] = s /\ \A q \in Recoverer : q # r => rec'[q] = rec[q]
        /\ rec' \in [Recoverer -> RecRecord] /\ rec' # rec
    BY <1>1, <2>1, <2>2 DEF TypeOK
  <2>4. \/ Orphan(t) /\ bucket' = [bucket EXCEPT ![t] = "unfinished"]
        \/ bucket' = bucket
    BY <1>2 DEF Move
  <2>5. t = ex.task /\ bucket'[t] # bucket[t] => exposed
    <3>1. RecoverOrphans(r)
      OBVIOUS
    <3>2. RecoveryOf(r)
      BY <3>1 DEF RecoveryOf
    <3> QED
      BY <1>1, <2>1, <3>2, RecoverySpares, ExecutionAssumption DEF TypeOK
  <2>6. /\ bucket' \in [Task -> Bucket]
        /\ \A u \in Task : bucket'[u] = bucket[u]
                           \/ (bucket'[u] = "unfinished" /\ u = t /\ bucket'[t] # bucket[t])
    BY <1>1, <2>1, <2>4 DEF TypeOK, Bucket
  <2>7. RecoveryStep(r)
    BY <1>1, <2>1, <2>3, <2>5, <2>6, ExecutionAssumption
       DEF RecoveryStep, TypeOK, Inv, OnceAlone, OnceRecovers, AtLock
  <2>8. ASSUME r = "start" PROVE Shelved' /\ Spared'
    <3>1. ASSUME NEW u \in Task, Unowned(u)' PROVE Pending(u, rec["start"])'
      <4>1. /\ Pending(u, rec["start"]) /\ Unowned(u) /\ ~GivenUp(u)
            /\ bucket'[u] = "running"
        BY <2>7, <3>1, StaysOwned
      <4>2. u \in rec[r].stale /\ ~lock[u].there /\ Orphan(u)
        BY <1>1, <2>8, <4>1 DEF Pending, Unowned, Orphan
      <4>3. u # t
        BY <1>1, <2>1, <2>3, <4>1, <4>2 DEF GivenUp
      <4> QED
        BY <1>1, <2>1, <2>3, <2>8, <4>2, <4>3 DEF Pending, Visiting, AtLock
    <3>2. Shelved'
      BY <3>1 DEF Shelved
    <3>3. Spared'
      BY <1>1, <2>1, <2>3, <2>7, <2>8, StaysGuarded DEF Spared, Visiting, AtLock
    <3> QED
      BY <3>2, <3>3
  <2> QED
    BY <2>7, <2>8, RecoveryFrame
<1>3. CASE /\ rec[r].stale = {} /\ UNCHANGED <<bucket, raised>>
           /\ Put(r, [NoRecovery EXCEPT !.pc = IF r = "start" THEN "check" ELSE "done"])
  <2> DEFINE s == [NoRecovery EXCEPT !.pc = IF r = "start" THEN "check" ELSE "done"]
  <2>1. /\ s \in RecRecord /\ s.pc = IF r = "start" THEN "check" ELSE "done"
        /\ s.cur = NULL /\ \A t \in Task : s.read[t] = NoLock
    BY AtForm DEF RecPosition
  <2>2. rec' = [rec EXCEPT ![r] = s]
    BY <1>3 DEF Put
  <2> HIDE DEF s
  <2>3. /\ rec'[r] = s /\ \A q \in Recoverer : q # r => rec'[q] = rec[q]
        /\ rec' \in [Recoverer -> RecRecord]
    BY <1>1, <2>1, <2>2 DEF TypeOK
  <2>4. RecoveryStep(r)
    BY <1>1, <1>3, <2>1, <2>3
       DEF RecoveryStep, TypeOK, Inv, OnceAlone, OnceRecovers, AtLock
  <2>5. ASSUME r = "start" PROVE Shelved' /\ Spared'
    <3>1. \A u \in Task : ~Unowned(u)'
      BY <1>1, <1>3, <2>4, <2>5, StaysOwned DEF Pending
    <3>2. Shelved' /\ Spared'
      BY <2>1, <2>3, <2>5, <3>1 DEF Shelved, Spared, StartRecovers
    <3> QED
      BY <3>2
  <2> QED
    BY <2>4, <2>5, RecoveryFrame
<1> QED
  BY <1>2, <1>3 DEF RecoverOrphans

\* The steps that begin a recovery anew or put an end to it.
LEMMA JumpInv ==
  ASSUME Inv, NEW r \in Recoverer, NEW l \in RecPosition, Record, Up,
         rec' = [rec EXCEPT ![r] = [NoRecovery EXCEPT !.pc = l]],
         l \notin Visiting \cup {"orphans"},
         UNCHANGED <<bucket, claudeMd, backup, lock, pid, crashes, claude, ex>>,
         raised' \in Nat, intact' \in BOOLEAN,
         r = "once" => ex.pc = "idle" /\ l \notin {"check", "failed"},
         r = "start" /\ l \in {"check", "done"} => ~StartRecovers
  PROVE  RecoveryStep(r) /\ Inv'
<1> DEFINE s == [NoRecovery EXCEPT !.pc = l]
<1>1. s \in RecRecord /\ s.pc = l /\ s.cur = NULL /\ \A t \in Task : s.read[t] = NoLock
  BY AtForm
<1>2. rec' = [rec EXCEPT ![r] = s]
  OBVIOUS
<1> HIDE DEF s
<1>3. /\ rec'[r] = s /\ \A q \in Recoverer : q # r => rec'[q] = rec[q]
      /\ rec' \in [Recoverer -> RecRecord] /\ TypeOK
  BY <1>1, <1>2 DEF Inv, TypeOK
<1>4. RecoveryStep(r)
  BY <1>1, <1>3 DEF RecoveryStep, TypeOK, AtLock, Visiting
<1>5. ASSUME r = "start" PROVE Shelved' /\ Spared'
  <2>1. ASSUME NEW u \in Task, Unowned(u)' PROVE Pending(u, rec["start"])'
    <3>1. Pending(u, rec["start"])
      BY <1>4, <2>1, StaysOwned
    <3> QED
      BY <1>1, <1>3, <1>5, <3>1 DEF Pending, StartRecovers
  <2>2. Shelved'
    BY <2>1 DEF Shelved
  <2>3. Spared'
    BY <1>1, <1>3, <1>4, <1>5, StaysGuarded DEF Spared
  <2> QED
    BY <2>2, <2>3
<1> QED
  BY <1>4, <1>5, RecoveryFrame

LEMMA JumpsInv ==
  ASSUME Inv, NEW r \in Recoverer,
         \/ Up /\ r = "start" /\ EnterLoop
         \/ RunnerFails(r)
         \/ r = "start" /\ RunnerAgain
         \/ r = "once" /\ RunOnce
  PROVE  RecoveryStep(r) /\ Inv'
<1> USE DEF Project, Server, Put
<1>1. intact' \in BOOLEAN /\ raised' \in Nat
  BY RaisedType DEF Inv, TypeOK, EnterLoop, RunnerFails, RunnerAgain, RunOnce
<1>2. CASE Up /\ r = "start" /\ EnterLoop
  <2>1. rec' = [rec EXCEPT ![r] = [NoRecovery EXCEPT !.pc = "done"]]
    BY <1>2 DEF EnterLoop, NoRecovery
  <2> QED
    BY <1>1, <1>2, <2>1, JumpInv
       DEF EnterLoop, RecPosition, Visiting, AtLock, StartRecovers
<1>3. CASE RunnerFails(r) /\ r = "start"
  <2>1. rec' = [rec EXCEPT ![r] = [NoRecovery EXCEPT !.pc = "failed"]]
    BY <1>3 DEF RunnerFails
  <2> QED
    BY <1>1, <1>3, <2>1, JumpInv DEF RunnerFails, RecPosition, Visiting, AtLock
<1>4. CASE RunnerFails(r) /\ r = "once"
  <2>1. rec' = [rec EXCEPT ![r] = [NoRecovery EXCEPT !.pc = "done"]]
    BY <1>4 DEF RunnerFails
  <2>2. ex.pc = "idle"
    BY <1>4 DEF RunnerFails, Inv, OnceAlone, OnceRecovers
  <2> QED
    BY <1>1, <1>4, <2>1, <2>2, JumpInv DEF RunnerFails, RecPosition, Visiting, AtLock
<1>5. CASE r = "start" /\ RunnerAgain
  BY <1>1, <1>5, JumpInv DEF RunnerAgain, RecPosition, Visiting, AtLock
<1>6. CASE r = "once" /\ RunOnce
  BY <1>1, <1>6, JumpInv DEF RunOnce, RecPosition, Visiting, AtLock
<1> QED
  BY <1>2, <1>3, <1>4, <1>5, <1>6, Recoverers

\* Every step of a recovery.
LEMMA RecoveryInv ==
  ASSUME Inv, NEW r \in Recoverer, RecoveryOf(r)
  PROVE  RecoveryStep(r) /\ Inv'
  BY ScanInv, NextStaleInv, CleanUpInv, RecoverMoveInv, RecoverReleaseInv,
     RecoverOrphansInv, JumpsInv DEF RecoveryOf

-----------------------------------------------------------------------------
(* What the invariant gives *)

LEMMA NextInv ==
  ASSUME Inv, [Next]_vars
  PROVE  Inv'
<1>1. CASE UNCHANGED vars
  <2> USE DEF vars
  <2>1. TypeOK' /\ Alive' /\ Cursor' /\ OnceAlone' /\ Calm' /\ InRunning'
    BY <1>1 DEF Inv, TypeOK, Alive, Cursor, OnceAlone, Calm, InRunning, OnceRecovers, Up
  <2>2. LocksKnown' /\ OwnLock'
    BY <1>1 DEF Inv, LocksKnown, Known, OwnLock
  <2>3. Shelved' /\ Spared'
    BY <1>1 DEF Inv, Shelved, Unowned, Pending, Spared, StartRecovers, Guarded, Up
  <2> QED
    BY <2>1, <2>2, <2>3 DEF Inv
<1>2. CASE Execution
  BY <1>2, ExecutionInv, FinalizeInv
<1>3. CASE \/ \E t \in Task : \/ Begin(t) \/ Cancel(t) \/ ClaudeExits(t)
                              \/ Retry(t) \/ Unfinish(t) \/ BeginAlone(t)
                              \/ Settle(t) \/ Remove(t)
  BY <1>3, BeginInv, ClaudeInv, HandsInv
<1>4. CASE \/ \E r \in Recoverer : RecoveryOf(r) \/ RunnerFails(r)
           \/ RunnerAgain \/ RunOnce
  BY <1>4, RecoveryInv, JumpsInv, Recoverers
<1>5. CASE Crash \/ \E p \in Pid : Start(p)
  BY <1>5, CrashInv, StartInv
<1> QED
  BY <1>1, <1>2, <1>3, <1>4, <1>5 DEF Next

LEMMA InvHolds == Spec => []Inv
<1>1. Init => Inv
  BY InitInv
<1>2. Inv /\ [Next]_vars => Inv'
  BY NextInv
<1> QED
  BY <1>1, <1>2, PTL DEF Spec

\* Every variable keeps its type: lock.py's files, the executor's and both
\* recoveries' positions and locals.
THEOREM TypeCorrect == Spec => []TypeOK
<1>1. Inv => TypeOK
  BY DEF Inv
<1> QED
  BY <1>1, InvHolds, PTL

\* However often the server dies or its runner fails, also while _recover_stale
\* runs, and whatever users do meanwhile: when a start's recovery is over, a
\* task in running/ has a worker or is one that this server has given up.
THEOREM NoneOrphaned == Spec => []NoOrphan
<1>1. Inv => NoOrphan
  BY DEF Inv, Shelved, Unowned, Pending, NoOrphan, StartRecovers
<1> QED
  BY <1>1, InvHolds, PTL

\* _recover_stale takes neither the file nor the lock of a run that has had its
\* whole lock file while a start's recovery was under way, whoever called it
\* and also when the runner of a live server is started once more.
THEOREM LiveRunsSpared == Spec => LiveRunSpared
<1>1. Inv /\ [Next]_vars =>
        [\A r \in Recoverer :
           RecoveryOf(r) /\ ex.pc # "idle" /\ ~exposed =>
             bucket'[ex.task] = bucket[ex.task] /\ lock'[ex.task] = lock[ex.task]]_vars
  BY RecoverySpares
<1> QED
  BY <1>1, InvHolds, PTL DEF Spec, LiveRunSpared

-----------------------------------------------------------------------------
(* The executor and recovery implement TaskLife *)

\* A step of TaskLife, or nothing to it.
InLife == Life!Next \/ UNCHANGED Life!lifeVars

\* The first states are first states of TaskLife.
LEMMA InitLife == Init => Life!Init
<1> SUFFICES ASSUME Init PROVE Life!Init
  OBVIOUS
<1>1. rec["start"].pc = "scan" /\ ex.task = NULL /\ pid # NULL
  BY AtForm, IdleForm, Recoverers, ExecutionAssumption DEF Init, RecPosition
<1> QED
  BY <1>1 DEF Init, Life!Init, Phase, StartRecovers, Up

\* Who has no worker has no run.
LEMMA Workers ==
  ASSUME Inv
  PROVE  /\ ex.pc = "idle" <=> ex.task = NULL
         /\ ex.pc # "idle" => ex.task \in Task
         /\ ex.pc = "idle" => ~exposed /\ ~touched
         /\ exposed \in BOOLEAN /\ touched \in BOOLEAN /\ left \subseteq Task
  BY DEF Inv, TypeOK, Calm, ExRecord

\* What TaskLife sees of a step that moves no file and gives up no task: at
\* most that the run has been exposed.
LEMMA ExposeLife ==
  ASSUME Inv, Inv', Record, UNCHANGED <<bucket, left>>, Phase' = Phase,
         ex'.task = ex.task
  PROVE  InLife
<1>1. touched' = touched
  BY Workers DEF Record, Inv, TypeOK, Calm
<1>2. exposed => exposed'
  BY Workers DEF Record, Inv, TypeOK, Calm
<1>3. CASE exposed' = exposed
  BY <1>1, <1>3 DEF InLife, Life!lifeVars
<1>4. CASE exposed' /\ ~exposed
  <2>1. ex'.pc # "idle" /\ (ex.pc = "idle" \/ StartRecovers') /\ ex.pc # "idle"
    BY <1>4 DEF Record, Inv, TypeOK
  <2>2. Phase = "recovering" /\ exposed' = TRUE
    BY <1>4, <2>1 DEF Phase, Inv, TypeOK, Alive
  <2>3. Life!Expose
    BY <1>1, <2>1, <2>2, Workers DEF Life!Expose
  <2> QED
    BY <2>3 DEF InLife, Life!Next
<1> QED
  BY <1>2, <1>3, <1>4 DEF Inv, TypeOK

\* Executor and claude.
LEMMA QuietLife ==
  ASSUME Inv, Inv',
         \/ ExecutorStep
         \/ \E t \in Task : Cancel(t) \/ ClaudeExits(t)
  PROVE  InLife
<1>1. UNCHANGED <<bucket, rec, pid>> /\ Record /\ ex'.task = ex.task
  BY DEF ExecutorStep, Cancel, ClaudeExits, Server
<1>2. \A t \in Task : t \in left' <=> t \in left
  BY <1>1, NobodyGivesUp DEF Inv
<1>3. left' = left
  BY <1>2 DEF Inv, TypeOK
<1>4. Phase' = Phase
  BY <1>1 DEF Phase, Up, StartRecovers
<1> QED
  BY <1>1, <1>3, <1>4, ExposeLife

LEMMA BeginLife ==
  ASSUME Inv, Inv', NEW t \in Task, Begin(t)
  PROVE  InLife
<1>1. /\ ex.pc = "idle" /\ ex.task = NULL /\ ex'.task = t /\ ex'.pc = "acquire" /\ Up
      /\ bucket[t] = "pending" /\ bucket' = [bucket EXCEPT ![t] = "running"]
      /\ UNCHANGED <<pid, rec>> /\ Record /\ ~OnceRecovers
  BY Workers DEF Begin, Move, Server, Idle
<1>2. Phase' = Phase /\ Phase # "down"
  BY <1>1 DEF Phase, Up, StartRecovers
<1>3. ~touched /\ ~touched' /\ touched' = touched
  BY <1>1, Workers DEF Record, Inv, TypeOK
<1>4. exposed' \in BOOLEAN /\ (exposed' => Phase = "recovering")
  BY <1>1, <1>2, Workers DEF Record, Phase, Inv, TypeOK
<1>5. \A u \in Task : u \in left' <=> u \in left
  <2>1. ASSUME NEW u \in Task PROVE ~GivenUp(u)
    BY <1>1, ExecutionAssumption DEF GivenUp
  <2>2. ASSUME NEW u \in left PROVE bucket'[u] = "running"
    BY <1>1, <2>2 DEF Inv, Calm, TypeOK
  <2> QED
    BY <1>1, <2>1, <2>2 DEF Record
<1>6. left' = left
  BY <1>5 DEF Inv, TypeOK
<1>7. Life!Start(t)
  BY <1>1, <1>2, <1>3, <1>4, <1>6 DEF Life!Start
<1> QED
  BY <1>7 DEF InLife, Life!Next

LEMMA FinalizeLife ==
  ASSUME Inv, Inv', Finalize
  PROVE  InLife
<1> DEFINE w == ex.task
<1>1. /\ ex.pc = "finalize" /\ w \in Task /\ w # NULL /\ ex'.task = NULL
      /\ ex'.pc = "idle" /\ UNCHANGED <<pid, rec>> /\ Record /\ Up
      /\ ex.outcome \in Life!Outcome
  BY ExecutionAssumption, IdleForm, Workers
     DEF Finalize, Server, Inv, Alive, TypeOK, ExRecord, Life!Outcome
<1>2. Phase' = Phase /\ Phase # "down" /\ exposed' = FALSE /\ touched' = FALSE
  BY <1>1 DEF Phase, Up, StartRecovers, Record, Inv, TypeOK
<1>3. /\ \A t \in Task : t # w => bucket'[t] = bucket[t]
      /\ \/ bucket[w] = "running" /\ bucket' = [bucket EXCEPT ![w] = ex.outcome]
         \/ bucket' = bucket
  BY <1>1 DEF Finalize, Move, Inv, TypeOK
<1>4. \A t \in Task : t \in left' <=> /\ bucket'[t] = "running"
                                      /\ t \in left \/ t = w
  <2>1. ASSUME NEW t \in Task, bucket'[t] = "running" PROVE GivenUp(t) <=> t = w
    <3>1. bucket[t] = "running"
      BY <1>1, <1>3, <2>1 DEF Life!Outcome, Inv, TypeOK
    <3> QED
      BY <1>1, <3>1, <1>3 DEF GivenUp
  <2> QED
    BY <1>1, <2>1 DEF Record
<1>5. CASE bucket[w] = "running" /\ bucket' = [bucket EXCEPT ![w] = ex.outcome]
  <2>1. bucket'[w] # "running"
    BY <1>1, <1>5 DEF Life!Outcome, Inv, TypeOK
  <2>2. left' = left \ {w}
    BY <1>1, <1>3, <1>4, <2>1 DEF Inv, TypeOK, Calm
  <2>3. Life!Finish
    BY <1>1, <1>2, <1>5, <2>2 DEF Life!Finish, Life!Running
  <2> QED
    BY <2>3 DEF InLife, Life!Next
<1>6. CASE bucket[w] = "running" /\ bucket' = bucket
  <2>1. left' = left \cup {w}
    BY <1>1, <1>4, <1>6 DEF Inv, TypeOK, Calm
  <2>2. Life!Finish
    BY <1>1, <1>2, <1>6, <2>1 DEF Life!Finish, Life!Running
  <2> QED
    BY <2>2 DEF InLife, Life!Next
<1>7. CASE bucket[w] # "running" /\ bucket' = bucket
  <2>1. left' = left
    BY <1>1, <1>4, <1>7 DEF Inv, TypeOK, Calm
  <2>2. exposed \/ touched
    BY <1>1, <1>7 DEF Inv, InRunning
  <2>3. Life!Finish
    BY <1>1, <1>2, <1>7, <2>1, <2>2 DEF Life!Finish, Life!Running
  <2> QED
    BY <2>3 DEF InLife, Life!Next
<1> QED
  BY <1>3, <1>5, <1>6, <1>7

\* A user's hand is one of TaskLife's.
LEMMA ByHandLife ==
  ASSUME Inv, Inv', NEW t \in Task, NEW from, NEW to \in Bucket, ByHand(t, from, to),
         to = "running" <=> from = {"pending"} /\ to = "running", to \notin from
  PROVE  Life!ByHand(t, from, to)
<1>1. /\ Up /\ Record /\ bucket' = [bucket EXCEPT ![t] = to] /\ bucket[t] \in from
      /\ UNCHANGED <<lock, pid, ex, rec>> /\ bucket'[t] = to
      /\ \A u \in Task : u # t => bucket'[u] = bucket[u]
  BY DEF ByHand, Move, Server, Inv, TypeOK
<1>2. Phase' = Phase /\ Phase # "down"
  BY <1>1 DEF Phase, Up, StartRecovers
<1>3. exposed' = exposed
  BY <1>1, Workers DEF Record, Inv, Spared, StartRecovers, Guarded, TypeOK
<1>4. touched' = (touched \/ t = ex.task)
  <2>1. CASE ex.pc = "idle"
    BY <1>1, <2>1, Workers, ExecutionAssumption DEF Record, Inv, TypeOK
  <2>2. CASE ex.pc # "idle"
    <3>1. bucket'[ex.task] # bucket[ex.task] <=> t = ex.task
      BY <1>1, <2>2, Workers
    <3> QED
      BY <1>1, <2>2, <3>1, Workers DEF Record, Inv, TypeOK
  <2> QED
    BY <2>1, <2>2
<1>5. \A u \in Task : u \in left' <=> bucket'[u] = "running" /\ (u \in left \/ u = t)
  <2>1. ASSUME NEW u \in Task, bucket'[u] = "running" PROVE GivenUp(u) <=> u = t
    BY <1>1, <2>1 DEF GivenUp
  <2> QED
    BY <1>1, <2>1 DEF Record
<1>6. left' = IF to = "running" THEN left \cup {t} ELSE left \ {t}
  BY <1>1, <1>5 DEF Inv, TypeOK, Calm
<1> QED
  BY <1>1, <1>2, <1>3, <1>4, <1>6 DEF Life!ByHand, Life!Moved

LEMMA HandsLife ==
  ASSUME Inv, Inv', NEW t \in Task,
         Retry(t) \/ Unfinish(t) \/ BeginAlone(t) \/ Settle(t) \/ Remove(t)
  PROVE  InLife
<1> USE DEF Bucket
<1>1. CASE Retry(t)
  <2>1. Life!Retry(t)
    BY <1>1, ByHandLife DEF Retry, Life!Retry
  <2> QED
    BY <2>1 DEF InLife, Life!Next
<1>2. CASE Unfinish(t)
  <2>1. Life!Unfinish(t)
    BY <1>2, ByHandLife DEF Unfinish, Life!Unfinish
  <2> QED
    BY <2>1 DEF InLife, Life!Next
<1>3. CASE BeginAlone(t)
  <2>1. Life!BeginAlone(t)
    BY <1>3, ByHandLife DEF BeginAlone, Life!BeginAlone
  <2> QED
    BY <2>1 DEF InLife, Life!Next
<1>4. CASE Settle(t)
  <2>1. PICK b \in {"done", "failed", "unfinished"} : ByHand(t, {"running"}, b)
    BY <1>4 DEF Settle
  <2>2. Life!ByHand(t, {"running"}, b)
    BY <2>1, ByHandLife
  <2>3. Life!Settle(t)
    BY <2>2 DEF Life!Settle, Life!Outcome
  <2> QED
    BY <2>3 DEF InLife, Life!Next
<1>5. CASE Remove(t)
  <2> DEFINE b == bucket[t]
  <2>1. b \in Bucket \ {"gone"} /\ ByHand(t, {b}, "gone")
    BY <1>5 DEF Remove, ByHand, Inv, TypeOK
  <2> HIDE DEF b
  <2>2. Life!ByHand(t, {b}, "gone")
    BY <2>1, ByHandLife
  <2>3. Life!Remove(t)
    BY <2>1, <2>2 DEF Life!Remove, Life!Outcome
  <2> QED
    BY <2>3 DEF InLife, Life!Next
<1> QED
  BY <1>1, <1>2, <1>3, <1>4, <1>5

\* Which tasks a step of a recovery gives up.
LEMMA RecoveryLeaves ==
  ASSUME Inv, NEW r \in Recoverer, RecoveryStep(r), NEW t \in Task
  PROVE  /\ t \in left' => bucket'[t] = "running" /\ (t \in left \/ GivenUp(t))
         /\ t \in left /\ bucket'[t] = "running" => t \in left'
         /\ t \in left' => bucket[t] = "running"
         /\ t \in left' /\ t \notin left =>
              /\ rec[r].pc \in {"scan", "move", "orphans"}
              /\ rec[r].pc = "move" => t = rec[r].cur
              /\ rec[r].pc = "orphans" => t \in rec[r].stale \ rec'[r].stale
              /\ rec[r].pc = "scan" => t # ex.task
<1>1. t \in left' => bucket'[t] = "running" /\ bucket[t] = "running"
                     /\ (t \in left \/ GivenUp(t))
  BY DEF Record, RecoveryStep
<1>2. bucket[t] = "running" /\ GivenUp(t) =>
              /\ rec[r].pc \in {"scan", "move", "orphans"}
              /\ rec[r].pc = "move" => t = rec[r].cur
              /\ rec[r].pc = "orphans" => t \in rec[r].stale \ rec'[r].stale
              /\ rec[r].pc = "scan" => t # ex.task
  BY DEF GivenUp, RecoveryStep
<1> QED
  BY <1>1, <1>2 DEF Record, RecoveryStep

\* The histories of the run through a recovery that leaves its lock alone.
LEMMA RecoveryHistories ==
  ASSUME Inv, NEW r \in Recoverer, RecoveryStep(r), lock' = lock
  PROVE  /\ touched' = touched
         /\ (StartRecovers' => StartRecovers) => exposed' = exposed
<1>1. touched' = touched
  <2>1. ex.pc # "idle" => bucket'[ex.task] = bucket[ex.task] \/ rec' # rec
    BY Workers DEF RecoveryStep
  <2> QED
    BY <2>1, Workers DEF Record, RecoveryStep
<1>2. (StartRecovers' => StartRecovers) => exposed' = exposed
  BY Workers DEF Record, RecoveryStep, Inv, Spared, Guarded
<1> QED
  BY <1>1, <1>2

\* A recovery that moves no file leaves some tasks or none.
LEMMA LeaveLife ==
  ASSUME Inv, Inv', NEW r \in Recoverer, RecoveryStep(r), UNCHANGED <<bucket, lock>>,
         Phase' = Phase
  PROVE  InLife
<1>1. Up /\ Up' /\ (StartRecovers' <=> StartRecovers) /\ ex' = ex
  BY DEF Phase, RecoveryStep, Up
<1>2. touched' = touched /\ exposed' = exposed
  BY <1>1, RecoveryHistories
<1>3. left \subseteq left' /\ left' \subseteq Task
  BY RecoveryLeaves, HistoryTypes DEF Inv, Calm, TypeOK, RecoveryStep
<1>4. \A t \in left' : t \in Task /\ bucket[t] = "running"
  BY <1>3, RecoveryLeaves
<1>5. CASE StartRecovers
  <2>1. left' \in SUBSET Life!Running /\ left' = left \cup left'
    BY <1>3, <1>4 DEF Life!Running
  <2>2. Phase = "recovering"
    BY <1>1, <1>5 DEF Phase
  <2>3. Life!Leave
    BY <1>1, <1>2, <2>1, <2>2 DEF Life!Leave, RecoveryStep
  <2> QED
    BY <2>3 DEF InLife, Life!Next
<1>6. CASE ~StartRecovers
  <2>1. ASSUME NEW t \in left' PROVE t \in left
    <3>1. SUFFICES ASSUME t \notin left PROVE FALSE
      OBVIOUS
    <3>2. t \in Task /\ bucket[t] = "running" /\ rec[r].pc \in {"scan", "move", "orphans"}
      BY <1>4, <3>1, RecoveryLeaves
    <3>3. t = ex.task
      BY <1>1, <1>6, <3>1, <3>2 DEF Inv, Shelved, Unowned, Pending, StartRecovers
    <3>4. r = "once"
      BY <1>6, <3>2, Recoverers DEF StartRecovers
    <3> QED
      BY <3>2, <3>3, <3>4, Workers, ExecutionAssumption DEF RecoveryStep
  <2>2. left' = left
    BY <1>3, <2>1
  <2> QED
    BY <1>1, <1>2, <2>2 DEF InLife, Life!lifeVars
<1> QED
  BY <1>5, <1>6

\* One that shelves a task shelves it.
LEMMA ShelveLife ==
  ASSUME Inv, Inv', NEW r \in Recoverer, RecoveryStep(r), lock' = lock,
         NEW t \in Task, bucket[t] = "running",
         bucket' = [bucket EXCEPT ![t] = "unfinished"],
         \/ rec[r].pc = "move" /\ rec[r].cur = t
         \/ rec[r].pc = "orphans" /\ rec[r].stale \ rec'[r].stale \subseteq {t},
         Phase' = Phase
  PROVE  InLife
<1>1. Up /\ Up' /\ (StartRecovers' <=> StartRecovers) /\ ex' = ex
      /\ bucket'[t] = "unfinished" /\ (\A u \in Task : u # t => bucket'[u] = bucket[u])
  BY DEF Phase, RecoveryStep, Up, Inv, TypeOK
<1>2. touched' = touched /\ exposed' = exposed
  BY <1>1, RecoveryHistories
<1>3. t = ex.task => exposed
  BY <1>1 DEF RecoveryStep
<1>4. ASSUME NEW u \in Task PROVE u \in left' <=> u \in left /\ u # t
  BY <1>1, RecoveryLeaves DEF Inv, Calm
<1>5. left' = left \ {t}
  BY <1>4, HistoryTypes DEF Inv, TypeOK, RecoveryStep
<1>6. Life!Shelve(t)
  BY <1>1, <1>2, <1>3, <1>5
     DEF Life!Shelve, Life!Moved, Life!Running, Phase
<1> QED
  BY <1>6 DEF InLife, Life!Next

\* What a step of a recovery does to the server's phase.
LEMMA PhaseOf ==
  ASSUME Inv, NEW r \in Recoverer, RecoveryStep(r),
         r = "start" => (rec'[r].pc \in {"check", "done"} <=> rec[r].pc \in {"check", "done"})
  PROVE  Phase' = Phase
  BY Recoverers DEF RecoveryStep, Phase, StartRecovers, Up

LEMMA RecoveryLife ==
  ASSUME Inv, Inv', NEW r \in Recoverer, RecoveryOf(r)
  PROVE  InLife
<1>1. RecoveryStep(r) /\ rec[r] \in RecRecord /\ Up
  BY RecoveryInv DEF Inv, TypeOK, RecoveryOf
<1>2. CASE Scan(r) \/ NextStale(r) \/ RecoverUnlink(r) \/ RecoverRestore(r)
  <2>1. /\ UNCHANGED <<bucket, lock>> /\ rec[r].pc \notin {"check", "done"}
        /\ rec'[r].pc \notin {"check", "done"}
    <3>1. CASE Scan(r)
      BY <3>1 DEF Scan, Put, NoRecovery, Inv, TypeOK
    <3>2. CASE NextStale(r)
      <4>1. rec'[r].pc \in {"unlink", "move", "orphans"}
        <5>1. CASE ListOrphans(r)
          BY <5>1 DEF ListOrphans, Put, NoRecovery, Inv, TypeOK
        <5>2. CASE \E t \in rec[r].stale :
                     Put(r, [rec[r] EXCEPT !.stale = @ \ {t}, !.cur = t, !.pc =
                               IF rec[r].read[t].written THEN "unlink" ELSE "move"])
          BY <1>1, <5>2 DEF Put, Inv, TypeOK, RecRecord
        <5> QED
          BY <3>2, <5>1, <5>2 DEF NextStale
      <4> QED
        BY <3>2, <4>1 DEF NextStale
    <3>3. CASE RecoverUnlink(r) \/ RecoverRestore(r)
      BY <1>1, <3>3 DEF RecoverUnlink, RecoverRestore, Put, Inv, TypeOK, RecRecord
    <3> QED
      BY <1>2, <3>1, <3>2, <3>3
  <2> QED
    BY <1>1, <2>1, PhaseOf, LeaveLife
<1>3. CASE RecoverMove(r)
  <2>1. /\ rec[r].pc = "move" /\ rec'[r].pc = "release" /\ lock' = lock
        /\ rec[r].cur \in Task
    BY <1>1, <1>3
       DEF RecoverMove, Put, Inv, TypeOK, RecRecord, Cursor, AtLock
  <2>2. Phase' = Phase
    BY <1>1, <2>1, PhaseOf
  <2>3. CASE bucket' = bucket
    BY <1>1, <2>1, <2>2, <2>3, LeaveLife
  <2>4. CASE /\ bucket[rec[r].cur] = "running"
             /\ bucket' = [bucket EXCEPT ![rec[r].cur] = "unfinished"]
    BY <1>1, <2>1, <2>2, <2>4, ShelveLife
  <2> QED
    BY <1>3, <2>3, <2>4 DEF RecoverMove, Move
<1>4. CASE RecoverRelease(r)
  <2>1. /\ rec[r].pc = "release" /\ rec'[r].pc = "next" /\ UNCHANGED <<bucket, ex>>
        /\ Record
    BY <1>1, <1>4 DEF RecoverRelease, Put, Inv, TypeOK, RecRecord
  <2>2. Phase' = Phase
    BY <1>1, <2>1, PhaseOf
  <2>3. \A t \in Task : t \in left' <=> t \in left
    BY <1>1, <2>1, RecoveryLeaves DEF Inv, Calm
  <2>4. left' = left
    BY <2>3 DEF Inv, TypeOK
  <2> QED
    BY <2>1, <2>2, <2>4, ExposeLife
<1>5. CASE RecoverOrphans(r)
  <2>1. rec[r].pc = "orphans" /\ lock' = lock
    BY <1>5 DEF RecoverOrphans
  <2>2. ASSUME NEW t \in rec[r].stale, Put(r, [rec[r] EXCEPT !.stale = @ \ {t}]),
               \/ Orphan(t) /\ Move(t, "unfinished") /\ UNCHANGED raised
               \/ ~Orphan(t) /\ UNCHANGED <<bucket, raised>>
               \/ Raise /\ UNCHANGED bucket
        PROVE  InLife
    <3>1. /\ t \in Task /\ rec'[r].pc = "orphans" /\ rec'[r].stale = rec[r].stale \ {t}
      BY <1>1, <2>1, <2>2 DEF Put, RecRecord, Inv, TypeOK
    <3>2. Phase' = Phase
      BY <1>1, <2>1, <3>1, PhaseOf
    <3>3. CASE bucket' = bucket
      BY <1>1, <2>1, <3>2, <3>3, LeaveLife
    <3>4. CASE bucket[t] = "running" /\ bucket' = [bucket EXCEPT ![t] = "unfinished"]
      BY <1>1, <2>1, <3>1, <3>2, <3>4, ShelveLife
    <3> QED
      BY <2>2, <3>3, <3>4 DEF Move, Orphan
  <2>3. CASE /\ rec[r].stale = {} /\ UNCHANGED <<bucket, raised>>
             /\ Put(r, [NoRecovery EXCEPT !.pc = IF r = "start" THEN "check" ELSE "done"])
    <3>1. rec'[r].pc = IF r = "start" THEN "check" ELSE "done"
      BY <2>3, AtForm DEF Put, Inv, TypeOK, RecPosition
    <3>2. CASE r = "once"
      <4>1. Phase' = Phase
        BY <1>1, <3>2, PhaseOf
      <4> QED
        BY <1>1, <2>1, <2>3, <4>1, LeaveLife
    <3>3. CASE r = "start"
      <4>1. Phase = "recovering" /\ Phase' = "up" /\ StartRecovers
        BY <1>1, <2>1, <3>1, <3>3 DEF Phase, StartRecovers, Up, RecoveryStep
      <4>2. exposed' = exposed /\ touched' = touched
        BY <1>1, <2>1, <4>1, RecoveryHistories
      <4>3. \A t \in Task : t \in left' <=> t \in left
        <5>1. NoRecovery.stale = {} /\ rec[r].stale = {}
          BY <2>3, IdleForm
        <5> QED
          BY <1>1, <2>1, <2>3, <5>1, RecoveryLeaves DEF Inv, Calm
      <4>4. left' = left
        BY <4>3 DEF Inv, TypeOK
      <4>5. Life!Running \subseteq left \cup {ex.task}
        BY <1>1, <2>1, <2>3, <3>3
           DEF Life!Running, Inv, Shelved, Unowned, Pending
      <4>6. Life!Recovered
        BY <1>1, <2>3, <4>1, <4>2, <4>4, <4>5 DEF Life!Recovered, RecoveryStep
      <4> QED
        BY <4>6 DEF InLife, Life!Next
    <3> QED
      BY <3>2, <3>3, Recoverers
  <2> QED
    BY <1>5, <2>2, <2>3 DEF RecoverOrphans
<1>6. CASE r = "start" /\ EnterLoop
  <2>1. /\ UNCHANGED <<bucket, lock>> /\ rec[r].pc = "check" /\ rec'[r].pc = "done"
    BY <1>6, IdleForm DEF EnterLoop, Put, Inv, TypeOK
  <2> QED
    BY <1>1, <2>1, PhaseOf, LeaveLife
<1> QED
  BY <1>2, <1>3, <1>4, <1>5, <1>6 DEF RecoveryOf

\* The runner that fails in its first check and is started again recovers once
\* more.
LEMMA JumpsLife ==
  ASSUME Inv, Inv', NEW r \in Recoverer,
         \/ RunnerFails(r)
         \/ r = "start" /\ RunnerAgain
         \/ r = "once" /\ RunOnce
  PROVE  InLife
<1>1. RecoveryStep(r) /\ UNCHANGED <<bucket, lock>>
  BY JumpsInv DEF RunnerFails, RunnerAgain, RunOnce
<1>2. /\ RunnerFails(r) => rec'[r].pc = IF r = "start" THEN "failed" ELSE "done"
      /\ r = "start" /\ RunnerAgain => rec[r].pc = "failed" /\ rec'[r].pc = "scan"
  BY AtForm DEF RunnerFails, RunnerAgain, Put, Inv, TypeOK, RecPosition
<1>3. CASE ~(RunnerFails(r) /\ r = "start" /\ rec[r].pc = "check")
  <2>1. Phase' = Phase
    BY <1>1, <1>2, <1>3, PhaseOf, Recoverers DEF RunnerFails
  <2> QED
    BY <1>1, <2>1, LeaveLife
<1>4. CASE RunnerFails(r) /\ r = "start" /\ rec[r].pc = "check"
  <2>1. Phase = "up" /\ Phase' = "recovering"
    BY <1>1, <1>2, <1>4 DEF Phase, StartRecovers, Up, RecoveryStep
  <2>2. touched' = touched
    BY <1>1, RecoveryHistories
  <2>3. exposed' \in BOOLEAN /\ (exposed \/ ex.task = NULL => exposed' = exposed)
    BY <1>1, Workers DEF Record, RecoveryStep, Inv, TypeOK
  <2>4. \A t \in Task : t \in left' <=> t \in left
    BY <1>1, <1>4, RecoveryLeaves DEF Inv, Calm
  <2>5. left' = left
    BY <2>4 DEF Inv, TypeOK
  <2>6. Life!Recover
    BY <1>1, <2>1, <2>2, <2>3, <2>5 DEF Life!Recover, RecoveryStep
  <2> QED
    BY <2>6 DEF InLife, Life!Next
<1> QED
  BY <1>3, <1>4

LEMMA ServerLife ==
  ASSUME Inv, Inv', Crash \/ \E p \in Pid : Start(p)
  PROVE  InLife
<1>1. CASE Crash
  <2>1. /\ Up /\ ~Up' /\ UNCHANGED bucket /\ ex'.task = NULL /\ ex'.pc = "idle"
        /\ Record /\ pid' # pid
    BY <1>1, IdleForm DEF Crash, Up
  <2>2. left' = {} /\ exposed' = FALSE /\ touched' = FALSE
    BY <2>1 DEF Record, Inv, TypeOK
  <2>3. Life!Die
    BY <2>1, <2>2 DEF Life!Die, Phase
  <2> QED
    BY <2>3 DEF InLife, Life!Next
<1>2. ASSUME NEW p \in Pid, Start(p) PROVE InLife
  <2>1. /\ ~Up /\ pid' = p /\ p # NULL /\ UNCHANGED <<bucket, ex>> /\ Record
        /\ rec'["start"].pc = "scan" /\ ex.pc = "idle" /\ ex.task = NULL
    BY <1>2, AtForm, Recoverers, ExecutionAssumption, Workers
       DEF Start, Inv, TypeOK, Alive, RecPosition
  <2>2. left' = left /\ exposed' = exposed /\ touched' = touched
    BY <2>1, Workers DEF Record, Inv, TypeOK, Alive, Up
  <2>3. Phase = "down" /\ Phase' = "recovering"
    BY <2>1 DEF Phase, Up, StartRecovers
  <2>4. Life!Recover
    BY <2>1, <2>2, <2>3, Workers DEF Life!Recover
  <2> QED
    BY <2>4 DEF InLife, Life!Next
<1> QED
  BY <1>1, <1>2

\* Each step is one of TaskLife's or nothing to it.
LEMMA NextLife ==
  ASSUME Inv, [Next]_vars
  PROVE  InLife
<1>1. Inv'
  BY NextInv
<1>2. CASE UNCHANGED vars
  <2>1. Phase' = Phase
    BY <1>2 DEF vars, Phase, StartRecovers, Up
  <2> QED
    BY <1>2, <2>1 DEF vars, InLife, Life!lifeVars
<1>3. CASE Execution
  BY <1>1, <1>3, ExecutionInv, QuietLife, FinalizeLife
<1>4. CASE \/ \E t \in Task : \/ Begin(t) \/ Cancel(t) \/ ClaudeExits(t)
                              \/ Retry(t) \/ Unfinish(t) \/ BeginAlone(t)
                              \/ Settle(t) \/ Remove(t)
  BY <1>1, <1>4, BeginLife, QuietLife, HandsLife
<1>5. CASE \/ \E r \in Recoverer : RecoveryOf(r) \/ RunnerFails(r)
           \/ RunnerAgain \/ RunOnce
  BY <1>1, <1>5, RecoveryLife, JumpsLife, Recoverers
<1>6. CASE Crash \/ \E p \in Pid : Start(p)
  BY <1>1, <1>6, ServerLife
<1> QED
  BY <1>2, <1>3, <1>4, <1>5, <1>6 DEF Next

\* TaskExecution implements TaskLife: with any number of tasks, deaths, restarts
\* of the runner and failing file operations, a task leaves running/ only by its
\* worker, a user or a recovery that may take it.
THEOREM LifeImplemented == Spec => LifeKept
<1>1. Init => Life!Init
  BY InitLife
<1>2. Inv /\ [Next]_vars => [Life!Next]_(Life!lifeVars)
  BY NextLife DEF InLife
<1> QED
  BY <1>1, <1>2, InvHolds, PTL DEF Spec, LifeKept, Life!Spec
=============================================================================
