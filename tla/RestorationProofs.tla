-------------------------- MODULE RestorationProofs --------------------------
(***************************************************************************)
(* Theorems about TaskExecution, for any tasks, process ids and deaths:    *)
(* the user's CLAUDE.md is never lost and is back in place whenever the    *)
(* server is idle, and no claude is left running beside the one that is    *)
(* waited for, all this until something happens that the code does not     *)
(* repair.                                                                 *)
(***************************************************************************)
EXTENDS TaskExecutionProofs

-----------------------------------------------------------------------------
(* What the lock files say of CLAUDE.md *)

\* The project is as its user left it.
Whole == claudeMd = IF HadUser THEN "user" ELSE "none"

\* The original is in the backup of process p.
Aside(p) == p \in Pid /\ HadUser /\ backup[p] = "user"

\* Recovery from lock l puts the project right.
Mends(l) == IF l.written THEN (IF l.backedUp THEN Aside(l.pid) ELSE ~HadUser)
            ELSE ~l.backedUp /\ Whole

NoLocks == \A t \in Task : ~lock[t].there
OnlyLock(t) == \A u \in Task : lock[u].there => u = t

\* What a dead server leaves behind.
Left ==
  /\ \A t, u \in Task : lock[t].there /\ lock[u].there => t = u
  /\ \A t \in Task : lock[t].there => Mends(lock[t])
  /\ NoLocks => Whole

\* A lock says what the executor has done, and that is so.
Says(l) == l.written /\ (l.backedUp <=> ex.had = "yes") /\ l.pid = pid
Noted == (ex.had = "yes" /\ Aside(pid)) \/ (ex.had = "no" /\ ~HadUser)

\* During an execution.
Running ==
  ex.pc # "idle" =>
    /\ OnlyLock(ex.task)
    /\ lock[ex.task].there <=> ex.pc \notin {"acquire", "finalize"}
    /\ ex.pc \in {"acquire", "acquiring", "build"} => Whole /\ ex.had = "unset"
    /\ ex.pc = "finalize" => Whole
    /\ ex.pc = "acquiring" => ~ex.data.written /\ ~ex.data.backedUp /\ ex.data.there
    /\ ex.pc \in {"acquiring", "build", "inject", "record"}
         => ~lock[ex.task].written /\ ~lock[ex.task].backedUp
    /\ ex.pc = "inject" => /\ claudeMd = "none"
                           /\ \/ ex.had = "pending" /\ Aside(pid)
                              \/ ex.had = "unset" /\ ~HadUser
    /\ ex.pc \in {"record", "recording", "spawn", "group", "grouping", "wait",
                  "unlink", "restore"} => Noted
    /\ ex.pc \in {"recording", "grouping"} => Says(ex.data) /\ ex.data.there
    /\ ex.pc \in {"spawn", "group", "wait", "unlink", "restore"}
         => Says(lock[ex.task])
    /\ ex.pc = "restore" => claudeMd = "none"
    /\ ex.pc = "release" => Whole /\ (ex.had = "yes" \/ Mends(lock[ex.task]))

\* Nothing runs, and run-once does not recover.
Still == ex.pc = "idle" /\ ~OnceRecovers

\* The start's recovery is at its work.
AtWork == {"scan", "next", "orphans"} \cup AtLock

\* During that: what it is to visit is what is left, as it has read it.
Mending ==
  LET s == rec["start"]
      l == lock[s.cur]
  IN /\ s.pc \in AtWork => Still
     /\ s.pc = "scan" => Left
     /\ s.pc = "next" => /\ Left
                         /\ \A t \in Task : lock[t].there <=> t \in s.stale
                         /\ \A t \in s.stale : s.read[t] = lock[t]
     /\ s.pc \in AtLock => /\ OnlyLock(s.cur) /\ s.stale = {}
                           /\ l.there /\ s.read[s.cur] = l
     /\ s.pc \in {"unlink", "restore"} => l.written /\ Mends(l)
     /\ s.pc = "restore" => claudeMd = "none"
     /\ s.pc \in {"move", "release"} =>
          Whole /\ (Mends(l) \/ (l.written /\ l.backedUp))
     /\ s.pc = "orphans" => NoLocks /\ Whole

\* run-once finds nothing to mend.
Idling ==
  OnceRecovers =>
    /\ NoLocks /\ Whole
    /\ rec["once"].pc \in {"scan", "next", "orphans"}
    /\ rec["once"].pc = "next" => rec["once"].stale = {}

\* When nothing is under way.
Resting ==
  Still => /\ ~Up \/ rec["start"].pc = "failed" => Left
           /\ Up /\ rec["start"].pc \in {"check", "done"} => NoLocks /\ Whole

Restored ==
  intact => Running /\ Mending /\ Idling /\ Resting /\ ClaudeAlone

-----------------------------------------------------------------------------
(* It is inductive *)

\* While all is well a run is alone with its server.
LEMMA Undisturbed ==
  ASSUME Inv, Restored, intact, ex.pc # "idle"
  PROVE  /\ Up /\ ~OnceRecovers /\ rec["start"].pc \notin AtWork /\ Running
         /\ ex.task \in Task /\ pid \in Pid
         /\ \A t \in claude : t = ex.task /\ ex.pc \in {"group", "grouping", "wait"}
BY DEF Inv, Restored, Alive, OnceAlone, Mending, Still, Up, TypeOK, ExRecord, ClaudeAlone

\* And so is the recovery of a start, and one of run-once.
LEMMA Unaccompanied ==
  ASSUME Inv, Restored, intact, ex.pc = "idle"
  PROVE  claude = {}
BY DEF Restored, ClaudeAlone

\* So a step of the executor has only Running and ClaudeAlone to keep.
LEMMA ExecutorFrame ==
  ASSUME Inv, Restored, ExecutorStep, intact' => intact /\ Running' /\ ClaudeAlone'
  PROVE  Restored'
<1>1. SUFFICES ASSUME intact' PROVE Mending' /\ Idling' /\ Resting'
  BY DEF Restored
<1>2. ex'.pc # "idle" /\ rec' = rec /\ rec["start"].pc \notin AtWork /\ ~OnceRecovers
  BY <1>1, Undisturbed DEF ExecutorStep
<1> QED
  BY <1>2 DEF Mending, Idling, Resting, Still, AtWork, AtLock, OnceRecovers

\* The first states.
LEMMA InitRestored == Init => Restored
<1> SUFFICES ASSUME Init PROVE Restored
  OBVIOUS
<1>1. /\ ex.pc = "idle" /\ claude = {} /\ pid # NULL /\ ~OnceRecovers
      /\ rec["start"].pc = "scan"
  BY AtForm, IdleForm, Recoverers, ExecutionAssumption
     DEF Init, RecPosition, OnceRecovers
<1>2. NoLocks /\ Whole
  BY LockForms DEF Init, NoLocks, Whole
<1> QED
  BY <1>1, <1>2 DEF Restored, Running, Mending, Idling, Resting, Left, NoLocks, Still,
     Up, ClaudeAlone, AtLock

\* A run begins with the project as its user left it, and no lock.
LEMMA BeginRestored ==
  ASSUME Inv, Restored, NEW t \in Task, Begin(t)
  PROVE  Restored'
<1>1. /\ ex.pc = "idle" /\ Up /\ UNCHANGED <<claudeMd, backup, lock, pid, claude, rec>>
      /\ ex'.pc = "acquire" /\ ex'.task = t /\ ex'.had = "unset"
  BY DEF Begin, Project, Server, Idle
<1>2. SUFFICES ASSUME intact'
               PROVE  Running' /\ Mending' /\ Idling' /\ Resting' /\ ClaudeAlone'
  BY DEF Restored
<1>3. intact /\ ~StartRecovers /\ ~OnceRecovers
  BY <1>2 DEF Begin, Recovering
<1>4. NoLocks /\ Whole /\ claude = {}
  BY <1>1, <1>3, Unaccompanied DEF Restored, Resting, Still, StartRecovers
<1>5. Running'
  BY <1>1, <1>4 DEF Running, NoLocks, OnlyLock, Whole
<1> QED
  BY <1>1, <1>3, <1>4, <1>5
     DEF Mending, Idling, Resting, Still, ClaudeAlone, StartRecovers, OnceRecovers,
         AtWork, AtLock

LEMMA AcquireLockRestored ==
  ASSUME Inv, Restored, AcquireLock
  PROVE  Restored'
<1>1. ExecutorStep /\ ex.pc \in {"acquire", "acquiring"}
      /\ UNCHANGED <<claudeMd, backup, pid, claude>>
  BY AcquireLockStep DEF AcquireLock, WriteLock, Project, Server
<1>2. intact' => intact
  BY DEF AcquireLock, WriteLock
<1>3. ClaudeAlone'
  BY <1>1, <1>2 DEF Restored, ClaudeAlone
<1>4. ASSUME intact' PROVE Running'
  <2>1. Running /\ ex.task \in Task /\ pid \in Pid /\ lock \in [Task -> LockFile]
        /\ ex \in ExRecord
    BY <1>1, <1>2, <1>4, Undisturbed DEF Inv, TypeOK
  <2>2. CASE ex.pc = "acquire"
    <3>1. lock' = [lock EXCEPT ![ex.task] = Torn]
          /\ ex' = [ex EXCEPT !.pc = "acquiring", !.data = LockOf(pid)]
      BY <2>2 DEF AcquireLock, WriteLock
    <3>2. /\ ~LockOf(pid).written /\ ~LockOf(pid).backedUp /\ LockOf(pid).there
          /\ ~Torn.written /\ ~Torn.backedUp /\ Torn.there
      BY LockForms
    <3>3. ex'.pc = "acquiring" /\ ex'.data = LockOf(pid) /\ ex'.task = ex.task
          /\ ex'.had = ex.had /\ lock'[ex.task] = Torn
          /\ \A u \in Task : u # ex.task => lock'[u] = lock[u]
      BY <2>1, <3>1 DEF ExRecord
    <3> QED
      BY <1>1, <2>1, <2>2, <3>2, <3>3 DEF Running, OnlyLock, Whole
  <2>3. CASE ex.pc = "acquiring"
    <3>1. lock' = [lock EXCEPT ![ex.task] = ex.data]
          /\ ex' = [ex EXCEPT !.pc = "build", !.data = NoLock]
      BY <1>4, <2>3 DEF AcquireLock, WriteLock
    <3>3. ex'.pc = "build" /\ ex'.task = ex.task
          /\ ex'.had = ex.had /\ lock'[ex.task] = ex.data
          /\ \A u \in Task : u # ex.task => lock'[u] = lock[u]
      BY <2>1, <3>1 DEF ExRecord
    <3> QED
      BY <1>1, <2>1, <2>3, <3>3 DEF Running, OnlyLock, Whole
  <2> QED
    BY <1>1, <2>2, <2>3
<1> QED
  BY <1>1, <1>2, <1>3, <1>4, ExecutorFrame

LEMMA BuildAndBackUpRestored ==
  ASSUME Inv, Restored, BuildAndBackUp
  PROVE  Restored'
<1>1. ExecutorStep /\ ex.pc = "build" /\ UNCHANGED <<lock, claude, intact, pid>>
  BY BuildAndBackUpStep DEF BuildAndBackUp, Project, Server
<1>2. ClaudeAlone'
  BY <1>1 DEF Restored, ClaudeAlone
<1>3. ASSUME intact' PROVE Running'
  <2>1. Running /\ ex.task \in Task /\ pid \in Pid /\ ex \in ExRecord
        /\ backup \in [Pid -> Text] /\ ex'.task = ex.task
    BY <1>1, <1>3, Undisturbed DEF Inv, TypeOK, ExecutorStep
  <2>2. /\ OnlyLock(ex.task) /\ Whole /\ ex.had = "unset"
        /\ ~lock[ex.task].written /\ ~lock[ex.task].backedUp
    BY <1>1, <2>1 DEF Running
  <2>3. CASE ex' = [ex EXCEPT !.pc = "release", !.outcome = "failed"]
             /\ UNCHANGED <<claudeMd, backup>>
    <3>1. ex'.pc = "release"
      BY <2>1, <2>3 DEF ExRecord
    <3> QED
      BY <1>1, <2>1, <2>2, <2>3, <3>1 DEF Running, OnlyLock, Whole, Mends
  <2>4. CASE /\ claudeMd # "none" /\ backup' = [backup EXCEPT ![pid] = claudeMd]
             /\ claudeMd' = "none"
             /\ ex' = [ex EXCEPT !.pc = "inject", !.had = "pending"]
    <3>1. ex'.pc = "inject" /\ ex'.had = "pending"
      BY <2>1, <2>4 DEF ExRecord
    <3>2. Aside(pid)'
      BY <1>1, <2>1, <2>2, <2>4 DEF Whole, Aside
    <3> QED
      BY <1>1, <2>1, <2>2, <2>4, <3>1, <3>2 DEF Running, OnlyLock, Aside
  <2>5. CASE claudeMd = "none" /\ Goto("inject") /\ UNCHANGED <<claudeMd, backup>>
    <3>1. ex'.pc = "inject" /\ ex'.had = "unset"
      BY <2>1, <2>2, <2>5 DEF ExRecord, Goto
    <3>2. ~HadUser
      BY <2>2, <2>5 DEF Whole
    <3> QED
      BY <1>1, <2>1, <2>2, <2>5, <3>1, <3>2 DEF Running, OnlyLock
  <2> QED
    BY <2>3, <2>4, <2>5 DEF BuildAndBackUp, Project
<1> QED
  BY <1>1, <1>2, <1>3, ExecutorFrame

LEMMA InjectRestored ==
  ASSUME Inv, Restored, Inject
  PROVE  Restored'
<1>1. ExecutorStep /\ ex.pc = "inject"
      /\ UNCHANGED <<lock, backup, claude, pid>>
  BY InjectStep DEF Inject, Server
<1>2. intact' => intact
  BY DEF Inject
<1>3. ClaudeAlone'
  BY <1>1, <1>2 DEF Restored, ClaudeAlone
<1>4. ASSUME intact' PROVE Running'
  <2>1. Running /\ ex.task \in Task /\ pid \in Pid /\ ex \in ExRecord
        /\ ex'.task = ex.task
    BY <1>1, <1>2, <1>4, Undisturbed DEF Inv, TypeOK, ExecutorStep
  <2>2. ex' = [ex EXCEPT !.pc = "record",
                         !.had = IF @ = "pending" THEN "yes" ELSE "no"]
    BY <1>4 DEF Inject
  <2>3. ex'.pc = "record" /\ ex'.had = IF ex.had = "pending" THEN "yes" ELSE "no"
    BY <2>1, <2>2 DEF ExRecord
  <2> QED
    BY <1>1, <2>1, <2>3 DEF Running, OnlyLock, Noted, Aside
<1> QED
  BY <1>1, <1>2, <1>3, <1>4, ExecutorFrame

LEMMA RecordInjectionRestored ==
  ASSUME Inv, Restored, RecordInjection
  PROVE  Restored'
<1>1. ExecutorStep /\ ex.pc \in {"record", "recording"}
      /\ UNCHANGED <<claudeMd, backup, pid, claude>>
  BY RecordInjectionStep DEF RecordInjection, UpdateLock, WriteLock, Project, Server
<1>2. intact' => intact
  BY DEF RecordInjection, UpdateLock, WriteLock
<1>3. ClaudeAlone'
  BY <1>1, <1>2 DEF Restored, ClaudeAlone
<1>4. ASSUME intact' PROVE Running'
  <2>1. /\ Running /\ ex.task \in Task /\ pid \in Pid /\ lock \in [Task -> LockFile]
        /\ ex \in ExRecord /\ ex'.task = ex.task /\ lock[ex.task].there
    BY <1>1, <1>2, <1>4, Undisturbed DEF Inv, TypeOK, ExecutorStep, Running
  <2>2. CASE ex.pc = "record"
    <3> DEFINE l == [lock[ex.task] EXCEPT !.written = TRUE,
                                          !.backedUp = (ex.had = "yes")]
    <3>1. lock' = [lock EXCEPT ![ex.task] = Torn]
          /\ ex' = [ex EXCEPT !.pc = "recording", !.data = l]
      BY <2>1, <2>2 DEF RecordInjection, UpdateLock, WriteLock
    <3>2. l.written /\ (l.backedUp <=> ex.had = "yes") /\ l.pid = pid /\ l.there
      BY <2>1, <2>2 DEF LockFile, Inv, OwnLock
    <3>3. /\ ex'.pc = "recording" /\ ex'.data = l /\ ex'.had = ex.had
          /\ \A u \in Task : u # ex.task => lock'[u] = lock[u]
          /\ lock'[ex.task].there
      BY <2>1, <3>1, LockForms DEF ExRecord
    <3> HIDE DEF l
    <3>4. OnlyLock(ex.task)' /\ lock'[ex.task].there
      BY <1>1, <2>1, <2>2, <3>3 DEF Running, OnlyLock
    <3>5. Noted'
      BY <1>1, <2>1, <2>2, <3>3 DEF Running, Noted, Aside
    <3>6. l.backedUp <=> ex'.had = "yes"
      BY <2>1, <2>2, <3>2, <3>3 DEF Running, Says
    <3>7. Says(ex.data)'
      BY <1>1, <2>1, <2>2, <3>2, <3>3, <3>6 DEF Running, Says
    <3> QED
      BY <2>1, <3>2, <3>3, <3>4, <3>5, <3>7 DEF Running
  <2>3. CASE ex.pc = "recording"
    <3>1. lock' = [lock EXCEPT ![ex.task] = ex.data]
          /\ ex' = [ex EXCEPT !.pc = "spawn", !.data = NoLock]
      BY <1>4, <2>3 DEF RecordInjection, UpdateLock, WriteLock
    <3>2. ex'.pc = "spawn" /\ ex'.had = ex.had /\ lock'[ex.task] = ex.data
          /\ \A u \in Task : u # ex.task => lock'[u] = lock[u]
      BY <2>1, <3>1 DEF ExRecord
    <3> QED
      BY <1>1, <2>1, <2>3, <3>2 DEF Running, OnlyLock, Noted, Aside, Says
  <2> QED
    BY <1>1, <2>2, <2>3
<1> QED
  BY <1>1, <1>2, <1>3, <1>4, ExecutorFrame

LEMMA RecordGroupRestored ==
  ASSUME Inv, Restored, RecordGroup
  PROVE  Restored'
<1>1. ExecutorStep /\ ex.pc \in {"group", "grouping"}
      /\ UNCHANGED <<claudeMd, backup, pid, claude>>
  BY RecordGroupStep DEF RecordGroup, UpdateLock, WriteLock, Project, Server
<1>2. intact' => intact
  BY DEF RecordGroup, UpdateLock, WriteLock
<1>3. ASSUME intact' PROVE Running' /\ ex'.pc \in {"grouping", "wait"}
  <2>1. /\ Running /\ ex.task \in Task /\ pid \in Pid /\ lock \in [Task -> LockFile]
        /\ ex \in ExRecord /\ ex'.task = ex.task /\ lock[ex.task].there
    BY <1>1, <1>2, <1>3, Undisturbed DEF Inv, TypeOK, ExecutorStep, Running
  <2>2. CASE ex.pc = "group"
    <3> DEFINE l == [lock[ex.task] EXCEPT !.group = TRUE]
    <3>1. lock' = [lock EXCEPT ![ex.task] = Torn]
          /\ ex' = [ex EXCEPT !.pc = "grouping", !.data = l]
      BY <2>1, <2>2 DEF RecordGroup, UpdateLock, WriteLock
    <3>2. l.written = lock[ex.task].written /\ l.backedUp = lock[ex.task].backedUp
          /\ l.pid = lock[ex.task].pid /\ l.there
      BY <2>1 DEF LockFile
    <3>3. /\ ex'.pc = "grouping" /\ ex'.data = l /\ ex'.had = ex.had
          /\ \A u \in Task : u # ex.task => lock'[u] = lock[u]
          /\ lock'[ex.task].there
      BY <2>1, <3>1, LockForms DEF ExRecord
    <3> HIDE DEF l
    <3>4. OnlyLock(ex.task)' /\ lock'[ex.task].there
      BY <1>1, <2>1, <2>2, <3>3 DEF Running, OnlyLock
    <3>5. Noted'
      BY <1>1, <2>1, <2>2, <3>3 DEF Running, Noted, Aside
    <3>6. l.backedUp <=> ex'.had = "yes"
      BY <2>1, <2>2, <3>2, <3>3 DEF Running, Says
    <3>7. Says(ex.data)'
      BY <1>1, <2>1, <2>2, <3>2, <3>3, <3>6 DEF Running, Says
    <3> QED
      BY <2>1, <3>2, <3>3, <3>4, <3>5, <3>7 DEF Running
  <2>3. CASE ex.pc = "grouping"
    <3>1. lock' = [lock EXCEPT ![ex.task] = ex.data]
          /\ ex' = [ex EXCEPT !.pc = "wait", !.data = NoLock]
      BY <1>3, <2>3 DEF RecordGroup, UpdateLock, WriteLock
    <3>2. ex'.pc = "wait" /\ ex'.had = ex.had /\ lock'[ex.task] = ex.data
          /\ \A u \in Task : u # ex.task => lock'[u] = lock[u]
      BY <2>1, <3>1 DEF ExRecord
    <3> QED
      BY <1>1, <2>1, <2>3, <3>2 DEF Running, OnlyLock, Noted, Aside, Says
  <2> QED
    BY <1>1, <2>2, <2>3
<1>4. ClaudeAlone'
  BY <1>1, <1>2, <1>3 DEF Restored, ClaudeAlone, ExecutorStep
<1> QED
  BY <1>1, <1>2, <1>3, <1>4, ExecutorFrame

\* The steps that leave the lock alone and change no more than pc and outcome.
LEMMA SpawnRestored ==
  ASSUME Inv, Restored, Spawn
  PROVE  Restored'
<1>1. ExecutorStep /\ ex.pc = "spawn"
      /\ UNCHANGED <<claudeMd, lock, backup, pid, intact>>
  BY SpawnStep DEF Spawn, Project, Server
<1>2. ex'.pc \in {"group", "unlink"} /\ ex'.had = ex.had
      /\ claude' = IF ex'.pc = "group" THEN claude \cup {ex.task} ELSE claude
  BY DEF Spawn, Goto, Inv, TypeOK, ExRecord
<1>3. ClaudeAlone'
  BY <1>1, <1>2 DEF Restored, ClaudeAlone, ExecutorStep
<1>4. ASSUME intact' PROVE Running'
  BY <1>1, <1>2, <1>4, Undisturbed
     DEF Running, OnlyLock, Noted, Aside, Says, ExecutorStep
<1> QED
  BY <1>1, <1>3, <1>4, ExecutorFrame

LEMMA WaitRestored ==
  ASSUME Inv, Restored, Wait
  PROVE  Restored'
<1>1. ExecutorStep /\ ex.pc = "wait"
      /\ UNCHANGED <<claudeMd, lock, backup, pid, intact>>
  BY WaitStep DEF Wait, Project, Server
<1>2. ex'.pc = "unlink" /\ ex'.had = ex.had /\ claude' = claude \ {ex.task}
  BY DEF Wait, Inv, TypeOK, ExRecord
<1>3. ClaudeAlone'
  BY <1>1, <1>2 DEF Restored, ClaudeAlone
<1>4. ASSUME intact' PROVE Running'
  BY <1>1, <1>2, <1>4, Undisturbed
     DEF Running, OnlyLock, Noted, Aside, Says, ExecutorStep
<1> QED
  BY <1>1, <1>3, <1>4, ExecutorFrame

LEMMA UnlinkRestored ==
  ASSUME Inv, Restored, Unlink
  PROVE  Restored'
<1>1. ExecutorStep /\ ex.pc = "unlink"
      /\ UNCHANGED <<lock, backup, claude, pid, intact>>
  BY UnlinkStep DEF Unlink, Project, Server
<1>2. ex'.pc = "restore" /\ ex'.had = ex.had /\ claudeMd' = "none"
  BY DEF Unlink, Goto, Inv, TypeOK, ExRecord
<1>3. ClaudeAlone'
  BY <1>1 DEF Restored, ClaudeAlone
<1>4. ASSUME intact' PROVE Running'
  BY <1>1, <1>2, <1>4, Undisturbed
     DEF Running, OnlyLock, Noted, Aside, Says, ExecutorStep
<1> QED
  BY <1>1, <1>3, <1>4, ExecutorFrame

LEMMA RestoreRestored ==
  ASSUME Inv, Restored, Restore
  PROVE  Restored'
<1>1. ExecutorStep /\ ex.pc = "restore"
      /\ UNCHANGED <<lock, claude, pid, intact>>
  BY RestoreStep DEF Restore, Project, Server
<1>2. ex'.pc = "release" /\ ex'.had = ex.had
  BY DEF Restore, Goto, Inv, TypeOK, ExRecord
<1>3. ClaudeAlone'
  BY <1>1 DEF Restored, ClaudeAlone
<1>4. ASSUME intact' PROVE Running'
  <2>1. /\ Running /\ ex.task \in Task /\ pid \in Pid /\ ex'.task = ex.task
        /\ Noted /\ Says(lock[ex.task]) /\ claudeMd = "none" /\ OnlyLock(ex.task)
    BY <1>1, <1>4, Undisturbed DEF Running, ExecutorStep
  <2>2. Whole'
    BY <1>1, <2>1 DEF Restore, Noted, Aside, Whole
  <2>3. ex'.had = "yes" \/ Mends(lock[ex.task])'
    BY <1>1, <1>2, <2>1 DEF Noted, Says, Mends
  <2> QED
    BY <1>1, <1>2, <2>1, <2>2, <2>3 DEF Running, OnlyLock
<1> QED
  BY <1>1, <1>3, <1>4, ExecutorFrame

LEMMA ReleaseRestored ==
  ASSUME Inv, Restored, Release
  PROVE  Restored'
<1>1. ExecutorStep /\ ex.pc = "release"
      /\ UNCHANGED <<claudeMd, backup, claude, pid, intact>>
  BY ReleaseStep DEF Release, Project, Server
<1>2. ex'.pc = "finalize"
  BY DEF Release, Goto, Inv, TypeOK, ExRecord
<1>3. ClaudeAlone'
  BY <1>1 DEF Restored, ClaudeAlone
<1>4. ASSUME intact' PROVE Running'
  <2>1. /\ ex.task \in Task /\ lock \in [Task -> LockFile] /\ ex'.task = ex.task
        /\ Whole /\ OnlyLock(ex.task)
    BY <1>1, <1>4, Undisturbed DEF Running, ExecutorStep, Inv, TypeOK
  <2>2. \A u \in Task : ~lock'[u].there
    BY <2>1, LockForms DEF Release, OnlyLock
  <2> QED
    BY <1>1, <1>2, <2>1, <2>2 DEF Running, OnlyLock, Whole
<1> QED
  BY <1>1, <1>3, <1>4, ExecutorFrame

\* A clean-up that raises leaves the rest to nobody.
LEMMA CleanupRaisesRestored ==
  ASSUME Inv, Restored, CleanupRaises
  PROVE  Restored'
  BY DEF CleanupRaises, Restored

LEMMA FinalizeRestored ==
  ASSUME Inv, Restored, Finalize
  PROVE  Restored'
<1>1. /\ ex.pc = "finalize" /\ ex'.pc = "idle"
      /\ UNCHANGED <<claudeMd, backup, lock, pid, claude, rec, intact>>
  BY IdleForm DEF Finalize, Project, Server
<1>2. SUFFICES ASSUME intact'
               PROVE  Running' /\ Mending' /\ Idling' /\ Resting' /\ ClaudeAlone'
  BY DEF Restored
<1>3. /\ Up /\ ~OnceRecovers /\ rec["start"].pc \notin AtWork /\ Running /\ claude = {}
  BY <1>1, <1>2, Undisturbed
<1>4. NoLocks /\ Whole
  BY <1>1, <1>3 DEF Running, OnlyLock, NoLocks
<1> QED
  BY <1>1, <1>3, <1>4
     DEF Running, Mending, Idling, Resting, ClaudeAlone, Left, NoLocks, Whole, Up,
         OnceRecovers, AtWork, AtLock

\* The steps that touch neither the project nor a lock.
LEMMA WorldRestored ==
  ASSUME Inv, Restored,
         UNCHANGED <<claudeMd, backup, lock, pid, ex, rec, intact>>,
         claude' \subseteq claude
  PROVE  Restored'
<1>1. SUFFICES ASSUME intact'
               PROVE  Running' /\ Mending' /\ Idling' /\ Resting' /\ ClaudeAlone'
  BY DEF Restored
<1>2. ClaudeAlone'
  BY <1>1 DEF Restored, ClaudeAlone
<1>3. Running'
  BY <1>1 DEF Restored, Running, Whole, Aside, Mends, OnlyLock, Says, Noted
<1>4. Mending' /\ Idling' /\ Resting'
  BY <1>1 DEF Restored, Mending, Idling, Resting, Whole, Aside, Mends, OnlyLock,
     NoLocks, Left, Still, OnceRecovers, Up
<1> QED
  BY <1>2, <1>3, <1>4

-----------------------------------------------------------------------------
(* Recovery *)

\* A start's recovery that is at its work has Mending to keep, or Resting if
\* this is its last step.
LEMMA MendingFrame ==
  ASSUME Inv, Restored, RecoveryStep("start"), intact' => intact,
         rec["start"].pc \in AtWork,
         intact' => /\ rec'["start"].pc \in AtWork \cup {"check"}
                    /\ Mending'
                    /\ rec'["start"].pc = "check" => NoLocks' /\ Whole'
  PROVE  Restored'
<1>1. SUFFICES ASSUME intact' PROVE Running' /\ Idling' /\ Resting' /\ ClaudeAlone'
  BY DEF Restored
<1>2. /\ Still /\ ex' = ex /\ pid' = pid /\ claude' = claude
      /\ rec'["once"] = rec["once"] /\ intact
  BY <1>1, Recoverers DEF Restored, Mending, RecoveryStep
<1>3. claude = {}
  BY <1>2, Unaccompanied DEF Still
<1> QED
  BY <1>1, <1>2, <1>3
     DEF Running, Idling, Resting, ClaudeAlone, Still, OnceRecovers, RecoveryStep, Up,
         AtWork, AtLock

\* One of run-once finds nothing.
LEMMA IdlingFrame ==
  ASSUME Inv, Restored, RecoveryStep("once"), intact' => intact, OnceRecovers,
         intact' => UNCHANGED <<claudeMd, backup, lock>>,
         intact' => /\ rec'["once"].pc \in {"scan", "next", "orphans", "done"}
                    /\ rec'["once"].pc = "next" => rec'["once"].stale = {}
  PROVE  Restored'
<1>1. SUFFICES ASSUME intact'
               PROVE  Running' /\ Mending' /\ Idling' /\ Resting' /\ ClaudeAlone'
  BY DEF Restored
<1>2. /\ ex' = ex /\ pid' = pid /\ claude' = claude /\ ex.pc = "idle"
      /\ rec'["start"] = rec["start"] /\ intact
      /\ UNCHANGED <<claudeMd, backup, lock>>
  BY <1>1, Recoverers DEF RecoveryStep
<1>3. claude = {} /\ NoLocks /\ Whole /\ rec["start"].pc \notin AtWork
  BY <1>2, Unaccompanied DEF Restored, Idling, Mending, Still
<1>4. NoLocks' /\ Whole'
  BY <1>2, <1>3 DEF NoLocks, Whole
<1>5. Left'
  BY <1>4 DEF Left, NoLocks
<1> QED
  BY <1>1, <1>2, <1>3, <1>4, <1>5
     DEF Running, Mending, Idling, Resting, ClaudeAlone, OnceRecovers, AtWork, AtLock

LEMMA ScanRestored ==
  ASSUME Inv, Restored, NEW r \in Recoverer, Up, Scan(r)
  PROVE  Restored'
<1>1. PICK alien \in SUBSET (IF ReusePid THEN Pid ELSE {}) :
        LET stale == {t \in Task : IsStale(lock[t], alien)}
        IN /\ rec[r].pc = "scan"
           /\ Put(r, [NoRecovery EXCEPT
                    !.pc = "next", !.stale = stale, !.seen = stale,
                    !.read = [t \in Task |-> IF t \in stale THEN lock[t] ELSE NoLock]])
           /\ intact' = (intact /\ \A t \in Task :
                                     lock[t].there => t \in stale \/ t = ex.task)
           /\ UNCHANGED <<bucket, Project, lock, Server, raised, claude, ex>>
  BY DEF Scan
<1> DEFINE stale == {t \in Task : IsStale(lock[t], alien)}
           s == [NoRecovery EXCEPT
                    !.pc = "next", !.stale = stale, !.seen = stale,
                    !.read = [t \in Task |-> IF t \in stale THEN lock[t] ELSE NoLock]]
<1>2. /\ s.pc = "next" /\ s.stale = stale
      /\ \A t \in stale : s.read[t] = lock[t]
  BY DEF NoRecovery
<1>3. \A t \in stale : t \in Task /\ lock[t].there
  BY DEF IsStale
<1>4. /\ rec[r].pc = "scan" /\ rec' = [rec EXCEPT ![r] = s]
      /\ intact' => intact /\ \A t \in Task : lock[t].there => t \in stale \/ t = ex.task
      /\ UNCHANGED <<claudeMd, backup, lock, ex>>
  BY <1>1 DEF Put, Project
<1> HIDE DEF s, stale
<1>5. rec'[r] = s
  BY <1>4 DEF Inv, TypeOK
<1>6. RecoveryStep(r)
  BY ScanInv
<1>7. CASE r = "start"
  <2>1. ASSUME intact' PROVE Mending'
    <3>1. Left /\ Still /\ intact
      BY <1>4, <1>7, <2>1 DEF Restored, Mending, AtWork
    <3>2. \A t \in Task : lock[t].there <=> t \in stale
      BY <1>3, <1>4, <2>1, <3>1, Workers, ExecutionAssumption DEF Still
    <3>3. Left'
      BY <1>4, <3>1 DEF Left, NoLocks, Mends, Whole, Aside
    <3>4. Still'
      BY <1>6, <1>7, <3>1, Recoverers DEF RecoveryStep, Still, OnceRecovers
    <3> QED
      BY <1>2, <1>4, <1>5, <1>7, <3>2, <3>3, <3>4 DEF Mending, AtLock
  <2> QED
    BY <1>2, <1>4, <1>5, <1>6, <1>7, <2>1, MendingFrame DEF AtWork
<1>8. CASE r = "once"
  <2>1. ASSUME intact' PROVE stale = {}
    BY <1>3, <1>4, <1>8, <2>1 DEF Restored, Idling, OnceRecovers, NoLocks
  <2> QED
    BY <1>2, <1>4, <1>5, <1>6, <1>8, <2>1, IdlingFrame DEF OnceRecovers
<1> QED
  BY <1>7, <1>8, Recoverers

LEMMA NextStaleRestored ==
  ASSUME Inv, Restored, NEW r \in Recoverer, Up, NextStale(r)
  PROVE  Restored'
<1>1. /\ rec[r].pc = "next" /\ rec[r] \in RecRecord
      /\ UNCHANGED <<claudeMd, backup, lock, intact>>
      /\ RecoveryStep(r)
  BY NextStaleInv DEF NextStale, Project, Inv, TypeOK
<1>2. CASE r = "start"
  <2>1. SUFFICES ASSUME intact' PROVE rec'[r].pc \in AtWork /\ Mending'
    BY <1>1, <1>2, MendingFrame DEF AtWork, AtLock
  <2>2. /\ Left /\ Still
        /\ \A t \in Task : lock[t].there <=> t \in rec[r].stale
        /\ \A t \in rec[r].stale : rec[r].read[t] = lock[t]
    BY <1>1, <1>2, <2>1 DEF Restored, Mending, AtWork
  <2>3. Still'
    BY <1>1, <1>2, <2>2, Recoverers DEF RecoveryStep, Still, OnceRecovers
  <2>4. ASSUME NEW t \in rec[r].stale,
               Put(r, [rec[r] EXCEPT !.stale = @ \ {t}, !.cur = t, !.pc =
                          IF rec[r].read[t].written THEN "unlink" ELSE "move"])
        PROVE  rec'[r].pc \in AtWork /\ Mending'
    <3>1. /\ t \in Task /\ rec'[r].cur = t /\ rec'[r].read = rec[r].read
          /\ rec'[r].stale = rec[r].stale \ {t}
          /\ rec'[r].pc = IF lock[t].written THEN "unlink" ELSE "move"
      BY <1>1, <2>2, <2>4 DEF RecRecord, Put, Inv, TypeOK
    <3>2. lock[t].there /\ OnlyLock(t) /\ rec'[r].stale = {} /\ Mends(lock[t])
      BY <1>1, <2>2, <3>1 DEF Left, OnlyLock, RecRecord
    <3>3. ~lock[t].written => Whole
      BY <3>2 DEF Mends
    <3>4. Mends(lock[t])' /\ OnlyLock(t)' /\ (~lock[t].written => Whole')
      BY <1>1, <3>2, <3>3 DEF Mends, Aside, Whole, OnlyLock
    <3> QED
      BY <1>1, <1>2, <2>2, <2>3, <3>1, <3>2, <3>4 DEF Mending, AtWork, AtLock, OnlyLock
  <2>5. CASE rec[r].stale = {} /\ ListOrphans(r)
    <3>1. rec'[r].pc = "orphans"
      BY <2>5 DEF ListOrphans, Put, NoRecovery, Inv, TypeOK
    <3>2. NoLocks' /\ Whole'
      BY <1>1, <2>2, <2>5 DEF Left, NoLocks, Whole
    <3> QED
      BY <1>2, <2>3, <3>1, <3>2 DEF Mending, AtWork, AtLock
  <2> QED
    BY <2>4, <2>5 DEF NextStale
<1>3. CASE r = "once"
  <2>1. ASSUME intact' PROVE rec'[r].pc = "orphans"
    <3>1. rec[r].stale = {}
      BY <1>1, <1>3, <2>1 DEF Restored, Idling, OnceRecovers
    <3>2. ListOrphans(r)
      BY <3>1 DEF NextStale
    <3> QED
      BY <3>2 DEF ListOrphans, Put, NoRecovery, Inv, TypeOK
  <2> QED
    BY <1>1, <1>3, <2>1, IdlingFrame DEF OnceRecovers
<1> QED
  BY <1>2, <1>3, Recoverers

\* At a lock there is nobody but a start's recovery.
LEMMA AtLockStart ==
  ASSUME Inv, Restored, intact, NEW r \in Recoverer, rec[r].pc \in AtLock
  PROVE  r = "start" /\ Mending /\ rec[r] \in RecRecord /\ rec[r].cur \in Task
  BY Recoverers
     DEF Restored, Idling, OnceRecovers, AtLock, Inv, TypeOK, RecRecord, Cursor

LEMMA RecoverUnlinkRestored ==
  ASSUME Inv, Restored, NEW r \in Recoverer, Up, RecoverUnlink(r)
  PROVE  Restored'
<1>1. /\ rec[r].pc = "unlink" /\ RecoveryStep(r) /\ UNCHANGED <<backup, lock>>
      /\ rec[r].pc \in AtLock
  BY CleanUpInv DEF RecoverUnlink, AtLock
<1>11. intact' => intact
  BY DEF RecoverUnlink
<1>2. SUFFICES ASSUME intact' PROVE Restored'
  BY DEF Restored
<1>3. intact /\ r = "start" /\ Mending /\ rec[r] \in RecRecord
  BY <1>1, <1>11, <1>2, AtLockStart DEF RecoverUnlink
<1>4. /\ claudeMd' = "none" /\ rec'[r].pc = "restore" /\ rec'[r].cur = rec[r].cur
      /\ rec'[r].stale = rec[r].stale /\ rec'[r].read = rec[r].read
  BY <1>2, <1>3 DEF RecoverUnlink, Put, RecRecord, Inv, TypeOK
<1>5. Still'
  BY <1>1, <1>3, Recoverers
     DEF Mending, AtWork, AtLock, Still, OnceRecovers, RecoveryStep
<1>6. Mending'
  BY <1>1, <1>3, <1>4, <1>5 DEF Mending, AtLock, OnlyLock, Mends, Aside
<1> QED
  BY <1>1, <1>3, <1>4, <1>6, MendingFrame DEF AtWork, AtLock

LEMMA RecoverRestoreRestored ==
  ASSUME Inv, Restored, NEW r \in Recoverer, Up, RecoverRestore(r)
  PROVE  Restored'
<1>1. /\ rec[r].pc = "restore" /\ RecoveryStep(r) /\ lock' = lock
      /\ rec[r].pc \in AtLock
  BY CleanUpInv DEF RecoverRestore, AtLock
<1>2. SUFFICES ASSUME intact' PROVE Restored'
  BY DEF Restored
<1>3. intact
  BY <1>2 DEF RecoverRestore
<1>4. r = "start" /\ Mending /\ rec[r] \in RecRecord
  BY <1>1, <1>3, AtLockStart
<1> DEFINE l == lock[rec[r].cur]
<1>5. /\ rec'[r].pc = "move" /\ rec'[r].cur = rec[r].cur
      /\ rec'[r].stale = rec[r].stale /\ rec'[r].read = rec[r].read
  BY <1>4 DEF RecoverRestore, Put, RecRecord, Inv, TypeOK
<1>6. Still'
  BY <1>1, <1>4, Recoverers
     DEF Mending, AtWork, AtLock, Still, OnceRecovers, RecoveryStep
<1>7. /\ OnlyLock(rec[r].cur) /\ rec[r].stale = {} /\ l.there /\ rec[r].read[rec[r].cur] = l
      /\ l.written /\ Mends(l) /\ claudeMd = "none"
  BY <1>1, <1>4 DEF Mending
<1>8. Whole' /\ (l.backedUp \/ Mends(l)')
  <2>1. CASE l.backedUp
    <3>1. Aside(l.pid)
      BY <1>7, <2>1 DEF Mends
    <3>2. claudeMd' = "user"
      BY <1>2, <1>7, <2>1, <3>1 DEF RecoverRestore, Aside
    <3> QED
      BY <2>1, <3>1, <3>2 DEF Whole, Aside
  <2>2. CASE ~l.backedUp
    BY <1>1, <1>5, <1>7, <2>2 DEF RecoverRestore, Mends, Whole
  <2> QED
    BY <2>1, <2>2
<1>9. Mending'
  BY <1>1, <1>4, <1>5, <1>6, <1>7, <1>8 DEF Mending, AtLock, OnlyLock
<1> QED
  BY <1>1, <1>3, <1>4, <1>5, <1>9, MendingFrame DEF AtWork, AtLock

LEMMA RecoverMoveRestored ==
  ASSUME Inv, Restored, NEW r \in Recoverer, Up, RecoverMove(r)
  PROVE  Restored'
<1>1. /\ rec[r].pc = "move" /\ RecoveryStep(r) /\ rec[r].pc \in AtLock
      /\ UNCHANGED <<claudeMd, backup, lock, intact>>
  BY RecoverMoveInv DEF RecoverMove, AtLock, Project
<1>2. SUFFICES ASSUME intact' PROVE Restored'
  BY DEF Restored
<1>3. r = "start" /\ Mending /\ rec[r] \in RecRecord
  BY <1>1, <1>2, AtLockStart
<1>4. /\ rec'[r].pc = "release" /\ rec'[r].cur = rec[r].cur
      /\ rec'[r].stale = rec[r].stale /\ rec'[r].read = rec[r].read
  BY <1>3 DEF RecoverMove, Put, RecRecord, Inv, TypeOK
<1>5. Still'
  BY <1>1, <1>3, Recoverers
     DEF Mending, AtWork, AtLock, Still, OnceRecovers, RecoveryStep
<1>6. Mending'
  BY <1>1, <1>3, <1>4, <1>5 DEF Mending, AtLock, OnlyLock, Mends, Aside, Whole
<1> QED
  BY <1>1, <1>3, <1>4, <1>6, MendingFrame DEF AtWork, AtLock

LEMMA RecoverReleaseRestored ==
  ASSUME Inv, Restored, NEW r \in Recoverer, Up, RecoverRelease(r)
  PROVE  Restored'
<1>1. /\ rec[r].pc = "release" /\ RecoveryStep(r) /\ rec[r].pc \in AtLock
      /\ UNCHANGED <<claudeMd, backup, intact>>
      /\ lock' = [lock EXCEPT ![rec[r].cur] = NoLock]
  BY RecoverReleaseInv DEF RecoverRelease, AtLock, Project
<1>2. SUFFICES ASSUME intact' PROVE Restored'
  BY DEF Restored
<1>3. r = "start" /\ Mending /\ rec[r] \in RecRecord
  BY <1>1, <1>2, AtLockStart
<1>4. rec'[r].pc = "next" /\ rec'[r].stale = rec[r].stale
  BY <1>3 DEF RecoverRelease, Put, RecRecord, Inv, TypeOK
<1>5. Still'
  BY <1>1, <1>3, Recoverers
     DEF Mending, AtWork, AtLock, Still, OnceRecovers, RecoveryStep
<1>6. OnlyLock(rec[r].cur) /\ rec[r].stale = {} /\ Whole
  BY <1>1, <1>3 DEF Mending
<1>7. NoLocks' /\ Whole'
  BY <1>1, <1>6, LockForms DEF OnlyLock, NoLocks, Whole, Inv, TypeOK
<1>8. Left'
  BY <1>7 DEF Left, NoLocks
<1>9. Mending'
  BY <1>3, <1>4, <1>5, <1>6, <1>7, <1>8 DEF Mending, AtLock, NoLocks
<1> QED
  BY <1>1, <1>3, <1>4, <1>9, MendingFrame DEF AtWork, AtLock

LEMMA RecoverOrphansRestored ==
  ASSUME Inv, Restored, NEW r \in Recoverer, Up, RecoverOrphans(r)
  PROVE  Restored'
<1>1. /\ rec[r].pc = "orphans" /\ RecoveryStep(r) /\ rec[r] \in RecRecord
      /\ UNCHANGED <<claudeMd, backup, lock, intact>>
  BY RecoverOrphansInv DEF RecoverOrphans, Project, Inv, TypeOK
<1>2. rec'[r].pc \in {"orphans", IF r = "start" THEN "check" ELSE "done"}
  <2>1. CASE Put(r, [NoRecovery EXCEPT !.pc = IF r = "start" THEN "check" ELSE "done"])
    BY <2>1, AtForm DEF Put, Inv, TypeOK, RecPosition
  <2>2. ASSUME NEW t \in rec[r].stale, Put(r, [rec[r] EXCEPT !.stale = @ \ {t}])
        PROVE  rec'[r].pc = "orphans"
    BY <1>1, <2>2 DEF Put, Inv, TypeOK, RecRecord
  <2> QED
    BY <2>1, <2>2 DEF RecoverOrphans
<1>3. CASE r = "start"
  <2>1. ASSUME intact' PROVE Mending' /\ NoLocks' /\ Whole'
    <3>1. NoLocks /\ Whole /\ Still
      BY <1>1, <1>3, <2>1 DEF Restored, Mending, AtWork
    <3>2. Still' /\ NoLocks' /\ Whole'
      BY <1>1, <1>3, <3>1, Recoverers
         DEF Still, OnceRecovers, RecoveryStep, NoLocks, Whole
    <3> QED
      BY <1>2, <1>3, <3>2 DEF Mending, AtLock
  <2> QED
    BY <1>1, <1>2, <1>3, <2>1, MendingFrame DEF AtWork
<1>4. CASE r = "once"
  BY <1>1, <1>2, <1>4, IdlingFrame DEF OnceRecovers
<1> QED
  BY <1>3, <1>4, Recoverers

\* The runner enters its loop.
LEMMA EnterLoopRestored ==
  ASSUME Inv, Restored, Up, EnterLoop
  PROVE  Restored'
<1>1. /\ rec["start"].pc = "check" /\ RecoveryStep("start")
      /\ UNCHANGED <<claudeMd, backup, lock, intact, ex, pid, claude>>
      /\ rec'["start"].pc = "done" /\ rec'["once"] = rec["once"]
  BY JumpsInv, IdleForm, Recoverers
     DEF EnterLoop, Project, Server, Put, Inv, TypeOK
<1>2. SUFFICES ASSUME intact'
               PROVE  Running' /\ Mending' /\ Idling' /\ Resting' /\ ClaudeAlone'
  BY DEF Restored
<1>3. Running' /\ ClaudeAlone'
  BY <1>1, <1>2 DEF Restored, Running, ClaudeAlone, Whole, Aside, Mends, OnlyLock, Says,
     Noted
<1>4. Idling' /\ Resting'
  BY <1>1, <1>2 DEF Restored, Idling, Resting, NoLocks, Whole, Still, OnceRecovers, Up
<1> QED
  BY <1>1, <1>3, <1>4 DEF Mending, AtWork, AtLock

\* A start's recovery that fails leaves what the next can mend, unless it has
\* already put an original back.
LEMMA StartFailsRestored ==
  ASSUME Inv, Restored, RunnerFails("start")
  PROVE  Restored'
<1>1. /\ rec["start"].pc \in {"scan", "release", "check"} /\ Up
      /\ rec'["start"].pc = "failed" /\ rec'["once"] = rec["once"]
      /\ UNCHANGED <<claudeMd, backup, lock, pid, claude, ex>>
  BY AtForm, Recoverers
     DEF RunnerFails, Put, Project, Server, Inv, TypeOK, RecPosition
<1>2. SUFFICES ASSUME intact'
               PROVE  Running' /\ Mending' /\ Idling' /\ Resting' /\ ClaudeAlone'
  BY DEF Restored
<1>3. /\ intact
      /\ rec["start"].pc = "release" => ~rec["start"].read[rec["start"].cur].written
  BY <1>2 DEF RunnerFails
<1>4. Running' /\ ClaudeAlone'
  BY <1>1, <1>3 DEF Restored, Running, ClaudeAlone, Whole, Aside, Mends, OnlyLock, Says,
     Noted
<1>5. Idling'
  BY <1>1, <1>3 DEF Restored, Idling, NoLocks, Whole, OnceRecovers
<1>6. Mending'
  BY <1>1 DEF Mending, AtWork, AtLock
<1>7. ASSUME Still PROVE Left
  <2>1. CASE rec["start"].pc = "scan"
    BY <1>3, <2>1 DEF Restored, Mending
  <2>2. CASE rec["start"].pc = "release"
    <3> DEFINE c == rec["start"].cur
    <3>1. /\ OnlyLock(c) /\ lock[c].there /\ ~lock[c].written /\ Whole
          /\ Mends(lock[c]) /\ c \in Task
      BY <1>3, <2>2, AtLockStart, Recoverers DEF Mending, AtLock
    <3> QED
      BY <3>1 DEF Left, OnlyLock
  <2>3. CASE rec["start"].pc = "check"
    BY <1>1, <1>3, <1>7, <2>3 DEF Restored, Resting, Left, NoLocks
  <2> QED
    BY <1>1, <2>1, <2>2, <2>3
<1>8. Still' => Left'
  BY <1>1, <1>7 DEF Still, OnceRecovers, Left, NoLocks, Whole, Mends, Aside
<1>9. Resting'
  BY <1>1, <1>8 DEF Resting
<1> QED
  BY <1>4, <1>5, <1>6, <1>9

LEMMA OnceFailsRestored ==
  ASSUME Inv, Restored, RunnerFails("once")
  PROVE  Restored'
<1>1. /\ RecoveryStep("once") /\ rec'["once"].pc = "done" /\ OnceRecovers
      /\ UNCHANGED <<claudeMd, backup, lock>>
      /\ intact' => intact
  BY JumpsInv, AtForm, Recoverers
     DEF RunnerFails, Put, Project, OnceRecovers, Inv, TypeOK, RecPosition
<1> QED
  BY <1>1, IdlingFrame

\* Started again, it mends what it has left, if nobody is there.
LEMMA RunnerAgainRestored ==
  ASSUME Inv, Restored, RunnerAgain
  PROVE  Restored'
<1>1. /\ rec["start"].pc = "failed" /\ rec'["start"].pc = "scan" /\ Up
      /\ rec'["once"] = rec["once"]
      /\ UNCHANGED <<claudeMd, backup, lock, pid, claude, ex>>
  BY AtForm, Recoverers
     DEF RunnerAgain, Put, Project, Server, Inv, TypeOK, RecPosition
<1>2. SUFFICES ASSUME intact'
               PROVE  Running' /\ Mending' /\ Idling' /\ Resting' /\ ClaudeAlone'
  BY DEF Restored
<1>3. Still /\ Left /\ intact
  BY <1>1, <1>2 DEF RunnerAgain, Still, Restored, Resting
<1>4. Still' /\ Left'
  BY <1>1, <1>3 DEF Still, OnceRecovers, Left, NoLocks, Whole, Mends, Aside
<1>5. Mending'
  BY <1>1, <1>4 DEF Mending, AtLock
<1>6. claude = {}
  BY <1>3, Unaccompanied DEF Still
<1> QED
  BY <1>1, <1>4, <1>5, <1>6 DEF Running, Idling, Resting, ClaudeAlone, Still, Up

LEMMA RunOnceRestored ==
  ASSUME Inv, Restored, RunOnce
  PROVE  Restored'
<1>1. /\ ex.pc = "idle" /\ ~OnceRecovers /\ Up /\ rec'["once"].pc = "scan"
      /\ rec'["start"] = rec["start"]
      /\ UNCHANGED <<claudeMd, backup, lock, pid, claude, ex>>
  BY AtForm, Recoverers
     DEF RunOnce, Put, Project, Server, Inv, TypeOK, RecPosition
<1>2. SUFFICES ASSUME intact'
               PROVE  Running' /\ Mending' /\ Idling' /\ Resting' /\ ClaudeAlone'
  BY DEF Restored
<1>3. intact /\ ~StartRecovers
  BY <1>2 DEF RunOnce, Recovering
<1>4. NoLocks /\ Whole /\ claude = {}
  BY <1>1, <1>3, Unaccompanied DEF Restored, Resting, Still, StartRecovers
<1>5. NoLocks' /\ Whole' /\ ~Still'
  BY <1>1, <1>4 DEF NoLocks, Whole, Still, OnceRecovers
<1> QED
  BY <1>1, <1>3, <1>4, <1>5
     DEF Running, Mending, Idling, Resting, ClaudeAlone, StartRecovers, AtWork, AtLock

-----------------------------------------------------------------------------
(* The server *)

\* Whenever the server dies, outside the windows of Unrepairable, the lock it
\* leaves is one that recovery puts right.
LEMMA CrashRestored ==
  ASSUME Inv, Restored, Crash
  PROVE  Restored'
<1>1. /\ ex'.pc = "idle" /\ rec'["start"].pc = "done" /\ rec'["once"].pc = "done"
      /\ claude' = {} /\ ~Up' /\ Up /\ UNCHANGED <<claudeMd, backup, lock>>
  BY IdleForm, Recoverers DEF Crash, Up, Project
<1>2. SUFFICES ASSUME intact' PROVE Left
  BY <1>1 DEF Restored, ClaudeAlone, Running, Mending, Idling, Resting, OnceRecovers,
     Left, NoLocks, Whole, Mends, Aside, AtWork, AtLock
<1>3. intact /\ ~Unrepairable
  BY <1>2 DEF Crash
<1>4. CASE ex.pc # "idle"
  <2>1. Running /\ ex.task \in Task /\ ex.pc \in Position
    BY <1>3, <1>4, Undisturbed DEF Inv, TypeOK, ExRecord
  <2>2. OnlyLock(ex.task)
    BY <1>4, <2>1 DEF Running
  <2>3. lock[ex.task].there => Mends(lock[ex.task])
    <3>1. CASE ex.pc \in {"acquire", "finalize"}
      BY <1>4, <2>1, <3>1 DEF Running
    <3>2. CASE ex.pc \in {"acquiring", "build", "inject"}
      BY <1>3, <2>1, <3>2 DEF Running, Unrepairable, Mends, Whole
    <3>3. CASE ex.pc \in {"spawn", "group", "wait", "unlink", "restore"}
      BY <2>1, <3>3 DEF Running, Says, Noted, Mends
    <3>4. CASE ex.pc = "release"
      BY <1>3, <2>1, <3>4 DEF Running, Unrepairable
    <3> QED
      BY <1>3, <1>4, <2>1, <3>1, <3>2, <3>3, <3>4 DEF Position, Unrepairable
  <2>4. ~lock[ex.task].there => Whole
    BY <1>4, <2>1 DEF Running
  <2> QED
    BY <2>1, <2>2, <2>3, <2>4 DEF Left, OnlyLock, NoLocks
<1>5. CASE rec["start"].pc \in AtWork
  <2>1. Mending
    BY <1>3 DEF Restored
  <2>2. CASE rec["start"].pc \in {"scan", "next"}
    BY <2>1, <2>2 DEF Mending
  <2>3. CASE rec["start"].pc \in AtLock
    <3>1. /\ OnlyLock(rec["start"].cur) /\ lock[rec["start"].cur].there
          /\ rec["start"].cur \in Task
          /\ rec["start"].read[rec["start"].cur] = lock[rec["start"].cur]
      BY <1>3, <2>1, <2>3, AtLockStart, Recoverers DEF Mending
    <3>2. Mends(lock[rec["start"].cur])
      BY <1>3, <2>1, <2>3, <3>1, Recoverers DEF Mending, Unrepairable, AtLock
    <3> QED
      BY <3>1, <3>2 DEF Left, OnlyLock, NoLocks
  <2>4. CASE rec["start"].pc = "orphans"
    BY <2>1, <2>4 DEF Mending, Left, NoLocks
  <2> QED
    BY <1>5, <2>2, <2>3, <2>4 DEF AtWork
<1>6. CASE OnceRecovers
  BY <1>3, <1>6 DEF Restored, Idling, Left, NoLocks
<1>7. CASE Still /\ rec["start"].pc \notin AtWork
  <2>1. rec["start"].pc \in {"failed", "check", "done"}
    BY <1>7, Recoverers DEF Inv, TypeOK, RecRecord, RecPosition, AtWork, AtLock
  <2> QED
    BY <1>1, <1>3, <1>7, <2>1 DEF Restored, Resting, Left, NoLocks
<1> QED
  BY <1>4, <1>5, <1>6, <1>7 DEF Still

LEMMA StartRestored ==
  ASSUME Inv, Restored, NEW p \in Pid, Start(p)
  PROVE  Restored'
<1>1. /\ ~Up /\ Up' /\ rec'["start"].pc = "scan" /\ rec'["once"] = rec["once"]
      /\ UNCHANGED <<claudeMd, backup, lock, claude, ex, intact>>
  BY AtForm, Recoverers, ExecutionAssumption
     DEF Start, Project, Inv, TypeOK, Up, RecPosition
<1>2. ex.pc = "idle" /\ ~OnceRecovers
  BY <1>1, Recoverers DEF Inv, Alive, OnceRecovers
<1>3. SUFFICES ASSUME intact'
               PROVE  Running' /\ Mending' /\ Idling' /\ Resting' /\ ClaudeAlone'
  BY DEF Restored
<1>4. Left /\ claude = {}
  BY <1>1, <1>2, <1>3, Unaccompanied DEF Restored, Resting, Still
<1>5. Left' /\ Still'
  BY <1>1, <1>2, <1>4 DEF Left, NoLocks, Whole, Mends, Aside, Still, OnceRecovers
<1>6. Mending'
  BY <1>1, <1>5 DEF Mending, AtLock
<1> QED
  BY <1>1, <1>4, <1>5, <1>6 DEF Running, Idling, Resting, ClaudeAlone, Still

\* Every step keeps it.
LEMMA NextRestored ==
  ASSUME Inv, Restored, [Next]_vars
  PROVE  Restored'
<1>1. ASSUME NEW t \in Task, Begin(t) PROVE Restored'
  BY <1>1, BeginRestored
<1>2. ASSUME NEW t \in Task,
             \/ Cancel(t) \/ ClaudeExits(t) \/ Retry(t) \/ Unfinish(t)
             \/ BeginAlone(t) \/ Settle(t) \/ Remove(t)
      PROVE Restored'
  BY <1>2, WorldRestored DEF Cancel, ClaudeExits, Retry, Unfinish, BeginAlone, Settle,
     Remove, ByHand, Project, Server
<1>3. CASE Execution
  BY <1>3, AcquireLockRestored, BuildAndBackUpRestored, InjectRestored,
     RecordInjectionRestored, SpawnRestored, RecordGroupRestored, WaitRestored,
     UnlinkRestored, RestoreRestored, CleanupRaisesRestored, ReleaseRestored,
     FinalizeRestored
     DEF Execution
<1>4. ASSUME NEW r \in Recoverer, RecoveryOf(r) PROVE Restored'
  BY <1>4, ScanRestored, NextStaleRestored, RecoverUnlinkRestored,
     RecoverRestoreRestored, RecoverMoveRestored, RecoverReleaseRestored,
     RecoverOrphansRestored, EnterLoopRestored DEF RecoveryOf
<1>5. ASSUME NEW r \in Recoverer, RunnerFails(r) PROVE Restored'
  BY <1>5, StartFailsRestored, OnceFailsRestored, Recoverers
<1>6. CASE RunnerAgain \/ RunOnce
  BY <1>6, RunnerAgainRestored, RunOnceRestored
<1>7. CASE Crash
  BY <1>7, CrashRestored
<1>8. ASSUME NEW p \in Pid, Start(p) PROVE Restored'
  BY <1>8, StartRestored
<1>9. CASE UNCHANGED vars
  BY <1>9, WorldRestored DEF vars
<1> QED
  BY <1>1, <1>2, <1>3, <1>4, <1>5, <1>6, <1>7, <1>8, <1>9 DEF Next

LEMMA RestoredHolds == Spec => []Restored
<1>1. Init => Restored
  BY InitRestored
<1>2. Inv /\ Restored /\ [Next]_vars => Restored'
  BY NextRestored
<1> QED
  BY <1>1, <1>2, InvHolds, PTL DEF Spec

-----------------------------------------------------------------------------
(* What follows *)

\* Through injection, restore, deaths, failures of the runner and recoveries
\* the user's CLAUDE.md is in place or in the backup of some process, until
\* something that clears intact.
THEOREM OriginalsKept == Spec => []OriginalKept
<1>1. Inv /\ Restored => OriginalKept
  <2> SUFFICES ASSUME Inv, Restored, intact, HadUser PROVE OriginalNeverLost
    BY DEF OriginalKept, OriginalNeverLost
  <2>1. ASSUME Whole \/ \E p : Aside(p) PROVE OriginalNeverLost
    BY <2>1 DEF Whole, Aside, OriginalNeverLost
  <2>2. ASSUME Left PROVE OriginalNeverLost
    BY <2>1, <2>2 DEF Left, NoLocks, Mends
  <2>3. CASE ex.pc # "idle"
    <3>1. Running /\ ex.pc \in Position
      BY <2>3, Undisturbed DEF Inv, TypeOK, ExRecord
    <3>2. (ex.pc \in {"acquire", "acquiring", "build", "release", "finalize"} => Whole)
          /\ (ex.pc \in Position \ {"idle", "acquire", "acquiring", "build",
                                    "release", "finalize"} => Aside(pid))
      BY <2>3, <3>1 DEF Running, Noted, Position
    <3> QED
      BY <2>1, <2>3, <3>1, <3>2
  <2>4. CASE rec["start"].pc \in AtWork
    <3>1. rec["start"].pc \in {"unlink", "restore"} => \E p : Aside(p)
      BY DEF Restored, Mending, Mends
    <3> QED
      BY <2>1, <2>2, <2>4, <3>1 DEF Restored, Mending, AtWork, AtLock
  <2>5. CASE OnceRecovers
    BY <2>1, <2>5 DEF Restored, Idling
  <2>6. CASE Still /\ rec["start"].pc \notin AtWork
    <3>1. rec["start"].pc \in {"failed", "check", "done"}
      BY <2>6, Recoverers DEF Inv, TypeOK, RecRecord, RecPosition, AtWork, AtLock
    <3> QED
      BY <2>1, <2>2, <2>6, <3>1 DEF Restored, Resting
  <2> QED
    BY <2>3, <2>4, <2>5, <2>6 DEF Still
<1> QED
  BY <1>1, InvHolds, RestoredHolds, PTL

\* After every run and every recovery, whatever they met, the project has the
\* CLAUDE.md its user left there, and no lock file is left, until something
\* that clears intact.
THEOREM ProjectsRestored == Spec => []ProjectRestored
<1>1. Restored => ProjectRestored
  BY DEF Restored, Resting, ProjectRestored, Whole, NoLocks, Quiet, Recovering, Still,
     StartRecovers
<1> QED
  BY <1>1, RestoredHolds, PTL

\* A server never leaves one claude running while it starts or waits for
\* another, until something that clears intact.
THEOREM ClaudesAlone == Spec => []ClaudeAlone
<1>1. Restored => ClaudeAlone
  BY DEF Restored, ClaudeAlone
<1> QED
  BY <1>1, RestoredHolds, PTL
==============================================================================
