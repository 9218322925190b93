-------------------------- MODULE TaskFilesProofs --------------------------
(***************************************************************************)
(* Theorems about TaskFiles, for any number of tasks, clients, processes   *)
(* and edits.                                                              *)
(*                                                                         *)
(* TypeCorrect holds of every instance.  OneCopyLocked, NeverLostLocked    *)
(* and EditsDurableLocked hold where PENDING_MUTATION_LOCK is all there    *)
(* is: one process whose clients create, start, run, edit and shelve       *)
(* tasks, with crashes (MCTaskFilesLocked is a small instance).            *)
(* MCTaskFilesRetry shows that retry_task, which does not take the lock,   *)
(* breaks them.  The theorems about Apart hold of all ten operations, from *)
(* any number of processes, as long as no two calls on the same task       *)
(* overlap and no process dies inside one (MCTaskFilesSerial).             *)
(***************************************************************************)
EXTENDS TaskFiles, TLAPS

-----------------------------------------------------------------------------
(* Types *)

\* The type invariant, with what makes it inductive: a client inside a call
\* has a task in its hands.
TypeInv == TypeOK /\ \A c \in Client : pc[c] # "idle" => job[c].task \in Task

\* The record of a missing file is not a copy.
LEMMA NoFileIsNoCopy == NoFile \notin Copy
  BY DEF NoFile, Copy, Bucket

\* What a stamp makes of a copy is a copy.
LEMMA StampedType ==
  ASSUME NEW j \in Job, NEW old \in Copy
  PROVE  Stamped(j, old) \in Copy
<1> DEFINE rev == IF j.op = "edit" THEN old.rev + 1 ELSE old.rev
           status == IF j.at = j.to /\ j.op \notin {"edit", "exec"} THEN j.to
                     ELSE IF j.op \in {"done", "fail", "finalize"} THEN j.to
                     ELSE old.status
<1>1. rev \in Nat
  BY DEF Copy
<1>2. status \in Bucket \cup {"unset"}
  BY DEF Copy, Job
<1>3. Stamped(j, old) = [old EXCEPT !.writers = {}, !.rev = rev, !.status = status]
  BY DEF Stamped
<1> HIDE DEF rev, status
<1> QED
  BY <1>1, <1>2, <1>3 DEF Copy

\* Every function probes for the file in the five buckets only.
LEMMA LookType ==
  ASSUME NEW o
  PROVE  /\ DOMAIN Look(o) \subseteq 1..5
         /\ \A i \in DOMAIN Look(o) : Look(o)[i] \in Bucket
  BY DEF Look, QueueStatuses, Bucket

\* A lookup that finds something ends in one of the buckets that have it.
LEMMA FirstHit ==
  ASSUME NEW o, NEW here \in SUBSET DOMAIN Look(o), here # {}
  PROVE  (CHOOSE i \in here : \A k \in here : i <= k) \in here
<1>1. here \subseteq 1..5
  BY LookType
<1>2. \E i \in here : \A k \in here : i <= k
  <2>1. CASE 1 \in here BY <1>1, <2>1
  <2>2. CASE 1 \notin here /\ 2 \in here BY <1>1, <2>2
  <2>3. CASE 1 \notin here /\ 2 \notin here /\ 3 \in here BY <1>1, <2>3
  <2>4. CASE 1 \notin here /\ 2 \notin here /\ 3 \notin here /\ 4 \in here
    BY <1>1, <2>4
  <2>5. CASE here \subseteq {5}
    <3>1. 5 \in here
      BY <2>5
    <3> QED
      BY <2>5, <3>1
  <2> QED
    BY <1>1, <2>1, <2>2, <2>3, <2>4, <2>5
<1> QED
  BY <1>2

LEMMA TypeInit == Init => TypeInv
<1> SUFFICES ASSUME Init PROVE TypeInv
  OBVIOUS
<1>1. Fresh \in Copy /\ NoJob \in Job
  BY DEF Fresh, Copy, NoJob, Job, Bucket, Phase, OpName
<1>2. file \in [Bucket -> [Task -> Copy \cup {NoFile}]]
  <2>1. \A b \in Bucket : [Fresh EXCEPT !.status =
           IF b = "pending" THEN "unset" ELSE b] \in Copy
    BY <1>1 DEF Fresh, Copy
  <2> QED
    BY <2>1 DEF Init
<1>3. live \subseteq Task /\ used \subseteq Task
  BY DEF Init
<1> QED
  BY <1>1, <1>2, <1>3 DEF Init, TypeInv, TypeOK, PC

\* Leaving a function and taking an exception keep the control state typed.
LEMMA LeaveType ==
  ASSUME TypeInv, NEW c \in Client, Leave(c) \/ (Raise(c) /\ pc[c] # "idle")
  PROVE  /\ pc' \in [Client -> PC]
         /\ job' \in [Client -> Job]
         /\ lock' \in [Process -> Client \cup {NULL}]
         /\ \A d \in Client : pc'[d] # "idle" => job'[d].task \in Task
<1> USE DEF TypeInv, TypeOK, Goto
<1>1. NoJob \in Job
  BY DEF NoJob, Job, Bucket, Phase, OpName, Fresh, Copy
<1>2. CASE Leave(c)
  BY <1>1, <1>2 DEF Leave, PC
<1>3. CASE Raise(c) /\ pc[c] # "idle" /\ job[c].op = "exec"
  <2>1. [job[c] EXCEPT !.op = "finalize", !.to = "failed", !.left = 1] \in Job
    BY ZenonT(40) DEF Job, Phase, Bucket
  <2>2. job' = [job EXCEPT ![c] = [job[c] EXCEPT !.op = "finalize",
                                     !.to = "failed", !.left = 1]]
    BY <1>3 DEF Raise
  <2> QED
    BY <1>3, <2>1, <2>2 DEF Raise, PC, Job
<1>4. CASE Raise(c) /\ job[c].op # "exec"
  BY <1>2, <1>4 DEF Raise
<1> QED
  BY <1>2, <1>3, <1>4


\* Setting one field of a job.
LEMMA JobField ==
  ASSUME NEW j \in Job
  PROVE  /\ \A v \in Phase : /\ [j EXCEPT !.op = v] \in Job
                             /\ [j EXCEPT !.op = v].task = j.task
         /\ \A v \in Bucket : /\ [j EXCEPT !.at = v] \in Job
                              /\ [j EXCEPT !.at = v].task = j.task
                              /\ [j EXCEPT !.to = v] \in Job
                              /\ [j EXCEPT !.to = v].task = j.task
         /\ \A v \in Nat : /\ [j EXCEPT !.left = v] \in Job
                           /\ [j EXCEPT !.left = v].task = j.task
         /\ \A v \in Copy : /\ [j EXCEPT !.data = v] \in Job
                            /\ [j EXCEPT !.data = v].task = j.task
<1> USE DEF Job
<1>1. \A v \in Phase : /\ [j EXCEPT !.op = v] \in Job
                       /\ [j EXCEPT !.op = v].task = j.task
  OBVIOUS
<1>2. \A v \in Bucket : /\ [j EXCEPT !.at = v] \in Job
                        /\ [j EXCEPT !.at = v].task = j.task
  OBVIOUS
<1>3. \A v \in Bucket : /\ [j EXCEPT !.to = v] \in Job
                        /\ [j EXCEPT !.to = v].task = j.task
  OBVIOUS
<1>4. \A v \in Nat : /\ [j EXCEPT !.left = v] \in Job
                     /\ [j EXCEPT !.left = v].task = j.task
  OBVIOUS
<1>5. \A v \in Copy : /\ [j EXCEPT !.data = v] \in Job
                      /\ [j EXCEPT !.data = v].task = j.task
  OBVIOUS
<1> QED
  BY <1>1, <1>2, <1>3, <1>4, <1>5

\* A step inside a function that keeps its task keeps the control state typed.
LEMMA WithinType ==
  ASSUME TypeInv, NEW c \in Client, NEW j \in Job, NEW l \in PC,
         pc[c] # "idle", j.task = job[c].task,
         job' = [job EXCEPT ![c] = j], Goto(c, l)
  PROVE  /\ pc' \in [Client -> PC]
         /\ job' \in [Client -> Job]
         /\ \A d \in Client : pc'[d] # "idle" => job'[d].task \in Task
  BY DEF TypeInv, TypeOK, Goto

\* Every step of the specification keeps the types.
LEMMA TypeNext == TypeInv /\ [Next]_vars => TypeInv'
<1> SUFFICES ASSUME TypeInv, [Next]_vars PROVE TypeInv'
  OBVIOUS
<1> USE NoFileIsNoCopy DEF TypeInv, TypeOK, Goto, Ghosts
<1>1. NoJob \in Job /\ Fresh \in Copy
  BY DEF NoJob, Job, Bucket, Phase, OpName, Fresh, Copy
<1>2. ASSUME NEW c \in Client, NEW o \in OpName, NEW t \in Task, Call(c, o, t)
      PROVE  TypeInv'
  <2>1. Target(o) \in Bucket /\ StampsBeforeMove(o) \in Nat /\ o \in Phase
    BY DEF Target, Bucket, StampsBeforeMove, Phase
  <2>2. [NoJob EXCEPT !.op = o, !.task = t, !.left = StampsBeforeMove(o),
                      !.to = Target(o)] \in Job
    BY <1>1, <2>1 DEF Job, NoJob
  <2> QED
    BY <1>2, <2>2 DEF Call, PC, Job
<1>3. ASSUME NEW c \in Client, Acquire(c) PROVE TypeInv'
  <2>1. ProcessOf[c] \in Process
    BY ClientAssumption
  <2> QED
    BY <1>3, <2>1 DEF Acquire, PC
<1>4. ASSUME NEW c \in Client, Check(c) PROVE TypeInv'
  <2> DEFINE o == job[c].op
             here == {i \in DOMAIN Look(o) : Exists(Look(o)[i], job[c].task)}
             first == Look(o)[CHOOSE i \in here : \A k \in here : i <= k]
  <2>1. CASE Leave(c)
    BY <1>4, <2>1, LeaveType DEF Check
  <2>2. CASE ~Leave(c)
    <3>1. here # {} /\ job' = [job EXCEPT ![c].at = first] /\ UNCHANGED lock
      BY <1>4, <2>2 DEF Check
    <3>2. first \in Bucket
      <4> DEFINE i0 == CHOOSE i \in here : \A k \in here : i <= k
      <4>1. here \in SUBSET DOMAIN Look(o)
        OBVIOUS
      <4> HIDE DEF here
      <4>2. i0 \in here
        BY <3>1, <4>1, FirstHit
      <4> HIDE DEF i0
      <4>3. Look(o)[i0] \in Bucket
        BY <4>1, <4>2, LookType
      <4> QED
        BY <4>3 DEF i0
    <3>3. PICK l \in PC : Goto(c, l)
      BY <1>4, <2>2 DEF Check, PC
    <3> HIDE DEF first
    <3>4. job' = [job EXCEPT ![c] = [job[c] EXCEPT !.at = first]]
      BY <3>1
    <3>5. /\ [job[c] EXCEPT !.at = first] \in Job
          /\ [job[c] EXCEPT !.at = first].task = job[c].task
      BY <3>2, JobField
    <3>6. pc[c] # "idle" /\ UNCHANGED <<file, tmp, Ghosts>>
      BY <1>4 DEF Check
    <3> QED
      BY <3>1, <3>3, <3>4, <3>5, <3>6, WithinType
  <2> QED
    BY <2>1, <2>2
<1>5. ASSUME NEW c \in Client, Parse(c) PROVE TypeInv'
  BY <1>5, LeaveType DEF Parse, PC
<1>6. ASSUME NEW c \in Client, Read(c) PROVE TypeInv'
  <2> DEFINE old == file[job[c].at][job[c].task]
  <2>1. job[c].at \in Bucket /\ job[c].task \in Task
    BY <1>6 DEF Read, Job
  <2>2. CASE Leave(c) \/ Raise(c)
    BY <1>6, <2>2, LeaveType DEF Read
  <2>3. CASE old # NoFile /\ job' = [job EXCEPT ![c].data = Stamped(job[c], old)]
             /\ Goto(c, "write") /\ UNCHANGED lock
    <3> DEFINE new == Stamped(job[c], old)
    <3>1. new \in Copy
      BY <2>1, <2>3, StampedType
    <3>2. job' = [job EXCEPT ![c] = [job[c] EXCEPT !.data = new]]
      BY <2>3
    <3>3. pc[c] # "idle" /\ UNCHANGED <<file, tmp, Ghosts>> /\ "write" \in PC
      BY <1>6 DEF Read, PC
    <3> HIDE DEF new
    <3>4. [job[c] EXCEPT !.data = new] \in Job
          /\ [job[c] EXCEPT !.data = new].task = job[c].task
      BY <3>1, JobField
    <3> QED
      BY <2>3, <3>2, <3>3, <3>4, WithinType
  <2> QED
    BY <1>6, <2>2, <2>3 DEF Read
<1>7. ASSUME NEW c \in Client, Write(c) PROVE TypeInv'
  <2>1. job[c].at \in Bucket /\ job[c].task \in Task /\ job[c].data \in Copy
    BY <1>7 DEF Write, Job
  <2> QED
    BY <1>7, <2>1 DEF Write, PC
<1>8. ASSUME NEW c \in Client, Replace(c) PROVE TypeInv'
  <2> DEFINE b == job[c].at
             t == job[c].task
             o == job[c].op
  <2>1. b \in Bucket /\ t \in Task /\ job[c].data.rev \in Nat /\ job[c].left \in Nat
    BY <1>8 DEF Replace, Job, Copy
  <2>2. CASE tmp[b][t] = NoFile
    BY <1>8, <2>2, LeaveType DEF Replace
  <2>3. CASE tmp[b][t] # NoFile
    <3>1. /\ file' \in [Bucket -> [Task -> Copy \cup {NoFile}]]
          /\ tmp' \in [Bucket -> [Task -> Copy \cup {NoFile}]]
          /\ acked' \in [Task -> Nat]
          /\ UNCHANGED <<live, removed, used>>
      <4>1. tmp[b][t] \in Copy
        BY <2>1, <2>3
      <4>2. /\ file' = [file EXCEPT ![b][t] = tmp[b][t]]
            /\ tmp' = [tmp EXCEPT ![b][t] = NoFile]
            /\ acked' = IF job[c].op = "edit"
                        THEN [acked EXCEPT ![t] = job[c].data.rev] ELSE acked
            /\ UNCHANGED <<live, removed, used>>
        BY <1>8, <2>3 DEF Replace
      <4> HIDE DEF b, t
      <4> QED
        BY <2>1, <4>1, <4>2
    <3>2. CASE o = "exec" /\ Goto(c, "execute") /\ UNCHANGED <<lock, job>>
      BY <1>8, <3>1, <3>2 DEF PC, Replace
    <3>3. CASE Goto(c, "read") /\ job' = [job EXCEPT ![c].left = @ - 1]
               /\ job[c].left > 1 /\ UNCHANGED lock
      <4>1. [job[c] EXCEPT !.left = job[c].left - 1] \in Job
            /\ [job[c] EXCEPT !.left = job[c].left - 1].task = job[c].task
        <5>1. job[c].left - 1 \in Nat /\ job[c] \in Job
          BY <2>1, <3>3
        <5> HIDE DEF TypeInv, TypeOK
        <5> QED
          BY <5>1, JobField
      <4>2. job' = [job EXCEPT ![c] = [job[c] EXCEPT !.left = job[c].left - 1]]
        BY <3>3
      <4>3. pc[c] # "idle" /\ "read" \in PC
        BY <1>8 DEF Replace, PC
      <4> QED
        BY <3>1, <3>3, <4>1, <4>2, <4>3, WithinType
    <3>4. CASE Goto(c, "rename") /\ UNCHANGED job /\ UNCHANGED lock
      BY <1>8, <3>1, <3>4 DEF PC, Replace
    <3>5. CASE /\ lock' = [lock EXCEPT ![ProcessOf[c]] = NULL]
               /\ job' = [job EXCEPT ![c].op = "exec"]
               /\ Goto(c, "execute")
      <4>1. [job[c] EXCEPT !.op = "exec"] \in Job
            /\ [job[c] EXCEPT !.op = "exec"].task = job[c].task
        BY JobField DEF Phase
      <4>2. job' = [job EXCEPT ![c] = [job[c] EXCEPT !.op = "exec"]]
        BY <3>5
      <4>3. pc[c] # "idle" /\ "execute" \in PC
        BY <1>8 DEF Replace, PC
      <4>4. lock' \in [Process -> Client \cup {NULL}]
        BY <3>5
      <4> QED
        BY <3>1, <3>5, <4>1, <4>2, <4>3, <4>4, WithinType
    <3>6. CASE Leave(c)
      BY <1>8, <3>1, <3>6, LeaveType
    <3> QED
      BY <1>8, <2>3, <3>2, <3>3, <3>4, <3>5, <3>6 DEF Replace
  <2> QED
    BY <2>2, <2>3
<1>9. ASSUME NEW c \in Client, Rename(c) PROVE TypeInv'
  <2> DEFINE b == job[c].at
             t == job[c].task
             d == job[c].to
  <2>1. b \in Bucket /\ t \in Task /\ d \in Bucket
    BY <1>9 DEF Rename, Job
  <2>2. CASE Exists(b, t)
    <3>1. file' \in [Bucket -> [Task -> Copy \cup {NoFile}]]
      <4>1. file' = [file EXCEPT ![d][t] = file[b][t], ![b][t] = NoFile]
        BY <1>9, <2>2 DEF Rename
      <4>2. file[b][t] \in Copy
        BY <2>1, <2>2 DEF Exists
      <4> HIDE DEF b, t, d
      <4> QED
        BY <2>1, <4>1, <4>2
    <3>2. /\ job' = [job EXCEPT ![c] = [job[c] EXCEPT !.at = d]]
          /\ Goto(c, "read")
          /\ UNCHANGED <<lock, tmp, Ghosts>>
      BY <1>9, <2>2 DEF Rename
    <3>3. pc[c] # "idle" /\ "read" \in PC
      BY <1>9 DEF Rename, PC
    <3>4. [job[c] EXCEPT !.at = d] \in Job
          /\ [job[c] EXCEPT !.at = d].task = job[c].task
      BY <2>1, JobField
    <3> QED
      BY <3>1, <3>2, <3>3, <3>4, WithinType
  <2>3. CASE ~Exists(b, t)
    BY <1>9, <2>3, LeaveType DEF Rename
  <2> QED
    BY <2>2, <2>3
<1>10. ASSUME NEW c \in Client, Execute(c) PROVE TypeInv'
  <2>1. PICK j \in Job : j.task = job[c].task /\ job' = [job EXCEPT ![c] = j]
    <3>1. CASE job' = [job EXCEPT ![c].to = "running"]
      BY <3>1, JobField DEF Bucket
    <3>2. ASSUME NEW r \in Outcome,
                 job' = [job EXCEPT ![c].op = "finalize", ![c].to = r,
                                    ![c].left = 1]
          PROVE  \E j \in Job : /\ j.task = job[c].task
                                /\ job' = [job EXCEPT ![c] = j]
      <4> DEFINE j1 == [job[c] EXCEPT !.op = "finalize"]
                 j2 == [j1 EXCEPT !.to = r]
                 j3 == [j2 EXCEPT !.left = 1]
      <4>1. j1 \in Job /\ j1.task = job[c].task
        BY JobField DEF Phase
      <4>2. j2 \in Job /\ j2.task = job[c].task
        <5>1. r \in Bucket
          BY DEF Outcome, Bucket
        <5> HIDE DEF j1
        <5> QED
          BY <4>1, <5>1, JobField
      <4>3. j3 \in Job /\ j3.task = job[c].task
        <5> HIDE DEF j2
        <5> QED
          BY <4>2, JobField
      <4>4. job' = [job EXCEPT ![c] = j3]
        BY <3>2
      <4> QED
        BY <4>3, <4>4
    <3> QED
      BY <1>10, <3>1, <3>2 DEF Execute
  <2>2. pc[c] # "idle" /\ Goto(c, "read") /\ "read" \in PC
        /\ UNCHANGED <<file, tmp, lock, Ghosts>>
    BY <1>10 DEF Execute, PC
  <2> QED
    BY <2>1, <2>2, WithinType
<1>11. ASSUME NEW c \in Client, Load(c) PROVE TypeInv'
  <2> DEFINE old == file[job[c].at][job[c].task]
  <2>1. job[c].at \in Bucket /\ job[c].task \in Task
    BY <1>11 DEF Load, Job
  <2>2. CASE old # NoFile
    <3>1. old \in Copy
      BY <2>1, <2>2
    <3>2. [old EXCEPT !.status = "unset", !.writers = {}] \in Copy
      BY <3>1 DEF Copy
    <3> DEFINE new == [old EXCEPT !.status = "unset", !.writers = {}]
    <3>3. /\ job' = [job EXCEPT ![c] = [job[c] EXCEPT !.data = new]]
          /\ Goto(c, "open") /\ UNCHANGED <<lock, file, tmp, Ghosts>>
          /\ pc[c] # "idle" /\ "open" \in PC
      BY <1>11, <2>2 DEF Load, PC
    <3> HIDE DEF new
    <3>4. [job[c] EXCEPT !.data = new] \in Job
          /\ [job[c] EXCEPT !.data = new].task = job[c].task
      BY <3>2, JobField DEF new
    <3> QED
      BY <3>3, <3>4, WithinType
  <2>3. CASE old = NoFile
    BY <1>11, <2>3, LeaveType DEF Load
  <2> QED
    BY <2>2, <2>3
<1>12. ASSUME NEW c \in Client, Open(c) PROVE TypeInv'
  <2> DEFINE t == job[c].task
             new == [rev |-> 0, status |-> "unset", whole |-> FALSE,
                     writers |-> file["pending"][t].writers \cup {c}]
  <2>1. t \in Task /\ "pending" \in Bucket
    BY <1>12 DEF Open, Bucket
  <2>2. file["pending"][t].writers \subseteq Client
    BY <2>1, SMTT(30) DEF Copy, NoFile
  <2>3. new \in Copy
    BY <2>2 DEF Copy
  <2>4. file' = [file EXCEPT !["pending"][t] = new]
    BY <1>12 DEF Open
  <2> HIDE DEF new
  <2> QED
    BY <1>12, <2>1, <2>3, <2>4 DEF Open, PC
<1>13. ASSUME NEW c \in Client, Dump(c) PROVE TypeInv'
  <2> DEFINE t == job[c].task
             new(b) == [job[c].data EXCEPT !.writers = @ \cup
                          (file[b][t].writers \ {c})]
  <2>1. t \in Task /\ job[c].data \in Copy
    BY <1>13 DEF Dump, Job
  <2>2. \A b \in Bucket : new(b) \in Copy
    <3> SUFFICES ASSUME NEW b \in Bucket PROVE new(b) \in Copy
      OBVIOUS
    <3> DEFINE w == job[c].data.writers \cup (file[b][t].writers \ {c})
    <3>1. w \in SUBSET Client
      <4>1. file[b][t] \in Copy \cup {NoFile}
        BY <2>1
      <4>2. file[b][t].writers \subseteq Client
        BY <4>1 DEF Copy, NoFile
      <4>3. job[c].data.writers \subseteq Client
        BY <2>1 DEF Copy
      <4> QED
        BY <4>2, <4>3
    <3>2. new(b) = [job[c].data EXCEPT !.writers = w]
      OBVIOUS
    <3> HIDE DEF w, new
    <3> QED
      BY <2>1, <3>1, <3>2 DEF Copy
  <2>3. file' = [b \in Bucket |-> [file[b] EXCEPT ![t] =
                   IF c \in file[b][t].writers THEN new(b) ELSE file[b][t]]]
    BY <1>13, <2>1 DEF Dump
  <2> HIDE DEF new
  <2>4. file' \in [Bucket -> [Task -> Copy \cup {NoFile}]]
    BY <2>1, <2>2, <2>3
  <2>5. CASE job[c].op = "create"
    BY <1>13, <2>1, <2>4, <2>5, LeaveType DEF Dump
  <2>6. CASE job[c].op # "create"
    BY <1>13, <2>1, <2>4, <2>6 DEF Dump, PC
  <2> QED
    BY <2>5, <2>6
<1>14. ASSUME NEW c \in Client, Unlink(c) PROVE TypeInv'
  <2>1. job[c].at \in Bucket /\ job[c].task \in Task
    BY <1>14 DEF Unlink, Job
  <2> QED
    BY <1>14, <2>1, LeaveType DEF Unlink
<1>15. ASSUME NEW p \in Process, Crash(p) PROVE TypeInv'
  <2> DEFINE dead == {c \in Client : ProcessOf[c] = p}
             new(b, t) == [file[b][t] EXCEPT !.writers = @ \ dead]
  <2>1. \A b \in Bucket, t \in Task : new(b, t) \in Copy \cup {NoFile}
    <3>1. [NoFile EXCEPT !.writers = NoFile.writers \ dead] = NoFile
      <4>1. NoFile.writers \ dead = NoFile.writers
        BY DEF NoFile
      <4> QED
        BY <4>1 DEF NoFile
    <3>2. \A f \in Copy : [f EXCEPT !.writers = f.writers \ dead] \in Copy
      BY DEF Copy
    <3> QED
      BY <3>1, <3>2
  <2>2. file' = [b \in Bucket |-> [t \in Task |-> new(b, t)]]
    BY <1>15 DEF Crash
  <2> HIDE DEF new
  <2>3. file' \in [Bucket -> [Task -> Copy \cup {NoFile}]]
    BY <2>1, <2>2
  <2> QED
    BY <1>1, <1>15, <2>3 DEF Crash, PC
<1>16. CASE UNCHANGED vars
  BY <1>16 DEF vars
<1> QED
  BY <1>2, <1>3, <1>4, <1>5, <1>6, <1>7, <1>8, <1>9, <1>10, <1>11, <1>12,
     <1>13, <1>14, <1>15, <1>16 DEF Next, Step

\* Every state the queue can reach is well typed, whoever calls what from how
\* many processes and wherever they die: in particular a missing file is
\* never confused with a copy, and every move ends in one of the five buckets.
THEOREM TypeCorrect == Spec => []TypeOK
<1>1. TypeInv => TypeOK
  BY DEF TypeInv
<1> QED
  BY <1>1, TypeInit, TypeNext, PTL DEF Spec

-----------------------------------------------------------------------------
(* Custody: what PENDING_MUTATION_LOCK gives the operations that take it *)

\* One process, and only the operations whose body holds the lock, the run a
\* start leads to, and the creation of tasks.
LockedOnly ==
  /\ \A c \in Client : Ops[c] \subseteq {"create"} \cup LockOps
  /\ \A c, d \in Client : ProcessOf[c] = ProcessOf[d]

InRun(c) == job[c].op \in {"exec", "finalize"}

\* A client has looked a file up under the lock, or runs it, and will write
\* to it or move it.
Working(c) ==
  \/ job[c].op \in LockOps /\ pc[c] \in {"parse", "read", "write", "replace", "rename"}
  \/ InRun(c) /\ pc[c] \in {"execute", "read", "write", "replace", "rename"}

\* The positions a client can be in.
Shape ==
  \A c \in Client :
    \/ pc[c] = "idle"
    \/ job[c].op = "create" /\ pc[c] \in {"open", "dump"}
    \/ job[c].op \in LockOps /\ pc[c] \in {"acquire", "check"}
    \/ Working(c)

\* Inside a locked body, the process's lock is the client's.
LockHeld ==
  \A c \in Client :
    job[c].op \in LockOps /\ pc[c] \notin {"idle", "acquire"} => Mine(c)

\* A working client's file is where it thinks it is, and a move leaves it.
HasFile ==
  \A c \in Client : Working(c) =>
    /\ Exists(job[c].at, job[c].task)
    /\ pc[c] = "rename" => job[c].at # job[c].to

\* A run is past pending/ and will not move back there.
PastPending ==
  \A c \in Client :
    /\ job[c].op = "run" => job[c].to # "pending"
    /\ InRun(c) => job[c].at # "pending" /\ job[c].to # "pending"

SoleWorker ==
  \A c, d \in Client :
    Working(c) /\ Working(d) /\ job[c].task = job[d].task => c = d

\* Every task there is a file of, or a call on, was handed out.
UsedIds ==
  /\ \A c \in Client : pc[c] # "idle" => job[c].task \in used
  /\ \A t \in Task, b \in Bucket : Exists(b, t) => t \in used

\* A task that is being created is nobody else's yet.
FreshOpen ==
  \A c \in Client : pc[c] = "open" =>
    /\ \A b \in Bucket : ~Exists(b, job[c].task)
    /\ \A d \in Client : d # c /\ pc[d] # "idle" => job[d].task # job[c].task

OnePlace == \A t \in Task, a, b \in Bucket : Exists(a, t) /\ Exists(b, t) => a = b

Custody ==
  Shape /\ LockHeld /\ HasFile /\ PastPending /\ SoleWorker /\ UsedIds
    /\ FreshOpen /\ OnePlace

LEMMA CustodyInit == ASSUME Init PROVE Custody
<1>1. PICK place \in [Task -> Bucket \cup {NULL}] :
         /\ file = [b \in Bucket |-> [t \in Task |->
               IF place[t] = b THEN [Fresh EXCEPT !.status =
                                       IF b = "pending" THEN "unset" ELSE b]
                               ELSE NoFile]]
         /\ used = {t \in Task : place[t] # NULL}
  BY DEF Init
<1>2. \A b \in Bucket, t \in Task : Exists(b, t) => place[t] = b
  BY <1>1 DEF Exists
<1>3. \A c \in Client : pc[c] = "idle" /\ job[c] = NoJob
  BY DEF Init
<1>4. \A c \in Client : ~Working(c) /\ job[c].op = "create"
  BY <1>3 DEF Working, NoJob, LockOps, InRun
<1>5. \A t \in Task, b \in Bucket : Exists(b, t) => t \in used
  BY <1>1, <1>2, ClientAssumption
<1>6. OnePlace
  BY <1>2 DEF OnePlace
<1> QED
  BY <1>3, <1>4, <1>5, <1>6 DEF Custody, Shape, LockHeld, HasFile, PastPending,
     SoleWorker, UsedIds, FreshOpen, InRun, LockOps

\* What Exists means after a step.
SameFiles == \A b \in Bucket, t \in Task : file'[b][t] # NoFile <=> file[b][t] # NoFile

\* Leaving a function disturbs nobody else.
LEMMA LeaveCustody ==
  ASSUME TypeInv, Custody, LockedOnly, NEW c \in Client, Leave(c), SameFiles,
         used' = used
  PROVE  Custody'
<1> USE DEF TypeInv, TypeOK, Goto
<1>1. \A d \in Client : d # c => pc'[d] = pc[d] /\ job'[d] = job[d]
  BY DEF Leave
<1>2. pc'[c] = "idle" /\ job'[c] = NoJob
  BY DEF Leave
<1>3. \A d \in Client : d # c => (Working(d)' <=> Working(d))
  BY <1>1 DEF Working, InRun
<1>4. ~Working(c)' /\ job'[c].op = "create"
  BY <1>2 DEF Working, InRun, LockOps, NoJob
<1>5. \A d \in Client : d # c /\ Mine(d) => Mine(d)'
  <2>1. \A d \in Client : ProcessOf[d] \in Process
    BY ClientAssumption
  <2> QED
    BY <2>1 DEF Mine, Leave
<1>6. Shape'
  BY <1>1, <1>2, <1>3 DEF Custody, Shape
<1>7. LockHeld'
  BY <1>1, <1>2, <1>5 DEF Custody, LockHeld
<1>8. \A b \in Bucket, t \in Task : Exists(b, t)' <=> Exists(b, t)
  BY DEF SameFiles, Exists
<1>9. HasFile'
  <2> SUFFICES ASSUME NEW d \in Client, Working(d)'
               PROVE  /\ file'[job'[d].at][job'[d].task] # NoFile
                      /\ pc'[d] = "rename" => job'[d].at # job'[d].to
    BY DEF HasFile, Exists
  <2>1. d # c /\ Working(d) /\ job'[d] = job[d] /\ pc'[d] = pc[d]
    BY <1>1, <1>3, <1>4
  <2>2. job[d].at \in Bucket /\ job[d].task \in Task
    BY <2>1 DEF Job, Working
  <2> QED
    BY <2>1, <2>2 DEF Custody, HasFile, Exists, SameFiles
<1>10. PastPending'
  BY <1>1, <1>4 DEF Custody, PastPending, InRun
<1>11. SoleWorker'
  BY <1>1, <1>3, <1>4 DEF Custody, SoleWorker
<1>12. UsedIds'
  BY <1>1, <1>2, <1>8 DEF Custody, UsedIds
<1>13. FreshOpen'
  <2> SUFFICES ASSUME NEW d \in Client, pc'[d] = "open"
               PROVE  /\ \A b \in Bucket : file'[b][job'[d].task] = NoFile
                      /\ \A e \in Client : e # d /\ pc'[e] # "idle" =>
                                             job'[e].task # job'[d].task
    BY DEF FreshOpen, Exists
  <2>1. d # c /\ pc[d] = "open" /\ job'[d] = job[d] /\ job[d].task \in Task
    BY <1>1, <1>2
  <2> QED
    BY <1>1, <1>2, <2>1 DEF Custody, FreshOpen, Exists, SameFiles
<1>14. OnePlace'
  BY <1>8 DEF Custody, OnePlace
<1> QED
  BY <1>6, <1>7, <1>9, <1>10, <1>11, <1>12, <1>13, <1>14 DEF Custody

\* A working client that goes on working on the same file disturbs nobody.
LEMMA WithinCustody ==
  ASSUME TypeInv, Custody, LockedOnly, NEW c \in Client, NEW j \in Job, NEW l,
         Working(c), SameFiles, used' = used,
         job' = [job EXCEPT ![c] = j], Goto(c, l),
         j.at = job[c].at, j.task = job[c].task, l = "rename" => j.at # j.to,
         \/ /\ j.op \in LockOps /\ j.op = job[c].op /\ j.to = job[c].to
            /\ l \in {"read", "write", "replace", "rename"}
            /\ lock' = lock
         \/ /\ j.op \in {"exec", "finalize"}
            /\ l \in {"execute", "read", "write", "replace", "rename"}
            /\ j.at # "pending" /\ j.to # "pending"
            /\ \/ lock' = lock
               \/ Mine(c) /\ lock' = [lock EXCEPT ![ProcessOf[c]] = NULL]
  PROVE  Custody'
<1> USE DEF TypeInv, TypeOK, Goto
<1>1. \A d \in Client : d # c => pc'[d] = pc[d] /\ job'[d] = job[d]
  OBVIOUS
<1>2. pc'[c] = l /\ job'[c] = j /\ pc[c] # "idle" /\ l \notin {"idle", "open"}
  BY DEF Working
<1>3. \A d \in Client : d # c => (Working(d)' <=> Working(d))
  BY <1>1 DEF Working, InRun
<1>4. Working(c)'
  BY <1>2 DEF Working, InRun
<1>5. \A d \in Client : d # c /\ Mine(d) => Mine(d)'
  <2>1. \A d \in Client : ProcessOf[d] \in Process
    BY ClientAssumption
  <2> QED
    BY <2>1 DEF Mine
<1>6. Shape'
  BY <1>1, <1>3, <1>4 DEF Custody, Shape
<1>7. LockHeld'
  <2>1. j.op \in LockOps => Mine(c)'
    <3>1. j.op \in LockOps => Mine(c) /\ lock' = lock
      BY <1>2 DEF Custody, LockHeld, LockOps, Working, InRun
    <3> QED
      BY <3>1 DEF Mine
  <2> QED
    BY <1>1, <1>2, <1>5, <2>1 DEF Custody, LockHeld
<1>8. HasFile'
  <2> SUFFICES ASSUME NEW d \in Client, Working(d)'
               PROVE  /\ file'[job'[d].at][job'[d].task] # NoFile
                      /\ pc'[d] = "rename" => job'[d].at # job'[d].to
    BY DEF HasFile, Exists
  <2>1. /\ Working(d) /\ job'[d].at = job[d].at /\ job'[d].task = job[d].task
        /\ pc'[d] = "rename" => job'[d].at # job'[d].to
    BY <1>1, <1>2, <1>3 DEF Custody, HasFile
  <2>2. job[d].at \in Bucket /\ job[d].task \in Task
    BY <2>1 DEF Job, Working
  <2> QED
    BY <2>1, <2>2 DEF Custody, HasFile, Exists, SameFiles
<1>9. PastPending'
  <2>1. j.op = "run" => j.to # "pending"
    BY DEF Custody, PastPending
  <2>2. j.op \in {"exec", "finalize"} => j.at # "pending" /\ j.to # "pending"
    BY DEF LockOps
  <2> QED
    BY <1>1, <1>2, <2>1, <2>2 DEF Custody, PastPending, InRun
<1>10. SoleWorker'
  BY <1>1, <1>2, <1>3 DEF Custody, SoleWorker
<1>11. UsedIds'
  BY <1>1, <1>2 DEF Custody, UsedIds, Exists, SameFiles
<1>12. FreshOpen'
  <2> SUFFICES ASSUME NEW d \in Client, pc'[d] = "open"
               PROVE  /\ \A b \in Bucket : file'[b][job'[d].task] = NoFile
                      /\ \A e \in Client : e # d /\ pc'[e] # "idle" =>
                                             job'[e].task # job'[d].task
    BY DEF FreshOpen, Exists
  <2>1. d # c /\ pc[d] = "open" /\ job'[d] = job[d] /\ job[d].task \in Task
    BY <1>1, <1>2
  <2> QED
    BY <1>1, <1>2, <2>1 DEF Custody, FreshOpen, Exists, SameFiles
<1>13. OnePlace'
  BY DEF Custody, OnePlace, Exists, SameFiles
<1> QED
  BY <1>6, <1>7, <1>8, <1>9, <1>10, <1>11, <1>12, <1>13 DEF Custody

\* A call begins: it holds nothing yet, and a new task is nobody else's.
LEMMA CallCustody ==
  ASSUME TypeInv, Custody, LockedOnly, NEW c \in Client, NEW o \in OpName,
         NEW t \in Task, Call(c, o, t)
  PROVE  Custody'
<1> USE DEF TypeInv, TypeOK, Goto
<1>1. /\ pc[c] = "idle" /\ o \in {"create"} \cup LockOps /\ file' = file
      /\ lock' = lock
      /\ IF o = "create" THEN t \notin used /\ used' = used \cup {t}
         ELSE Listed(t) /\ used' = used
  BY DEF Call, LockedOnly
<1>2. \A d \in Client : d # c => pc'[d] = pc[d] /\ job'[d] = job[d]
  BY DEF Call
<1>3. job'[c].op = o /\ job'[c].task = t /\ job'[c].to = Target(o)
  BY DEF Call, NoJob
<1>4. pc'[c] = IF o = "create" THEN "open" ELSE "acquire"
  BY <1>1 DEF Call, LockOps
<1>5. ~Working(c)' /\ \A d \in Client : d # c => (Working(d)' <=> Working(d))
  BY <1>2, <1>4 DEF Working, InRun
<1>6. o # "create" => \E b \in Bucket : Exists(b, t)
  BY <1>1 DEF Listed, Exists, NoFile
<1>7. Shape'
  BY <1>1, <1>2, <1>3, <1>4, <1>5 DEF Custody, Shape
<1>8. LockHeld'
  BY <1>1, <1>2, <1>3, <1>4 DEF Custody, LockHeld, Mine, LockOps
<1>9. HasFile'
  BY <1>1, <1>2, <1>5 DEF Custody, HasFile, Exists
<1>10. PastPending'
  BY <1>1, <1>2, <1>3 DEF Custody, PastPending, InRun, LockOps, Target
<1>11. SoleWorker'
  BY <1>2, <1>5 DEF Custody, SoleWorker
<1>12. UsedIds'
  <2>1. t \in used'
    BY <1>1, <1>6 DEF Custody, UsedIds
  <2> QED
    BY <1>1, <1>2, <1>3, <2>1 DEF Custody, UsedIds, Exists
<1>13. FreshOpen'
  <2> SUFFICES ASSUME NEW d \in Client, pc'[d] = "open"
               PROVE  /\ \A b \in Bucket : file[b][job'[d].task] = NoFile
                      /\ \A e \in Client : e # d /\ pc'[e] # "idle" =>
                                             job'[e].task # job'[d].task
    BY <1>1 DEF FreshOpen, Exists
  <2>1. CASE d = c
    <3>1. o = "create" /\ t \notin used
      BY <1>1, <1>4, <2>1
    <3> QED
      BY <1>2, <1>3, <2>1, <3>1 DEF Custody, UsedIds, Exists
  <2>2. CASE d # c
    <3>1. pc[d] = "open" /\ job'[d] = job[d] /\ job[d].task \in used
      BY <1>2, <2>2 DEF Custody, UsedIds
    <3>2. t # job[d].task
      BY <1>1, <1>6, <3>1 DEF Custody, FreshOpen
    <3> QED
      BY <1>2, <1>3, <2>2, <3>1, <3>2 DEF Custody, FreshOpen, Exists
  <2> QED
    BY <2>1, <2>2
<1>14. OnePlace'
  BY <1>1 DEF Custody, OnePlace, Exists
<1> QED
  BY <1>7, <1>8, <1>9, <1>10, <1>11, <1>12, <1>13, <1>14 DEF Custody

\* A free lock is nobody's, so taking it leaves one holder.
LEMMA AcquireCustody ==
  ASSUME TypeInv, Custody, LockedOnly, NEW c \in Client, Acquire(c)
  PROVE  Custody'
<1> USE DEF TypeInv, TypeOK, Goto, Ghosts
<1>1. /\ \A d \in Client : job'[d] = job[d] /\ (d # c => pc'[d] = pc[d])
      /\ pc[c] = "acquire" /\ pc'[c] = "check"
      /\ file' = file /\ used' = used
  BY DEF Acquire
<1>2. job[c].op \in LockOps /\ ~Working(c)
  BY <1>1 DEF Custody, Shape, Working
<1>3. \A d \in Client : Working(d)' <=> Working(d)
  BY <1>1, <1>2 DEF Working, InRun, LockOps
<1>4. Mine(c)' /\ \A d \in Client : ~Mine(d)
  <2>1. \A d \in Client : ProcessOf[d] = ProcessOf[c] /\ ProcessOf[d] \in Process
    BY ClientAssumption DEF LockedOnly
  <2> QED
    BY <2>1, ClientAssumption DEF Mine, Acquire
<1>5. Shape'
  BY <1>1, <1>2, <1>3 DEF Custody, Shape
<1>6. LockHeld'
  BY <1>1, <1>4 DEF Custody, LockHeld
<1>7. HasFile'
  BY <1>1, <1>3 DEF Custody, HasFile, Exists
<1>8. PastPending'
  BY <1>1 DEF Custody, PastPending, InRun
<1>9. SoleWorker'
  BY <1>1, <1>3 DEF Custody, SoleWorker
<1>10. UsedIds'
  BY <1>1 DEF Custody, UsedIds, Exists
<1>11. FreshOpen'
  BY <1>1 DEF Custody, FreshOpen, Exists
<1>12. OnePlace'
  BY <1>1 DEF Custody, OnePlace, Exists
<1> QED
  BY <1>5, <1>6, <1>7, <1>8, <1>9, <1>10, <1>11, <1>12 DEF Custody

\* What is found is in pending/, so no run has it, and the lock keeps every
\* other function away from it.
LEMMA CheckCustody ==
  ASSUME TypeInv, Custody, LockedOnly, NEW c \in Client, Check(c)
  PROVE  Custody'
<1> USE DEF TypeInv, TypeOK, Goto, Ghosts
<1>1. pc[c] = "check" /\ file' = file /\ used' = used
  BY DEF Check
<1>2. job[c].op \in LockOps /\ ~Working(c) /\ Mine(c) /\ job[c].task \in Task
  BY <1>1 DEF Custody, Shape, Working, LockHeld
<1>3. CASE Leave(c)
  BY <1>1, <1>3, LeaveCustody DEF SameFiles
<1>4. CASE ~Leave(c)
  <2>1. /\ job' = [job EXCEPT ![c] = [job[c] EXCEPT !.at = "pending"]]
        /\ Exists("pending", job[c].task)
        /\ lock' = lock
    <3> DEFINE o == job[c].op
               here == {i \in DOMAIN Look(o) : Exists(Look(o)[i], job[c].task)}
               i0 == CHOOSE i \in here : \A k \in here : i <= k
    <3>1. /\ here # {} /\ (o = "edit" => Look(o)[i0] = "pending")
          /\ job' = [job EXCEPT ![c].at = Look(o)[i0]]
          /\ lock' = lock
      BY <1>4 DEF Check
    <3>2. i0 \in here
      <4>1. here \in SUBSET DOMAIN Look(o)
        OBVIOUS
      <4> HIDE DEF here
      <4> QED
        BY <3>1, <4>1, FirstHit
    <3>3. Look(o)[i0] = "pending"
      <4>1. CASE o = "edit"
        BY <3>1, <4>1
      <4>2. CASE o # "edit"
        <5>1. Look(o) = <<"pending">>
          BY <1>2, <4>2 DEF Look, LockOps
        <5>2. i0 \in DOMAIN Look(o)
          BY <3>2
        <5> HIDE DEF i0
        <5> QED
          BY <5>1, <5>2
      <4> QED
        BY <4>1, <4>2
    <3>4. Exists(Look(o)[i0], job[c].task)
      BY <3>2
    <3> HIDE DEF i0
    <3> QED
      BY <3>1, <3>3, <3>4
  <2>2. /\ \A d \in Client : d # c => pc'[d] = pc[d] /\ job'[d] = job[d]
        /\ job'[c].op = job[c].op /\ job'[c].task = job[c].task
        /\ job'[c].to = job[c].to /\ job'[c].at = "pending"
    BY <1>4, <2>1 DEF Check, Job
  <2>3. pc'[c] \in {"read", "parse"}
    BY <1>2, <1>4 DEF Check, LockOps
  <2>4. Working(c)' /\ \A d \in Client : d # c => (Working(d)' <=> Working(d))
    BY <1>2, <2>2, <2>3 DEF Working, InRun
  <2>5. \A d \in Client : d # c /\ Working(d) => job[d].task # job[c].task
    <3> SUFFICES ASSUME NEW d \in Client, d # c, Working(d),
                        job[d].task = job[c].task
                 PROVE  FALSE
      OBVIOUS
    <3>1. CASE InRun(d)
      <4>1. Exists(job[d].at, job[c].task) /\ job[d].at # "pending"
        BY <3>1 DEF Custody, HasFile, PastPending
      <4>2. job[d].at \in Bucket /\ "pending" \in Bucket
        BY DEF Job, Bucket
      <4> QED
        BY <1>2, <2>1, <4>1, <4>2 DEF Custody, OnePlace
    <3>2. CASE ~InRun(d)
      <4>1. Mine(d)
        BY <3>2 DEF Working, Custody, LockHeld
      <4> QED
        BY <1>2, <4>1 DEF Mine, LockedOnly
    <3> QED
      BY <3>1, <3>2
  <2>6. Shape'
    BY <2>2, <2>4 DEF Custody, Shape
  <2>7. LockHeld'
    BY <1>2, <2>1, <2>2 DEF Custody, LockHeld, Mine
  <2>8. HasFile'
    <3> SUFFICES ASSUME NEW d \in Client, Working(d)'
                 PROVE  /\ file[job'[d].at][job'[d].task] # NoFile
                        /\ pc'[d] = "rename" => job'[d].at # job'[d].to
      BY <1>1 DEF HasFile, Exists
    <3>1. CASE d = c
      BY <2>1, <2>2, <2>3, <3>1 DEF Exists
    <3>2. CASE d # c
      BY <2>2, <2>4, <3>2 DEF Custody, HasFile, Exists
    <3> QED
      BY <3>1, <3>2
  <2>9. PastPending'
    BY <1>2, <2>2 DEF Custody, PastPending, InRun, LockOps
  <2>10. SoleWorker'
    BY <2>2, <2>4, <2>5 DEF Custody, SoleWorker
  <2>11. UsedIds'
    BY <1>1, <2>2 DEF Custody, UsedIds, Exists
  <2>12. FreshOpen'
    <3> SUFFICES ASSUME NEW d \in Client, pc'[d] = "open"
                 PROVE  /\ \A b \in Bucket : file[b][job'[d].task] = NoFile
                        /\ \A e \in Client : e # d /\ pc'[e] # "idle" =>
                                               job'[e].task # job'[d].task
      BY <1>1 DEF FreshOpen, Exists
    <3>1. d # c /\ pc[d] = "open" /\ job'[d] = job[d]
      BY <2>2, <2>3
    <3>2. \A e \in Client : pc'[e] # "idle" =>
                              pc[e] # "idle" /\ job'[e].task = job[e].task
      BY <1>1, <2>2
    <3> QED
      BY <3>1, <3>2 DEF Custody, FreshOpen, Exists
  <2>13. OnePlace'
    BY <1>1 DEF Custody, OnePlace, Exists
  <2> QED
    BY <2>6, <2>7, <2>8, <2>9, <2>10, <2>11, <2>12, <2>13 DEF Custody
<1> QED
  BY <1>3, <1>4

\* A move takes the only copy along with the only worker.
LEMMA RenameCustody ==
  ASSUME TypeInv, Custody, LockedOnly, NEW c \in Client, Rename(c)
  PROVE  Custody'
<1> USE DEF TypeInv, TypeOK, Goto, Ghosts
<1> DEFINE b == job[c].at
           t == job[c].task
           d == job[c].to
<1>1. pc[c] = "rename" /\ Working(c) /\ used' = used
  BY DEF Rename, Custody, Shape
<1>2. b \in Bucket /\ d \in Bucket /\ t \in Task /\ b # d /\ Exists(b, t)
  BY <1>1 DEF Custody, HasFile, Job
<1>3. /\ file' = [file EXCEPT ![d][t] = file[b][t], ![b][t] = NoFile]
      /\ job' = [job EXCEPT ![c] = [job[c] EXCEPT !.at = d]]
      /\ pc' = [pc EXCEPT ![c] = "read"]
      /\ lock' = lock
  BY <1>2 DEF Rename
<1>4. \A x \in Bucket, u \in Task :
         (file'[x][u] # NoFile) <=> (IF u = t THEN x = d ELSE Exists(x, u))
  <2>1. \A x \in Bucket : x # b => ~Exists(x, t)
    BY <1>2 DEF Custody, OnePlace
  <2> HIDE DEF b, t, d
  <2>2. \A x \in Bucket, u \in Task :
           file'[x][u] = IF u = t /\ x = b THEN NoFile
                         ELSE IF u = t /\ x = d THEN file[b][t] ELSE file[x][u]
    BY <1>2, <1>3
  <2> QED
    BY <1>2, <2>1, <2>2 DEF Exists
<1>5. /\ \A e \in Client : e # c => pc'[e] = pc[e] /\ job'[e] = job[e]
      /\ job'[c].op = job[c].op /\ job'[c].task = t /\ job'[c].to = d
      /\ job'[c].at = d /\ pc'[c] = "read"
  BY <1>3 DEF Job
<1>6. Working(c)' /\ \A e \in Client : e # c => (Working(e)' <=> Working(e))
  BY <1>1, <1>5 DEF Working, InRun
<1>7. \A e \in Client : e # c /\ Working(e) => job[e].task # t
  BY <1>1 DEF Custody, SoleWorker
<1>8. \A e \in Client : pc[e] = "open" => job[e].task # t
  BY <1>2 DEF Custody, FreshOpen
<1> HIDE DEF b, t, d
<1>9. Shape'
  BY <1>5, <1>6 DEF Custody, Shape
<1>10. LockHeld'
  BY <1>1, <1>3, <1>5 DEF Custody, LockHeld, Mine
<1>11. HasFile'
  <2> SUFFICES ASSUME NEW e \in Client, Working(e)'
               PROVE  /\ file'[job'[e].at][job'[e].task] # NoFile
                      /\ pc'[e] = "rename" => job'[e].at # job'[e].to
    BY DEF HasFile, Exists
  <2>1. CASE e = c
    BY <1>2, <1>4, <1>5, <2>1
  <2>2. CASE e # c
    <3>1. /\ job'[e] = job[e] /\ pc'[e] = pc[e] /\ Working(e)
          /\ job[e].task # t /\ Exists(job[e].at, job[e].task)
      BY <1>5, <1>6, <1>7, <2>2 DEF Custody, HasFile
    <3>2. job[e].at \in Bucket /\ job[e].task \in Task
      BY <3>1 DEF Job, Working
    <3> QED
      BY <1>4, <3>1, <3>2 DEF Custody, HasFile
  <2> QED
    BY <2>1, <2>2
<1>12. PastPending'
  <2>1. job[c].op = "run" => d # "pending"
    BY DEF Custody, PastPending, d
  <2>2. InRun(c) => d # "pending"
    BY DEF Custody, PastPending, d
  <2> QED
    BY <1>5, <2>1, <2>2 DEF Custody, PastPending, InRun
<1>13. SoleWorker'
  BY <1>5, <1>6, <1>7 DEF Custody, SoleWorker
<1>14. UsedIds'
  <2>1. t \in used
    BY <1>2 DEF Custody, UsedIds
  <2> QED
    BY <1>1, <1>4, <1>5, <2>1 DEF Custody, UsedIds, Exists
<1>15. FreshOpen'
  <2> SUFFICES ASSUME NEW e \in Client, pc'[e] = "open"
               PROVE  /\ \A x \in Bucket : file'[x][job'[e].task] = NoFile
                      /\ \A f \in Client : f # e /\ pc'[f] # "idle" =>
                                             job'[f].task # job'[e].task
    BY DEF FreshOpen, Exists
  <2>1. e # c /\ pc[e] = "open" /\ job'[e] = job[e] /\ job[e].task # t
        /\ job[e].task \in Task
    BY <1>5, <1>8
  <2>2. \A f \in Client : pc'[f] # "idle" =>
                            pc[f] # "idle" /\ job'[f].task = job[f].task
    BY <1>1, <1>5 DEF t
  <2> QED
    BY <1>4, <2>1, <2>2 DEF Custody, FreshOpen
<1>16. OnePlace'
  BY <1>4 DEF Custody, OnePlace, Exists
<1> QED
  BY <1>9, <1>10, <1>11, <1>12, <1>13, <1>14, <1>15, <1>16 DEF Custody

\* create_task opens the only file its task has.
LEMMA OpenCustody ==
  ASSUME TypeInv, Custody, LockedOnly, NEW c \in Client, Open(c)
  PROVE  Custody'
<1> USE DEF TypeInv, TypeOK, Goto, Ghosts
<1> DEFINE t == job[c].task
           new == [rev |-> 0, status |-> "unset", whole |-> FALSE,
                   writers |-> file["pending"][t].writers \cup {c}]
<1>1. /\ pc[c] = "open" /\ pc' = [pc EXCEPT ![c] = "dump"]
      /\ file' = [file EXCEPT !["pending"][t] = new]
      /\ job' = job /\ lock' = lock /\ used' = used
  BY DEF Open
<1>2. t \in Task /\ t \in used /\ "pending" \in Bucket /\ job[c].op = "create"
  BY <1>1 DEF Bucket, Custody, UsedIds, Shape, Working
<1>3. new # NoFile
  BY DEF NoFile
<1>4. \A b \in Bucket : ~Exists(b, t)
  BY <1>1 DEF Custody, FreshOpen
<1>5. \A d \in Client : d # c /\ pc[d] # "idle" => job[d].task # t
  BY <1>1 DEF Custody, FreshOpen
<1>6. ~Working(c) /\ ~Working(c)'
  BY <1>1, <1>2 DEF Working, InRun, LockOps
<1> HIDE DEF t, new
<1>7. \A x \in Bucket, u \in Task :
         (file'[x][u] # NoFile) <=> (IF u = t THEN x = "pending" ELSE Exists(x, u))
  BY <1>1, <1>2, <1>3, <1>4 DEF Exists
<1>8. \A d \in Client : d # c => pc'[d] = pc[d] /\ (Working(d)' <=> Working(d))
  BY <1>1 DEF Working, InRun
<1>9. Shape'
  BY <1>1, <1>2, <1>8 DEF Custody, Shape
<1>10. LockHeld'
  BY <1>1, <1>2 DEF Custody, LockHeld, Mine, LockOps
<1>11. HasFile'
  <2> SUFFICES ASSUME NEW d \in Client, Working(d)'
               PROVE  /\ file'[job[d].at][job[d].task] # NoFile
                      /\ pc'[d] = "rename" => job[d].at # job[d].to
    BY <1>1 DEF HasFile, Exists
  <2>1. d # c /\ Working(d) /\ pc[d] # "idle" /\ pc'[d] = pc[d]
    BY <1>6, <1>8 DEF Working
  <2>2. job[d].at \in Bucket /\ job[d].task \in Task /\ job[d].task # t
    BY <1>5, <2>1 DEF Job
  <2> QED
    BY <1>7, <2>1, <2>2 DEF Custody, HasFile
<1>12. PastPending'
  BY <1>1 DEF Custody, PastPending, InRun
<1>13. SoleWorker'
  BY <1>1, <1>6, <1>8 DEF Custody, SoleWorker
<1>14. UsedIds'
  BY <1>1, <1>2, <1>7 DEF Custody, UsedIds, Exists
<1>15. FreshOpen'
  <2> SUFFICES ASSUME NEW d \in Client, pc'[d] = "open"
               PROVE  /\ \A b \in Bucket : file'[b][job[d].task] = NoFile
                      /\ \A e \in Client : e # d /\ pc'[e] # "idle" =>
                                             job[e].task # job[d].task
    BY <1>1 DEF FreshOpen, Exists
  <2>1. d # c /\ pc[d] = "open" /\ job[d].task \in Task /\ job[d].task # t
    BY <1>1, <1>5
  <2>2. \A e \in Client : pc'[e] # "idle" => pc[e] # "idle"
    BY <1>1
  <2> QED
    BY <1>7, <2>1, <2>2 DEF Custody, FreshOpen
<1>16. OnePlace'
  BY <1>7 DEF Custody, OnePlace, Exists
<1> QED
  BY <1>9, <1>10, <1>11, <1>12, <1>13, <1>14, <1>15, <1>16 DEF Custody

\* A crash takes every client of the process with it, or nobody.
LEMMA CrashCustody ==
  ASSUME TypeInv, Custody, LockedOnly, NEW p \in Process, Crash(p)
  PROVE  Custody'
<1> USE DEF TypeInv, TypeOK, Goto, Ghosts
<1> DEFINE dead == {c \in Client : ProcessOf[c] = p}
<1>1. SameFiles
  <2> SUFFICES ASSUME NEW b \in Bucket, NEW t \in Task
               PROVE  file'[b][t] # NoFile <=> file[b][t] # NoFile
    BY DEF SameFiles
  <2>1. file'[b][t] = [file[b][t] EXCEPT !.writers = file[b][t].writers \ dead]
    BY DEF Crash
  <2>2. CASE file[b][t] = NoFile
    <3>1. NoFile.writers \ dead = NoFile.writers
      BY DEF NoFile
    <3> QED
      BY <2>1, <2>2, <3>1 DEF NoFile
  <2>3. CASE file[b][t] # NoFile
    <3>1. file[b][t] \in Copy
      BY <2>3
    <3>2. file'[b][t] \in Copy
      BY <2>1, <3>1 DEF Copy
    <3> QED
      BY <2>3, <3>2, NoFileIsNoCopy
  <2> QED
    BY <2>2, <2>3
<1>2. used' = used /\ lock' = [lock EXCEPT ![p] = NULL]
  BY DEF Crash
<1>3. (\A c \in Client : pc'[c] # "idle" => job'[c].task \in used')
         => UsedIds' /\ OnePlace'
  BY <1>1, <1>2 DEF Custody, UsedIds, OnePlace, Exists, SameFiles
<1>4. CASE dead = {}
  <2>1. \A c \in Client : pc'[c] = pc[c] /\ job'[c] = job[c]
    BY <1>4 DEF Crash
  <2>2. \A c \in Client : Working(c)' <=> Working(c)
    BY <2>1 DEF Working, InRun
  <2>3. Shape'
    BY <2>1, <2>2 DEF Custody, Shape
  <2>4. LockHeld'
    BY <1>2, <1>4, <2>1, ClientAssumption DEF Custody, LockHeld, Mine
  <2>5. HasFile'
    <3> SUFFICES ASSUME NEW d \in Client, Working(d)'
                 PROVE  /\ file'[job'[d].at][job'[d].task] # NoFile
                        /\ pc'[d] = "rename" => job'[d].at # job'[d].to
      BY DEF HasFile, Exists
    <3>1. Working(d) /\ job[d].at \in Bucket /\ job[d].task \in Task
      BY <2>2 DEF Job, Working
    <3> QED
      BY <1>1, <2>1, <3>1 DEF Custody, HasFile, Exists, SameFiles
  <2>6. PastPending'
    BY <2>1 DEF Custody, PastPending, InRun
  <2>7. SoleWorker'
    BY <2>1, <2>2 DEF Custody, SoleWorker
  <2>8. UsedIds' /\ OnePlace'
    BY <1>2, <1>3, <2>1 DEF Custody, UsedIds
  <2>9. FreshOpen'
    <3> SUFFICES ASSUME NEW d \in Client, pc'[d] = "open"
                 PROVE  /\ \A b \in Bucket : file'[b][job'[d].task] = NoFile
                        /\ \A e \in Client : e # d /\ pc'[e] # "idle" =>
                                               job'[e].task # job'[d].task
      BY DEF FreshOpen, Exists
    <3>1. pc[d] = "open" /\ job[d].task \in Task
      BY <2>1
    <3> QED
      BY <1>1, <2>1, <3>1 DEF Custody, FreshOpen, Exists, SameFiles
  <2> QED
    BY <2>3, <2>4, <2>5, <2>6, <2>7, <2>8, <2>9 DEF Custody
<1>5. CASE dead # {}
  <2>1. \A c \in Client : c \in dead
    BY <1>5 DEF LockedOnly
  <2>2. \A c \in Client : pc'[c] = "idle" /\ job'[c] = NoJob
    BY <2>1 DEF Crash
  <2>3. \A c \in Client : ~Working(c)' /\ job'[c].op = "create"
    BY <2>2 DEF Working, NoJob, LockOps, InRun
  <2> QED
    BY <1>3, <2>2, <2>3 DEF Custody, Shape, LockHeld, HasFile, PastPending,
       SoleWorker, FreshOpen, InRun, LockOps
<1> QED
  BY <1>4, <1>5

\* The dump of a new task replaces the content of a file that is there.
LEMMA DumpCustody ==
  ASSUME TypeInv, Custody, LockedOnly, NEW c \in Client, Dump(c)
  PROVE  Custody'
<1> USE DEF TypeInv, TypeOK, Goto
<1> DEFINE t == job[c].task
           new(b) == [job[c].data EXCEPT !.writers = @ \cup
                        (file[b][t].writers \ {c})]
<1>1. pc[c] = "dump" /\ used' = used /\ t \in Task /\ job[c].data \in Copy
  BY DEF Dump, Job
<1>2. job[c].op = "create" /\ Leave(c)
  BY <1>1 DEF Dump, Custody, Shape, Working
<1>3. \A b \in Bucket : new(b) # NoFile
  <2>1. job[c].data.status # "none"
    BY <1>1 DEF Copy, Bucket
  <2>2. \A b \in Bucket : new(b).status = job[c].data.status
    BY <1>1 DEF Copy
  <2>3. NoFile.status = "none"
    BY DEF NoFile
  <2> QED
    BY <2>1, <2>2, <2>3
<1>4. file' = [b \in Bucket |-> [file[b] EXCEPT ![t] =
                 IF c \in file[b][t].writers THEN new(b) ELSE file[b][t]]]
  BY <1>1 DEF Dump
<1>5. \A b \in Bucket : c \in file[b][t].writers => file[b][t] # NoFile
  BY DEF NoFile
<1> HIDE DEF t, new
<1>6. SameFiles
  <2> SUFFICES ASSUME NEW b \in Bucket, NEW u \in Task
               PROVE  file'[b][u] # NoFile <=> file[b][u] # NoFile
    BY DEF SameFiles
  <2>1. CASE u = t
    BY <1>1, <1>3, <1>4, <1>5, <2>1
  <2>2. CASE u # t
    BY <1>1, <1>4, <2>2
  <2> QED
    BY <2>1, <2>2
<1> QED
  BY <1>1, <1>2, <1>6, LeaveCustody

\* The steps of a working client that stay at its file.
LEMMA ParseCustody ==
  ASSUME TypeInv, Custody, LockedOnly, NEW c \in Client, Parse(c)
  PROVE  Custody'
<1>1. SameFiles /\ used' = used /\ pc[c] = "parse"
  BY DEF Parse, SameFiles, Ghosts
<1>2. CASE Leave(c)
  BY <1>1, <1>2, LeaveCustody
<1>3. CASE ~Leave(c)
  <2>1. Working(c) /\ job[c].op \in LockOps /\ job[c] \in Job
    BY <1>1 DEF Custody, Shape, Working, TypeInv, TypeOK
  <2>2. Goto(c, "read") /\ job' = [job EXCEPT ![c] = job[c]] /\ lock' = lock
    BY <1>3 DEF Parse, TypeInv, TypeOK
  <2> QED
    BY <1>1, <2>1, <2>2, WithinCustody
<1> QED
  BY <1>2, <1>3

\* An exception in a run leaves the run with its file.
LEMMA RaiseCustody ==
  ASSUME TypeInv, Custody, LockedOnly, NEW c \in Client, Working(c), Raise(c),
         SameFiles, used' = used
  PROVE  Custody'
<1>1. CASE job[c].op = "exec"
  <2> DEFINE j1 == [job[c] EXCEPT !.op = "finalize"]
             j2 == [j1 EXCEPT !.to = "failed"]
             j3 == [j2 EXCEPT !.left = 1]
  <2>1. job[c] \in Job /\ job[c].at # "pending"
    BY <1>1 DEF TypeInv, TypeOK, Custody, PastPending, InRun
  <2>2. j1 \in Job /\ j1.task = job[c].task /\ j1.at = job[c].at /\ j1.op = "finalize"
    BY <2>1 DEF Job, Phase
  <2> HIDE DEF j1
  <2>3. j2 \in Job /\ j2.task = j1.task /\ j2.at = j1.at /\ j2.op = "finalize"
        /\ j2.to = "failed"
    BY <2>2 DEF Job, Bucket
  <2> HIDE DEF j2
  <2>4. j3 \in Job /\ j3.task = j2.task /\ j3.at = j2.at /\ j3.op = "finalize"
        /\ j3.to = "failed"
    BY <2>3 DEF Job
  <2>5. job' = [job EXCEPT ![c] = j3] /\ Goto(c, "read") /\ lock' = lock
    BY <1>1 DEF Raise, j1, j2
  <2> HIDE DEF j3
  <2> QED
    BY <2>1, <2>2, <2>3, <2>4, <2>5, WithinCustody
<1>2. CASE job[c].op # "exec"
  BY <1>2, LeaveCustody DEF Raise
<1> QED
  BY <1>1, <1>2

LEMMA ReadCustody ==
  ASSUME TypeInv, Custody, LockedOnly, NEW c \in Client, Read(c)
  PROVE  Custody'
<1> DEFINE old == file[job[c].at][job[c].task]
           new == Stamped(job[c], old)
<1>1. SameFiles /\ used' = used /\ pc[c] = "read" /\ Working(c)
  BY DEF Read, SameFiles, Ghosts, Custody, Shape, Working
<1>2. CASE Leave(c)
  BY <1>1, <1>2, LeaveCustody
<1>3. CASE Raise(c)
  BY <1>1, <1>3, RaiseCustody
<1>4. CASE old # NoFile /\ job' = [job EXCEPT ![c].data = new]
           /\ Goto(c, "write") /\ lock' = lock
  <2>1. job[c] \in Job /\ job[c].at \in Bucket /\ job[c].task \in Task
    BY <1>1 DEF TypeInv, TypeOK, Job
  <2>2. new \in Copy
    BY <1>4, <2>1, StampedType DEF TypeInv, TypeOK
  <2> HIDE DEF new
  <2> DEFINE j == [job[c] EXCEPT !.data = new]
  <2>3. j \in Job /\ j.op = job[c].op /\ j.to = job[c].to /\ j.at = job[c].at
        /\ j.task = job[c].task
    BY <2>1, <2>2 DEF Job
  <2>4. job' = [job EXCEPT ![c] = j]
    BY <1>4
  <2>5. InRun(c) => job[c].at # "pending" /\ job[c].to # "pending"
    BY DEF Custody, PastPending
  <2> HIDE DEF j
  <2>6. CASE job[c].op \in LockOps
    BY <1>1, <1>4, <2>3, <2>4, <2>6, WithinCustody
  <2>7. CASE InRun(c)
    BY <1>1, <1>4, <2>3, <2>4, <2>5, <2>7, WithinCustody DEF InRun
  <2> QED
    BY <1>1, <2>6, <2>7 DEF Working
<1> QED
  BY <1>2, <1>3, <1>4 DEF Read

LEMMA WriteCustody ==
  ASSUME TypeInv, Custody, LockedOnly, NEW c \in Client, Write(c)
  PROVE  Custody'
<1>1. /\ SameFiles /\ used' = used /\ Working(c) /\ Goto(c, "replace")
      /\ lock' = lock /\ job' = [job EXCEPT ![c] = job[c]] /\ job[c] \in Job
  BY DEF Write, SameFiles, Ghosts, Custody, Shape, Working, TypeInv, TypeOK
<1>2. InRun(c) => job[c].at # "pending" /\ job[c].to # "pending"
  BY DEF Custody, PastPending
<1>3. CASE job[c].op \in LockOps
  BY <1>1, <1>3, WithinCustody
<1>4. CASE InRun(c)
  BY <1>1, <1>2, <1>4, WithinCustody DEF InRun
<1> QED
  BY <1>1, <1>3, <1>4 DEF Working

LEMMA ExecuteCustody ==
  ASSUME TypeInv, Custody, LockedOnly, NEW c \in Client, Execute(c)
  PROVE  Custody'
<1>1. SameFiles /\ used' = used /\ Goto(c, "read") /\ lock' = lock
      /\ pc[c] = "execute"
  BY DEF Execute, SameFiles, Ghosts
<1>2. Working(c) /\ InRun(c) /\ job[c] \in Job
  BY <1>1 DEF Custody, Shape, Working, TypeInv, TypeOK
<1>3. job[c].at # "pending"
  BY <1>2 DEF Custody, PastPending
<1>4. CASE job' = [job EXCEPT ![c].to = "running"]
  <2> DEFINE j == [job[c] EXCEPT !.to = "running"]
  <2>1. /\ j \in Job /\ j.op = job[c].op /\ j.at = job[c].at
        /\ j.task = job[c].task /\ j.to = "running"
    BY <1>2 DEF Job, Bucket
  <2>2. job' = [job EXCEPT ![c] = j]
    BY <1>4
  <2> HIDE DEF j
  <2> QED
    BY <1>1, <1>2, <1>3, <2>1, <2>2, WithinCustody DEF InRun
<1>5. ASSUME NEW r \in Outcome,
             job' = [job EXCEPT ![c].op = "finalize", ![c].to = r, ![c].left = 1]
      PROVE  Custody'
  <2> DEFINE j1 == [job[c] EXCEPT !.op = "finalize"]
             j2 == [j1 EXCEPT !.to = r]
             j3 == [j2 EXCEPT !.left = 1]
  <2>1. j1 \in Job /\ j1.task = job[c].task /\ j1.at = job[c].at /\ j1.op = "finalize"
    BY <1>2 DEF Job, Phase
  <2> HIDE DEF j1
  <2>2. r \in Bucket /\ r # "pending"
    BY DEF Outcome, Bucket
  <2>3. j2 \in Job /\ j2.task = j1.task /\ j2.at = j1.at /\ j2.op = "finalize"
        /\ j2.to = r
    BY <2>1, <2>2 DEF Job
  <2> HIDE DEF j2
  <2>4. j3 \in Job /\ j3.task = j2.task /\ j3.at = j2.at /\ j3.op = "finalize"
        /\ j3.to = r
    BY <2>3 DEF Job
  <2>5. job' = [job EXCEPT ![c] = j3]
    BY <1>5 DEF j1, j2
  <2> HIDE DEF j3
  <2> QED
    BY <1>1, <1>2, <1>3, <2>1, <2>2, <2>3, <2>4, <2>5, WithinCustody
<1> QED
  BY <1>4, <1>5 DEF Execute

\* The replace writes over the file the client has; what follows is another
\* stamp, the move, the run itself, or the end of the function.
LEMMA ReplaceCustody ==
  ASSUME TypeInv, Custody, LockedOnly, NEW c \in Client, Replace(c)
  PROVE  Custody'
<1> DEFINE b == job[c].at
           t == job[c].task
           o == job[c].op
<1>1. Working(c) /\ pc[c] = "replace" /\ used' = used
  BY DEF Replace, Ghosts, Custody, Shape, Working
<1>2. /\ b \in Bucket /\ t \in Task /\ job[c] \in Job /\ job[c].left \in Nat
      /\ Exists(b, t)
  BY <1>1 DEF TypeInv, TypeOK, Job, Custody, HasFile
<1>3. SameFiles
  <2>1. CASE tmp[b][t] = NoFile
    BY <2>1 DEF Replace, SameFiles
  <2>2. CASE tmp[b][t] # NoFile
    <3>1. file' = [file EXCEPT ![b][t] = tmp[b][t]]
      BY <2>2 DEF Replace
    <3> HIDE DEF b, t
    <3> QED
      BY <1>2, <2>2, <3>1 DEF SameFiles, Exists, TypeInv, TypeOK
  <2> QED
    BY <2>1, <2>2
<1>4. InRun(c) => b # "pending" /\ job[c].to # "pending"
  BY DEF Custody, PastPending
<1>5. CASE tmp[b][t] = NoFile
  BY <1>1, <1>3, <1>5, RaiseCustody DEF Replace
<1>6. CASE tmp[b][t] # NoFile
  <2>1. CASE o = "exec" /\ Goto(c, "execute") /\ UNCHANGED <<lock, job>>
    <3>1. job' = [job EXCEPT ![c] = job[c]]
      BY <2>1 DEF TypeInv, TypeOK
    <3> QED
      BY <1>1, <1>2, <1>3, <1>4, <2>1, <3>1, WithinCustody DEF InRun
  <2>2. CASE /\ b # job[c].to /\ job[c].left > 1 /\ Goto(c, "read")
             /\ job' = [job EXCEPT ![c].left = @ - 1] /\ UNCHANGED lock
    <3> DEFINE j == [job[c] EXCEPT !.left = job[c].left - 1]
    <3>1. job[c].left - 1 \in Nat
      BY <1>2, <2>2
    <3>2. /\ j \in Job /\ j.op = o /\ j.at = b /\ j.task = t /\ j.to = job[c].to
      BY <1>2, <3>1 DEF Job
    <3>3. job' = [job EXCEPT ![c] = j]
      BY <2>2
    <3> HIDE DEF j
    <3>4. CASE o \in LockOps
      BY <1>1, <1>3, <2>2, <3>2, <3>3, <3>4, WithinCustody
    <3>5. CASE InRun(c)
      BY <1>1, <1>3, <1>4, <2>2, <3>2, <3>3, <3>5, WithinCustody DEF InRun
    <3> QED
      BY <1>1, <3>4, <3>5 DEF Working
  <2>3. CASE b # job[c].to /\ Goto(c, "rename") /\ UNCHANGED <<job, lock>>
    <3>1. job' = [job EXCEPT ![c] = job[c]]
      BY <2>3 DEF TypeInv, TypeOK
    <3>2. CASE o \in LockOps
      BY <1>1, <1>2, <1>3, <2>3, <3>1, <3>2, WithinCustody
    <3>3. CASE InRun(c)
      BY <1>1, <1>2, <1>3, <1>4, <2>3, <3>1, <3>3, WithinCustody DEF InRun
    <3> QED
      BY <1>1, <3>2, <3>3 DEF Working
  <2>4. CASE /\ o = "run" /\ b = job[c].to
             /\ lock' = [lock EXCEPT ![ProcessOf[c]] = NULL]
             /\ job' = [job EXCEPT ![c].op = "exec"]
             /\ Goto(c, "execute")
    <3> DEFINE j == [job[c] EXCEPT !.op = "exec"]
    <3>1. j \in Job /\ j.op = "exec" /\ j.at = b /\ j.task = t /\ j.to = job[c].to
      BY <1>2 DEF Job, Phase
    <3>2. job' = [job EXCEPT ![c] = j]
      BY <2>4
    <3>3. Mine(c) /\ job[c].to # "pending"
      BY <1>1, <2>4 DEF Custody, LockHeld, PastPending, LockOps
    <3> HIDE DEF j
    <3> QED
      BY <1>1, <1>3, <2>4, <3>1, <3>2, <3>3, WithinCustody
  <2>5. CASE Leave(c)
    BY <1>1, <1>3, <2>5, LeaveCustody
  <2> QED
    BY <1>6, <2>1, <2>2, <2>3, <2>4, <2>5 DEF Replace
<1> QED
  BY <1>5, <1>6

LEMMA CustodyNext ==
  ASSUME TypeInv, Custody, LockedOnly, [Next]_vars
  PROVE  Custody'
<1>1. ASSUME NEW c \in Client, Load(c) \/ Unlink(c) PROVE FALSE
  BY <1>1 DEF Load, Unlink, Custody, Shape, Working
<1>2. CASE UNCHANGED vars
  <2>1. \A c \in Client : Working(c)' <=> Working(c)
    BY <1>2 DEF vars, Working, InRun
  <2> QED
    BY <1>2, <2>1 DEF vars, Custody, Shape, LockHeld, HasFile, PastPending,
       SoleWorker, UsedIds, FreshOpen, OnePlace, Exists, Mine, InRun
<1>3. CASE \E c \in Client : Step(c)
  BY <1>1, <1>3, AcquireCustody, CheckCustody, ParseCustody, ReadCustody,
     WriteCustody, ReplaceCustody, RenameCustody, ExecuteCustody, OpenCustody,
     DumpCustody DEF Step
<1>4. CASE \E c \in Client, o \in OpName, t \in Task : Call(c, o, t)
  BY <1>4, CallCustody
<1>5. CASE \E p \in Process : Crash(p)
  BY <1>5, CrashCustody
<1> QED
  BY <1>2, <1>3, <1>4, <1>5 DEF Next

\* In one process, starting, running, editing, shelving and creating tasks
\* never leave a task in two buckets: for every number of threads and every
\* crash, PENDING_MUTATION_LOCK is enough for the functions that take it.
THEOREM OneCopyLocked ==
  ASSUME LockedOnly
  PROVE  Spec => []OneCopy
<1>1. Custody => OneCopy
  BY DEF Custody, OnePlace, OneCopy
<1>2. Init => TypeInv /\ Custody
  BY TypeInit, CustodyInit
<1>3. TypeInv /\ Custody /\ [Next]_vars => (TypeInv /\ Custody)'
  BY TypeNext, CustodyNext
<1> QED
  BY <1>1, <1>2, <1>3, PTL DEF Spec

-----------------------------------------------------------------------------
(* Content: what the copies hold, where custody is kept *)

\* A call on a task that exists was made on one with all its fields.
Called ==
  \A c \in Client : pc[c] # "idle" /\ job[c].op # "create" => Listed(job[c].task)

\* What was reported, a creation or an edit, is of a task with all its fields.
Reported == \A t \in Task : t \in live \/ acked[t] # 0 => Listed(t)

\* What a client is about to write over a file is complete, and no older
\* than what was acknowledged; and the shared temporary file is its own.
Stamps ==
  \A c \in Client : pc[c] \in {"write", "replace"} =>
    /\ job[c].data.whole /\ job[c].data.writers = {}
    /\ job[c].data.rev >= acked[job[c].task]
    /\ pc[c] = "replace" => tmp[job[c].at][job[c].task] = job[c].data

\* A file is open for writing only where its task is being created.
Opened ==
  \A b \in Bucket, t \in Task, c \in Client : c \in file[b][t].writers =>
    pc[c] = "dump" /\ job[c].task = t

Creating ==
  \A c \in Client :
    /\ pc[c] \in {"open", "dump"} => job[c].data = Fresh
    /\ pc[c] = "dump" => /\ ~file["pending"][job[c].task].whole
                         /\ file["pending"][job[c].task].writers = {c}

Content == Called /\ Reported /\ EditsDurable /\ Stamps /\ Opened /\ Creating

LEMMA ContentInit == ASSUME Init PROVE Content
<1>1. PICK place \in [Task -> Bucket \cup {NULL}] :
         /\ file = [b \in Bucket |-> [t \in Task |->
               IF place[t] = b THEN [Fresh EXCEPT !.status =
                                       IF b = "pending" THEN "unset" ELSE b]
                               ELSE NoFile]]
         /\ live = {t \in Task : place[t] # NULL}
  BY DEF Init
<1>2. \A b \in Bucket, t \in Task : file[b][t].writers = {} /\ file[b][t].rev = 0
  BY <1>1 DEF Fresh, NoFile
<1>3. \A b \in Bucket, t \in Task : place[t] = b => file[b][t].whole
  BY <1>1 DEF Fresh
<1>4. /\ \A c \in Client : pc[c] = "idle"
      /\ \A t \in Task : acked[t] = 0
  BY DEF Init
<1>5. Reported
  BY <1>1, <1>3, <1>4, ClientAssumption DEF Reported, Listed
<1>6. EditsDurable
  BY <1>2, <1>4 DEF EditsDurable
<1> QED
  BY <1>2, <1>4, <1>5, <1>6 DEF Content, Called, Stamps, Opened, Creating

\* A working client's file has all its fields.
LEMMA WorkingWhole ==
  ASSUME TypeInv, Custody, Content, NEW c \in Client, Working(c)
  PROVE  file[job[c].at][job[c].task].whole
<1>1. pc[c] # "idle" /\ job[c].op # "create" /\ job[c].at \in Bucket
      /\ job[c].task \in Task /\ Exists(job[c].at, job[c].task)
  BY DEF Working, InRun, LockOps, TypeInv, TypeOK, Job, Custody, HasFile
<1>2. PICK b \in Bucket : file[b][job[c].task].whole
  BY <1>1 DEF Content, Called, Listed
<1>3. Exists(b, job[c].task)
  BY <1>2 DEF Exists, NoFile
<1> QED
  BY <1>1, <1>2, <1>3 DEF Custody, OnePlace

\* A copy that is open for writing is of a task nobody else works on.
LEMMA WholeIsClosed ==
  ASSUME TypeInv, Custody, Content, NEW b \in Bucket, NEW t \in Task, file[b][t].whole
  PROVE  file[b][t].writers = {}
<1> SUFFICES ASSUME NEW c \in file[b][t].writers PROVE FALSE
  OBVIOUS
<1>1. c \in Client /\ Exists(b, t)
  BY DEF TypeInv, TypeOK, Copy, NoFile, Exists
<1>2. /\ ~file["pending"][t].whole /\ file["pending"][t].writers = {c}
  BY <1>1 DEF Content, Opened, Creating
<1>3. Exists("pending", t) /\ "pending" \in Bucket
  BY <1>2 DEF Exists, NoFile, Bucket
<1> QED
  BY <1>1, <1>2, <1>3 DEF Custody, OnePlace

\* A step of one client that touches no file, and leaves it with no stamp but
\* of what is there.
LEMMA QuietContent ==
  ASSUME TypeInv, Content, NEW c \in Client,
         UNCHANGED <<file, tmp, live, acked>>,
         \A d \in Client : d # c => pc'[d] = pc[d] /\ job'[d] = job[d],
         pc[c] # "dump", pc'[c] \notin {"dump", "replace"},
         pc'[c] # "idle" /\ job'[c].op # "create" => Listed(job'[c].task),
         pc'[c] = "open" => job'[c].data = Fresh,
         pc'[c] = "write" => /\ job'[c].data.whole /\ job'[c].data.writers = {}
                             /\ job'[c].data.rev >= acked[job'[c].task]
  PROVE  Content'
<1>1. Called'
  BY DEF Content, Called, Listed
<1>2. Reported' /\ EditsDurable'
  BY DEF Content, Reported, EditsDurable, Listed
<1>3. Stamps'
  BY DEF Content, Stamps
<1>4. Opened'
  BY DEF Content, Opened, TypeInv, TypeOK
<1>5. Creating'
  BY DEF Content, Creating
<1> QED
  BY <1>1, <1>2, <1>3, <1>4, <1>5 DEF Content

LEMMA LeaveQuiet ==
  ASSUME TypeInv, Content, NEW c \in Client, Leave(c), pc[c] # "dump",
         UNCHANGED <<file, tmp, live, acked>>
  PROVE  Content'
<1>1. /\ \A d \in Client : d # c => pc'[d] = pc[d] /\ job'[d] = job[d]
      /\ pc'[c] = "idle"
  BY DEF Leave, Goto, TypeInv, TypeOK
<1> QED
  BY <1>1, QuietContent

\* The steps that touch no file.
LEMMA CallContent ==
  ASSUME TypeInv, Custody, Content, NEW c \in Client, NEW o \in OpName,
         NEW t \in Task, Call(c, o, t)
  PROVE  Content'
<1> USE DEF Call, Goto, Ghosts, TypeInv, TypeOK
<1>1. /\ \A d \in Client : d # c => pc'[d] = pc[d] /\ job'[d] = job[d]
      /\ job'[c].op = o /\ job'[c].task = t /\ job'[c].data = Fresh
      /\ pc'[c] \in {"acquire", "open", "check"}
  BY DEF NoJob
<1>2. o # "create" => Listed(t)
  OBVIOUS
<1>3. UNCHANGED <<file, tmp, live, acked>> /\ pc[c] = "idle"
  OBVIOUS
<1> QED
  BY <1>1, <1>2, <1>3, QuietContent

LEMMA ReadyContent ==
  ASSUME TypeInv, Custody, Content, LockedOnly, NEW c \in Client,
         Acquire(c) \/ Check(c) \/ Parse(c) \/ Execute(c)
  PROVE  Content'
<1> USE DEF Goto, Ghosts
<1>1. UNCHANGED <<file, tmp, live, acked>>
  BY DEF Acquire, Check, Parse, Execute
<1>2. pc[c] \in {"acquire", "check", "parse", "execute"}
  BY DEF Acquire, Check, Parse, Execute
<1>3. job[c].op # "create" /\ Listed(job[c].task)
  BY <1>2 DEF Custody, Shape, Working, LockOps, InRun, Content, Called
<1>4. CASE Leave(c)
  BY <1>1, <1>2, <1>4, LeaveQuiet
<1>5. CASE ~Leave(c)
  <2>1. \A d \in Client : d # c => pc'[d] = pc[d] /\ job'[d] = job[d]
    BY <1>5 DEF Acquire, Check, Parse, Execute, TypeInv, TypeOK
  <2>2. job'[c].task = job[c].task
    <3>1. CASE Acquire(c) \/ Parse(c)
      BY <1>5, <3>1 DEF Acquire, Parse
    <3>2. CASE Check(c)
      BY <1>5, <3>2 DEF Check, TypeInv, TypeOK, Job
    <3>3. CASE Execute(c) /\ job' = [job EXCEPT ![c].to = "running"]
      BY <3>3 DEF TypeInv, TypeOK, Job
    <3>4. ASSUME NEW r \in Outcome,
                 job' = [job EXCEPT ![c].op = "finalize", ![c].to = r, ![c].left = 1]
          PROVE  job'[c].task = job[c].task
      <4> DEFINE j1 == [job[c] EXCEPT !.op = "finalize"]
                 j2 == [j1 EXCEPT !.to = r]
                 j3 == [j2 EXCEPT !.left = 1]
      <4>1. job' = [job EXCEPT ![c] = j3] /\ job[c] \in Job
        BY <3>4 DEF TypeInv, TypeOK
      <4>2. j1 \in Job /\ j1.task = job[c].task
        BY <4>1, JobField DEF Phase
      <4> HIDE DEF j1
      <4>3. j2 \in Job /\ j2.task = j1.task
        BY <4>2, JobField DEF Outcome, Bucket
      <4> HIDE DEF j2
      <4>4. j3.task = j2.task
        BY <4>3, JobField
      <4> HIDE DEF j3
      <4> QED
        BY <4>1, <4>2, <4>3, <4>4 DEF TypeInv, TypeOK
    <3> QED
      BY <3>1, <3>2, <3>3, <3>4 DEF Execute
  <2>3. pc'[c] \in {"check", "read", "load", "unlink", "parse"}
    BY <1>5 DEF Acquire, Check, Parse, Execute, TypeInv, TypeOK
  <2> QED
    BY <1>1, <1>2, <1>3, <2>1, <2>2, <2>3, QuietContent
<1> QED
  BY <1>4, <1>5, SMTT(30)

\* What is read and stamped is complete and no older than any acknowledged edit.
LEMMA ReadContent ==
  ASSUME TypeInv, Custody, Content, LockedOnly, NEW c \in Client, Read(c)
  PROVE  Content'
<1> DEFINE t == job[c].task
           old == file[job[c].at][t]
           new == Stamped(job[c], old)
<1>1. /\ UNCHANGED <<file, tmp, live, acked>> /\ pc[c] = "read" /\ Working(c)
  BY DEF Read, Ghosts, Custody, Shape, Working
<1>2. /\ job[c] \in Job /\ job[c].at \in Bucket /\ t \in Task /\ old.whole
      /\ Listed(t) /\ Exists(job[c].at, t)
  BY <1>1, WorkingWhole DEF TypeInv, TypeOK, Job, Listed, Custody, HasFile
<1>3. CASE Leave(c)
  BY <1>1, <1>3, LeaveQuiet
<1>4. CASE /\ job' = [job EXCEPT ![c].data = new]
           /\ Goto(c, "write")
  <2>1. old \in Copy /\ acked[t] \in Nat
    BY <1>2 DEF TypeInv, TypeOK, Exists
  <2>2. old.rev >= acked[t]
    BY <1>2 DEF Content, EditsDurable
  <2>3. new.whole /\ new.writers = {} /\ new.rev >= acked[t]
    <3> DEFINE rev == IF job[c].op = "edit" THEN old.rev + 1 ELSE old.rev
               status == IF job[c].at = job[c].to /\ job[c].op \notin {"edit", "exec"}
                         THEN job[c].to
                         ELSE IF job[c].op \in {"done", "fail", "finalize"}
                         THEN job[c].to ELSE old.status
    <3>1. rev >= acked[t]
      BY <2>1, <2>2 DEF Copy
    <3>2. new = [old EXCEPT !.writers = {}, !.rev = rev, !.status = status]
      BY DEF Stamped
    <3> HIDE DEF rev, status, new, old
    <3> QED
      BY <1>2, <2>1, <3>1, <3>2 DEF Copy
  <2>4. /\ \A d \in Client : d # c => pc'[d] = pc[d] /\ job'[d] = job[d]
        /\ pc'[c] = "write" /\ job'[c].data = new /\ job'[c].task = t
    BY <1>2, <1>4 DEF TypeInv, TypeOK, Job, Goto
  <2> HIDE DEF new
  <2> QED
    BY <1>1, <1>2, <2>3, <2>4, QuietContent
<1>5. old # NoFile
  BY <1>2 DEF Exists
<1> QED
  BY <1>3, <1>4, <1>5 DEF Read

\* The shared temporary file is the writer's own: nobody else works on its task.
LEMMA WriteContent ==
  ASSUME TypeInv, Custody, Content, LockedOnly, NEW c \in Client, Write(c)
  PROVE  Content'
<1> USE DEF Goto, Ghosts
<1>1. /\ UNCHANGED <<file, live, acked, job>> /\ pc[c] = "write"
      /\ pc' = [pc EXCEPT ![c] = "replace"]
      /\ tmp' = [tmp EXCEPT ![job[c].at][job[c].task] = job[c].data]
  BY DEF Write
<1>2. /\ pc[c] # "idle" /\ job[c].op # "create" /\ pc[c] # "dump"
      /\ \A d \in Client : d # c => pc'[d] = pc[d]
      /\ pc'[c] = "replace" /\ Working(c)
      /\ job[c].at \in Bucket /\ job[c].task \in Task
  BY <1>1 DEF Custody, Shape, Working, LockOps, InRun, TypeInv, TypeOK, Job
<1>3. Called'
  BY <1>1, <1>2 DEF Content, Called, Listed
<1>4. Reported' /\ EditsDurable'
  BY <1>1 DEF Content, Reported, EditsDurable, Listed
<1>5. Stamps'
  <2> SUFFICES ASSUME NEW d \in Client, pc'[d] \in {"write", "replace"}
               PROVE  /\ job[d].data.whole /\ job[d].data.writers = {}
                      /\ job[d].data.rev >= acked[job[d].task]
                      /\ pc'[d] = "replace" =>
                           tmp'[job[d].at][job[d].task] = job[d].data
    BY <1>1 DEF Stamps
  <2>1. pc[d] \in {"write", "replace"}
    BY <1>1, <1>2
  <2>2. /\ job[d].data.whole /\ job[d].data.writers = {}
        /\ job[d].data.rev >= acked[job[d].task]
        /\ pc[d] = "replace" => tmp[job[d].at][job[d].task] = job[d].data
    BY <2>1 DEF Content, Stamps
  <2>3. CASE d = c
    BY <1>1, <1>2, <2>2, <2>3 DEF TypeInv, TypeOK
  <2>4. CASE d # c
    <3>1. Working(d) /\ pc'[d] = pc[d]
      BY <1>2, <2>1, <2>4 DEF Custody, Shape, Working
    <3>2. job[d].task # job[c].task
      BY <1>2, <2>4, <3>1 DEF Custody, SoleWorker
    <3>3. job[d].at \in Bucket /\ job[d].task \in Task
      BY <3>1, <2>1 DEF TypeInv, TypeOK, Job
    <3>4. tmp'[job[d].at][job[d].task] = tmp[job[d].at][job[d].task]
      BY <1>1, <1>2, <3>2, <3>3 DEF TypeInv, TypeOK
    <3> QED
      BY <2>2, <3>1, <3>4
  <2> QED
    BY <2>3, <2>4
<1>6. Opened'
  BY <1>1, <1>2 DEF Content, Opened, TypeInv, TypeOK
<1>7. Creating'
  BY <1>1, <1>2 DEF Content, Creating
<1> QED
  BY <1>3, <1>4, <1>5, <1>6, <1>7 DEF Content

\* What a client changes in the files of one task others do not see: they
\* have no stamp for it and do not create it.
LEMMA OthersApart ==
  ASSUME TypeInv, Custody, Content, NEW c \in Client, Working(c),
         NEW d \in Client, d # c, pc[d] \in {"open", "dump", "write", "replace"}
  PROVE  job[d].task # job[c].task
<1>1. pc[c] # "idle" /\ file[job[c].at][job[c].task].whole /\ job[c].at \in Bucket
      /\ job[c].task \in Task /\ Exists(job[c].at, job[c].task)
  BY WorkingWhole DEF Working, TypeInv, TypeOK, Job, Custody, HasFile
<1>2. CASE pc[d] \in {"write", "replace"}
  BY <1>2 DEF Custody, Shape, SoleWorker, Working
<1>3. CASE pc[d] = "open"
  BY <1>1, <1>3 DEF Custody, FreshOpen
<1>4. CASE pc[d] = "dump"
  <2> SUFFICES ASSUME job[d].task = job[c].task PROVE FALSE
    OBVIOUS
  <2>1. /\ ~file["pending"][job[c].task].whole
        /\ file["pending"][job[c].task].writers = {d}
    BY <1>4 DEF Content, Creating
  <2>2. Exists("pending", job[c].task) /\ "pending" \in Bucket
    BY <2>1 DEF Exists, NoFile, Bucket
  <2> QED
    BY <1>1, <2>1, <2>2 DEF Custody, OnePlace
<1> QED
  BY <1>2, <1>3, <1>4

\* A worker changes the files of its own task only, to no copy, or to one that
\* is complete, closed and at least as new as what was acknowledged.
LEMMA WorkerContent ==
  ASSUME TypeInv, Custody, Content, NEW c \in Client, Working(c),
         NEW t \in Task, t = job[c].task,
         pc[c] \notin {"open", "dump"}, pc'[c] \notin {"open", "dump", "write", "replace"},
         \A d \in Client : d # c => pc'[d] = pc[d] /\ job'[d] = job[d],
         pc'[c] # "idle" => job'[c].task = t,
         live' = live,
         \A u \in Task : u # t =>
           /\ acked'[u] = acked[u]
           /\ \A b \in Bucket : file'[b][u] = file[b][u] /\ tmp'[b][u] = tmp[b][u],
         \E b \in Bucket : file'[b][t].whole,
         \A b \in Bucket :
           /\ file'[b][t].writers = {}
           /\ file'[b][t].whole =>
                file'[b][t].rev >= acked'[t]
  PROVE  Content'
<1>1. \A d \in Client : pc[d] # "idle" => job[d].task \in Task /\ job[d].at \in Bucket
  BY DEF TypeInv, TypeOK, Job
<1>2. Listed(t)'
  BY DEF Listed
<1>3. \A u \in Task : Listed(u) => Listed(u)'
  BY <1>2 DEF Listed
<1>4. pc[c] # "idle" /\ job[c].op # "create"
  BY DEF Working, LockOps, InRun
<1>5. Called'
  <2> SUFFICES ASSUME NEW d \in Client, pc'[d] # "idle", job'[d].op # "create"
               PROVE  \E b \in Bucket : file'[b][job'[d].task].whole
    BY DEF Called, Listed
  <2>1. CASE d = c
    BY <2>1
  <2>2. CASE d # c
    <3>1. job'[d] = job[d] /\ job[d].task \in Task /\ Listed(job[d].task)
      BY <1>1, <2>2 DEF Content, Called
    <3> QED
      BY <1>3, <3>1 DEF Listed
  <2> QED
    BY <2>1, <2>2
<1>6. Reported'
  BY <1>2, <1>3 DEF Content, Reported, Listed
<1>7. EditsDurable'
  BY DEF Content, EditsDurable
<1>8. \A d \in Client : pc'[d] \in {"open", "dump", "write", "replace"} =>
        d # c /\ pc'[d] = pc[d] /\ job'[d] = job[d] /\ job[d].task # t
        /\ job[d].task \in Task /\ job[d].at \in Bucket
  BY <1>1, OthersApart
<1>9. Stamps'
  BY <1>8 DEF Content, Stamps
<1>10. Opened'
  <2> SUFFICES ASSUME NEW b \in Bucket, NEW u \in Task, NEW d \in Client,
                      d \in file'[b][u].writers
               PROVE  pc'[d] = "dump" /\ job'[d].task = u
    BY DEF Opened
  <2>1. u # t /\ d \in file[b][u].writers
    OBVIOUS
  <2>2. pc[d] = "dump" /\ job[d].task = u
    BY <2>1 DEF Content, Opened
  <2> QED
    BY <2>2
<1>11. Creating'
  <2> SUFFICES ASSUME NEW d \in Client, pc'[d] \in {"open", "dump"}
               PROVE  /\ job'[d].data = Fresh
                      /\ pc'[d] = "dump" =>
                           /\ ~file'["pending"][job'[d].task].whole
                           /\ file'["pending"][job'[d].task].writers = {d}
    BY DEF Creating
  <2>1. /\ pc'[d] = pc[d] /\ job'[d] = job[d]
        /\ file'["pending"][job[d].task] = file["pending"][job[d].task]
    BY <1>8, SMTT(30) DEF Bucket
  <2> QED
    BY <2>1 DEF Content, Creating
<1> QED
  BY <1>5, <1>6, <1>7, <1>9, <1>10, <1>11 DEF Content

LEMMA ReplaceContent ==
  ASSUME TypeInv, Custody, Content, LockedOnly, NEW c \in Client, Replace(c)
  PROVE  Content'
<1> USE DEF Goto, Ghosts
<1> DEFINE b == job[c].at
<1>1. PICK t \in Task : t = job[c].task /\ b \in Bucket /\ job[c] \in Job
  BY DEF Replace, TypeInv, TypeOK, Job
<1>2. /\ Working(c) /\ pc[c] = "replace" /\ Exists(b, t) /\ tmp[b][t] = job[c].data
      /\ job[c].data.whole /\ job[c].data.writers = {}
      /\ job[c].data.rev >= acked[t] /\ job[c].data.rev \in Nat
  BY <1>1 DEF Replace, Custody, Shape, Working, HasFile, Content, Stamps, Job, Copy
<1>3. tmp[b][t] # NoFile
  BY <1>2 DEF NoFile
<1>4. /\ file' = [file EXCEPT ![b][t] = tmp[b][t]]
      /\ tmp' = [tmp EXCEPT ![b][t] = NoFile]
      /\ acked' = IF job[c].op = "edit"
                  THEN [acked EXCEPT ![t] = job[c].data.rev] ELSE acked
      /\ live' = live
  BY <1>1, <1>3 DEF Replace
<1>5. /\ \A d \in Client : d # c => pc'[d] = pc[d] /\ job'[d] = job[d]
      /\ pc'[c] \in {"idle", "execute", "read", "rename"}
      /\ pc'[c] # "idle" => job'[c].task = t
  <2>1. CASE Leave(c)
    BY <2>1 DEF Leave, TypeInv, TypeOK
  <2>2. CASE \/ Goto(c, "execute") /\ UNCHANGED job
             \/ Goto(c, "rename") /\ UNCHANGED job
    BY <1>1, <2>2 DEF TypeInv, TypeOK
  <2>3. CASE Goto(c, "read") /\ job' = [job EXCEPT ![c].left = @ - 1]
    BY <1>1, <2>3 DEF TypeInv, TypeOK, Job
  <2>4. CASE Goto(c, "execute") /\ job' = [job EXCEPT ![c].op = "exec"]
    BY <1>1, <2>4 DEF TypeInv, TypeOK, Job
  <2> QED
    BY <1>1, <1>3, <2>1, <2>2, <2>3, <2>4 DEF Replace
<1> HIDE DEF b
<1>6. /\ file'[b][t] = job[c].data /\ \A a \in Bucket \ {b} : file'[a][t] = file[a][t]
      /\ \A u \in Task : u # t =>
           /\ acked'[u] = acked[u]
           /\ \A a \in Bucket : file'[a][u] = file[a][u] /\ tmp'[a][u] = tmp[a][u]
      /\ acked'[t] = acked[t] \/ acked'[t] = job[c].data.rev
  BY <1>1, <1>2, <1>4 DEF TypeInv, TypeOK
<1>7. acked'[t] <= job[c].data.rev /\ acked[t] \in Nat
  BY <1>1, <1>2, <1>6 DEF TypeInv, TypeOK
<1>8. \A a \in Bucket \ {b} : file[a][t] = NoFile
  BY <1>1, <1>2 DEF Custody, OnePlace, Exists
<1>9. \A a \in Bucket : /\ file'[a][t].writers = {}
                        /\ file'[a][t].whole => file'[a][t].rev >= acked'[t]
  BY <1>2, <1>6, <1>7, <1>8 DEF NoFile
<1>10. \E a \in Bucket : file'[a][t].whole
  BY <1>1, <1>2, <1>6
<1> QED
  BY <1>1, <1>2, <1>4, <1>5, <1>6, <1>9, <1>10, WorkerContent

\* A rename carries the copy along, and replaces none.
LEMMA RenameContent ==
  ASSUME TypeInv, Custody, Content, LockedOnly, NEW c \in Client, Rename(c)
  PROVE  Content'
<1> USE DEF Goto, Ghosts
<1> DEFINE b == job[c].at
           to == job[c].to
<1>1. PICK t \in Task : t = job[c].task /\ b \in Bucket /\ to \in Bucket /\ job[c] \in Job
  BY DEF Rename, TypeInv, TypeOK, Job
<1>2. Working(c) /\ pc[c] = "rename" /\ Exists(b, t) /\ b # to
  BY <1>1 DEF Rename, Custody, Shape, Working, HasFile
<1>3. /\ file' = [file EXCEPT ![to][t] = file[b][t], ![b][t] = NoFile]
      /\ job' = [job EXCEPT ![c].at = to]
      /\ pc' = [pc EXCEPT ![c] = "read"]
      /\ UNCHANGED <<tmp, live, acked>>
  BY <1>1, <1>2 DEF Rename
<1>4. /\ \A d \in Client : d # c => pc'[d] = pc[d] /\ job'[d] = job[d]
      /\ pc'[c] = "read" /\ job'[c].task = t
  BY <1>1, <1>3 DEF TypeInv, TypeOK, Job
<1>5. file[b][t].whole /\ file[b][t].writers = {} /\ file[b][t].rev >= acked[t]
  BY <1>1, <1>2, WorkingWhole, WholeIsClosed DEF Content, EditsDurable
<1> HIDE DEF b, to
<1>6. /\ file'[to][t] = file[b][t] /\ file'[b][t] = NoFile
      /\ \A a \in Bucket \ {b, to} : file'[a][t] = file[a][t]
      /\ \A u \in Task : u # t => \A a \in Bucket : file'[a][u] = file[a][u]
  BY <1>1, <1>2, <1>3 DEF TypeInv, TypeOK
<1>7. \A a \in Bucket \ {b} : file[a][t] = NoFile
  BY <1>1, <1>2 DEF Custody, OnePlace, Exists
<1>8. \A a \in Bucket : /\ file'[a][t].writers = {}
                        /\ file'[a][t].whole => file'[a][t].rev >= acked'[t]
  <2> SUFFICES ASSUME NEW a \in Bucket
               PROVE  /\ file'[a][t].writers = {}
                      /\ file'[a][t].whole => file'[a][t].rev >= acked[t]
    BY <1>3
  <2>1. CASE a = to
    BY <1>5, <1>6, <2>1
  <2>2. CASE a # to
    <3>1. file'[a][t] = NoFile
      BY <1>6, <1>7, <2>2
    <3> QED
      BY <3>1 DEF NoFile
  <2> QED
    BY <2>1, <2>2
<1>9. \E a \in Bucket : file'[a][t].whole
  BY <1>1, <1>5, <1>6
<1>10. \A u \in Task : u # t =>
         /\ acked'[u] = acked[u]
         /\ \A a \in Bucket : file'[a][u] = file[a][u] /\ tmp'[a][u] = tmp[a][u]
  BY <1>3, <1>6
<1>11. live' = live /\ pc[c] \notin {"open", "dump"}
       /\ pc'[c] \notin {"open", "dump", "write", "replace"}
  BY <1>2, <1>3, <1>4
<1> QED
  BY <1>1, <1>2, <1>4, <1>8, <1>9, <1>10, <1>11, WorkerContent

\* A new task's file is opened where there is none.
LEMMA OpenContent ==
  ASSUME TypeInv, Custody, Content, LockedOnly, NEW c \in Client, Open(c)
  PROVE  Content'
<1> USE DEF Goto, Ghosts
<1> DEFINE half == [rev |-> 0, status |-> "unset", whole |-> FALSE, writers |-> {c}]
<1>1. PICK t \in Task : t = job[c].task
  BY DEF Open, TypeInv
<1>2. pc[c] = "open" /\ job[c].op = "create" /\ job[c].data = Fresh
  BY DEF Open, Custody, Shape, Working, Content, Creating
<1>3. /\ \A b \in Bucket : file[b][t] = NoFile
      /\ \A d \in Client : d # c /\ pc[d] # "idle" => job[d].task # t
  BY <1>1, <1>2 DEF Custody, FreshOpen, Exists
<1>4. /\ file' = [file EXCEPT !["pending"][t] = half]
      /\ pc' = [pc EXCEPT ![c] = "dump"]
      /\ UNCHANGED <<tmp, live, acked, job>>
  <2>1. file["pending"][t].writers \cup {c} = {c}
    BY <1>3 DEF NoFile, Bucket
  <2> QED
    BY <1>1, <2>1 DEF Open
<1> HIDE DEF half
<1>5. /\ \A d \in Client : d # c => pc'[d] = pc[d]
      /\ pc'[c] = "dump"
      /\ file'["pending"][t] = half
      /\ \A b \in Bucket \ {"pending"} : file'[b][t] = file[b][t]
      /\ \A b \in Bucket, u \in Task : u # t => file'[b][u] = file[b][u]
  BY <1>4 DEF TypeInv, TypeOK, Bucket
<1>6. ~half.whole /\ half.writers = {c}
  BY DEF half
<1>7. ~Listed(t)
  BY <1>3 DEF Listed, NoFile
<1>8. \A u \in Task : Listed(u) => \E b \in Bucket : file'[b][u].whole
  BY <1>5, <1>7 DEF Listed
<1>9. Called'
  BY <1>2, <1>4, <1>5, <1>8 DEF Content, Called, Listed, TypeInv
<1>10. Reported'
  BY <1>4, <1>8 DEF Content, Reported, Listed
<1>11. EditsDurable'
  <2> SUFFICES ASSUME NEW u \in Task, NEW b \in Bucket, file'[b][u].whole
               PROVE  file'[b][u].rev >= acked[u]
    BY <1>4 DEF EditsDurable
  <2>1. u # t
    BY <1>3, <1>5, <1>6 DEF NoFile
  <2> QED
    BY <1>5, <2>1 DEF Content, EditsDurable
<1>12. Stamps'
  BY <1>4, <1>5 DEF Content, Stamps
<1>13. Opened'
  <2> SUFFICES ASSUME NEW b \in Bucket, NEW u \in Task, NEW d \in Client,
                      d \in file'[b][u].writers
               PROVE  pc'[d] = "dump" /\ job[d].task = u
    BY <1>4 DEF Opened
  <2>1. CASE u # t
    <3>1. pc[d] = "dump" /\ job[d].task = u
      BY <1>5, <2>1 DEF Content, Opened
    <3> QED
      BY <1>5, <3>1
  <2>2. CASE u = t
    <3>1. d = c
      BY <1>3, <1>5, <1>6, <2>2 DEF NoFile
    <3> QED
      BY <1>1, <1>5, <2>2, <3>1
  <2> QED
    BY <2>1, <2>2
<1>14. Creating'
  <2> SUFFICES ASSUME NEW d \in Client, pc'[d] \in {"open", "dump"}
               PROVE  /\ job[d].data = Fresh
                      /\ pc'[d] = "dump" =>
                           /\ ~file'["pending"][job[d].task].whole
                           /\ file'["pending"][job[d].task].writers = {d}
    BY <1>4 DEF Creating
  <2>1. CASE d = c
    BY <1>1, <1>2, <1>5, <1>6, <2>1
  <2>2. CASE d # c
    <3>1. pc'[d] = pc[d] /\ job[d].task \in Task /\ job[d].task # t
      BY <1>3, <1>5, <2>2 DEF TypeInv
    <3>2. file'["pending"][job[d].task] = file["pending"][job[d].task]
      BY <1>5, <3>1 DEF Bucket
    <3> QED
      BY <3>1, <3>2 DEF Content, Creating
  <2> QED
    BY <2>1, <2>2
<1> QED
  BY <1>9, <1>10, <1>11, <1>12, <1>13, <1>14 DEF Content

\* The dump completes a task that nobody has been told of yet.
LEMMA DumpContent ==
  ASSUME TypeInv, Custody, Content, LockedOnly, NEW c \in Client, Dump(c)
  PROVE  Content'
<1> USE DEF Goto, Ghosts
<1> DEFINE new(b) == [job[c].data EXCEPT !.writers = @ \cup
                        (file[b][job[c].task].writers \ {c})]
<1>1. PICK t \in Task : t = job[c].task
  BY DEF Dump, TypeInv
<1>2. pc[c] = "dump" /\ job[c].op = "create" /\ job[c].data = Fresh
      /\ ~file["pending"][t].whole /\ file["pending"][t].writers = {c}
  BY <1>1 DEF Dump, Custody, Shape, Working, Content, Creating
<1>3. \A b \in Bucket \ {"pending"} : file[b][t] = NoFile
  <2>1. Exists("pending", t) /\ "pending" \in Bucket
    BY <1>2 DEF Exists, NoFile, Bucket
  <2> QED
    BY <2>1 DEF Custody, OnePlace, Exists
<1>4. ~Listed(t)
  BY <1>2, <1>3 DEF Listed, NoFile
<1>5. acked[t] = 0
  BY <1>4 DEF Content, Reported
<1>6. /\ Leave(c) /\ UNCHANGED <<tmp, acked>> /\ live' = live \cup {t}
      /\ file' = [b \in Bucket |-> [file[b] EXCEPT ![t] =
                    IF c \in file[b][t].writers THEN new(b) ELSE file[b][t]]]
  BY <1>1, <1>2 DEF Dump
<1>7. new("pending").whole /\ new("pending").writers = {} /\ new("pending").rev = 0
  BY <1>1, <1>2 DEF Fresh
<1> HIDE DEF new
<1>8. /\ file'["pending"][t] = new("pending")
      /\ \A b \in Bucket \ {"pending"} : file'[b][t] = file[b][t]
      /\ \A b \in Bucket, u \in Task : u # t => file'[b][u] = file[b][u]
  <2>1. \A b \in Bucket \ {"pending"} : c \notin file[b][t].writers
    BY <1>3 DEF NoFile
  <2> QED
    BY <1>2, <1>6, <2>1 DEF TypeInv, TypeOK, Bucket
<1>9. /\ \A d \in Client : d # c => pc'[d] = pc[d] /\ job'[d] = job[d]
      /\ pc'[c] = "idle"
  BY <1>6 DEF Leave, TypeInv, TypeOK
<1>10. \E b \in Bucket : file'[b][t].whole
  BY <1>7, <1>8 DEF Bucket
<1>11. \A u \in Task : Listed(u) => \E b \in Bucket : file'[b][u].whole
  BY <1>4, <1>8 DEF Listed
<1>12. \A d \in Client : d # c /\ pc[d] \in {"open", "dump"} => job[d].task # t
  <2> SUFFICES ASSUME NEW d \in Client, d # c, pc[d] \in {"open", "dump"},
                      job[d].task = t
               PROVE  FALSE
    OBVIOUS
  <2>1. CASE pc[d] = "open"
    BY <1>1, <1>2, <2>1 DEF Custody, FreshOpen
  <2>2. CASE pc[d] = "dump"
    BY <1>2, <2>2 DEF Content, Creating
  <2> QED
    BY <2>1, <2>2
<1>13. Called'
  <2> SUFFICES ASSUME NEW d \in Client, pc'[d] # "idle", job'[d].op # "create"
               PROVE  \E b \in Bucket : file'[b][job'[d].task].whole
    BY DEF Called, Listed
  <2>1. job'[d] = job[d] /\ job[d].task \in Task /\ Listed(job[d].task)
    BY <1>9 DEF Content, Called, TypeInv
  <2> QED
    BY <1>11, <2>1
<1>14. Reported'
  BY <1>6, <1>10, <1>11 DEF Content, Reported, Listed
<1>15. EditsDurable'
  <2> SUFFICES ASSUME NEW u \in Task, NEW b \in Bucket, file'[b][u].whole
               PROVE  file'[b][u].rev >= acked[u]
    BY <1>6 DEF EditsDurable
  <2>1. CASE u # t
    BY <1>8, <2>1 DEF Content, EditsDurable
  <2>2. CASE u = t
    <3>1. b = "pending"
      BY <1>3, <1>8, <2>2 DEF NoFile
    <3> QED
      BY <1>5, <1>7, <1>8, <2>2, <3>1
  <2> QED
    BY <2>1, <2>2
<1>16. Stamps'
  BY <1>6, <1>9 DEF Content, Stamps
<1>17. Opened'
  <2> SUFFICES ASSUME NEW b \in Bucket, NEW u \in Task, NEW d \in Client,
                      d \in file'[b][u].writers
               PROVE  pc'[d] = "dump" /\ job'[d].task = u
    BY DEF Opened
  <2>1. u # t
    BY <1>3, <1>7, <1>8 DEF NoFile
  <2>2. pc[d] = "dump" /\ job[d].task = u
    BY <1>8, <2>1 DEF Content, Opened
  <2> QED
    BY <1>1, <1>9, <2>1, <2>2
<1>18. Creating'
  <2> SUFFICES ASSUME NEW d \in Client, pc'[d] \in {"open", "dump"}
               PROVE  /\ job'[d].data = Fresh
                      /\ pc'[d] = "dump" =>
                           /\ ~file'["pending"][job'[d].task].whole
                           /\ file'["pending"][job'[d].task].writers = {d}
    BY DEF Creating
  <2>1. d # c /\ pc'[d] = pc[d] /\ job'[d] = job[d] /\ job[d].task # t
        /\ job[d].task \in Task
    BY <1>9, <1>12 DEF TypeInv
  <2>2. file'["pending"][job[d].task] = file["pending"][job[d].task]
    BY <1>8, <2>1 DEF Bucket
  <2> QED
    BY <2>1, <2>2 DEF Content, Creating
<1> QED
  BY <1>13, <1>14, <1>15, <1>16, <1>17, <1>18 DEF Content

\* A crash closes the dead process's files and leaves what is in them.
LEMMA CrashContent ==
  ASSUME TypeInv, Custody, Content, LockedOnly, NEW p \in Process, Crash(p)
  PROVE  Content'
<1> USE DEF Ghosts
<1> DEFINE dead == {c \in Client : ProcessOf[c] = p}
<1>1. /\ UNCHANGED <<tmp, live, acked>>
      /\ \A c \in Client : /\ c \in dead => pc'[c] = "idle"
                           /\ c \notin dead => pc'[c] = pc[c] /\ job'[c] = job[c]
  BY DEF Crash
<1>2. \A b \in Bucket, t \in Task :
        /\ file'[b][t].rev = file[b][t].rev /\ file'[b][t].whole = file[b][t].whole
        /\ file'[b][t].writers = file[b][t].writers \ dead
  <2> SUFFICES ASSUME NEW b \in Bucket, NEW t \in Task
               PROVE  /\ file'[b][t].rev = file[b][t].rev
                      /\ file'[b][t].whole = file[b][t].whole
                      /\ file'[b][t].writers = file[b][t].writers \ dead
    OBVIOUS
  <2>1. file'[b][t] = [file[b][t] EXCEPT !.writers = @ \ dead]
    BY DEF Crash
  <2>2. file[b][t] \in Copy \cup {NoFile}
    BY DEF TypeInv, TypeOK
  <2> HIDE DEF dead
  <2> QED
    BY <2>1, <2>2 DEF Copy, NoFile
<1>3. dead = {} \/ dead = Client
  BY DEF LockedOnly
<1> HIDE DEF dead
<1>4. Called'
  <2> SUFFICES ASSUME NEW d \in Client, pc'[d] # "idle", job'[d].op # "create"
               PROVE  \E b \in Bucket : file'[b][job'[d].task].whole
    BY DEF Called, Listed
  <2>1. job'[d] = job[d] /\ job[d].task \in Task /\ Listed(job[d].task)
    BY <1>1 DEF Content, Called, TypeInv
  <2> QED
    BY <1>2, <2>1 DEF Listed
<1>5. Reported' /\ EditsDurable'
  BY <1>1, <1>2 DEF Content, Reported, EditsDurable, Listed
<1>6. Stamps'
  BY <1>1 DEF Content, Stamps
<1>7. Opened'
  <2> SUFFICES ASSUME NEW b \in Bucket, NEW u \in Task, NEW d \in Client,
                      d \in file'[b][u].writers
               PROVE  pc'[d] = "dump" /\ job'[d].task = u
    BY DEF Opened
  <2>1. d \in file[b][u].writers /\ d \notin dead
    BY <1>2
  <2> QED
    BY <1>1, <2>1 DEF Content, Opened
<1>8. Creating'
  <2> SUFFICES ASSUME NEW d \in Client, pc'[d] \in {"open", "dump"}
               PROVE  /\ job'[d].data = Fresh
                      /\ pc'[d] = "dump" =>
                           /\ ~file'["pending"][job'[d].task].whole
                           /\ file'["pending"][job'[d].task].writers = {d}
    BY DEF Creating
  <2>1. d \notin dead /\ dead = {}
    BY <1>1, <1>3
  <2>2. pc'[d] = pc[d] /\ job'[d] = job[d] /\ job[d].task \in Task
    BY <1>1, <2>1 DEF TypeInv
  <2>3. /\ file'["pending"][job[d].task].whole = file["pending"][job[d].task].whole
        /\ file'["pending"][job[d].task].writers = file["pending"][job[d].task].writers
    BY <1>2, <2>1, <2>2 DEF Bucket
  <2> QED
    BY <2>2, <2>3 DEF Content, Creating
<1> QED
  BY <1>4, <1>5, <1>6, <1>7, <1>8 DEF Content

LEMMA ContentNext ==
  ASSUME TypeInv, Custody, Content, LockedOnly, [Next]_vars
  PROVE  Content'
<1>1. ASSUME NEW c \in Client, Load(c) \/ Unlink(c) PROVE FALSE
  BY <1>1 DEF Load, Unlink, Custody, Shape, Working
<1>2. CASE UNCHANGED vars
  BY <1>2 DEF vars, Content, Called, Reported, EditsDurable, Stamps, Opened,
     Creating, Listed
<1>3. CASE \E c \in Client : Step(c)
  BY <1>1, <1>3, ReadyContent, ReadContent, WriteContent, ReplaceContent,
     RenameContent, OpenContent, DumpContent DEF Step
<1>4. CASE \E c \in Client, o \in OpName, t \in Task : Call(c, o, t)
  BY <1>4, CallContent
<1>5. CASE \E p \in Process : Crash(p)
  BY <1>5, CrashContent
<1> QED
  BY <1>2, <1>3, <1>4, <1>5 DEF Next

\* Everything the three invariants say of the operations under the lock.
LEMMA ContentLocked ==
  ASSUME LockedOnly
  PROVE  Spec => [](TypeInv /\ Custody /\ Content)
<1>1. Init => TypeInv /\ Custody /\ Content
  BY TypeInit, CustodyInit, ContentInit
<1>2. TypeInv /\ Custody /\ Content /\ [Next]_vars => (TypeInv /\ Custody /\ Content)'
  BY TypeNext, CustodyNext, ContentNext
<1> QED
  BY <1>1, <1>2, PTL DEF Spec

\* In one process whose clients create, start, run, edit and shelve tasks, a
\* task whose creation was reported keeps a complete copy in some bucket,
\* whatever the threads interleave and wherever the process dies.
THEOREM NeverLostLocked ==
  ASSUME LockedOnly
  PROVE  Spec => []NeverLost
<1>1. TypeInv /\ Content => NeverLost
  BY DEF TypeInv, TypeOK, Content, Reported, NeverLost
<1> QED
  BY <1>1, ContentLocked, PTL

\* There, an acknowledged edit is never overwritten by a stamp of the start,
\* the run or the shelving of its task, although each reads the file, writes
\* a shared temporary file and replaces the original in three steps.
THEOREM EditsDurableLocked ==
  ASSUME LockedOnly
  PROVE  Spec => []EditsDurable
<1>1. Content => EditsDurable
  BY DEF Content
<1> QED
  BY <1>1, ContentLocked, PTL

-----------------------------------------------------------------------------
(* Calls on one task one after the other                                   *)

\* No two calls on the same task overlap: what one operator, or a page that
\* waits for each answer, does.  Calls on different tasks interleave freely.
Apart ==
  \A c, d \in Client :
    pc[c] # "idle" /\ pc[d] # "idle" /\ job[c].task = job[d].task => c = d

Movers == {"begin", "run", "done", "fail", "stall", "unfinish"}

\* The status field of a task at rest in bucket b.
Resting(b) == IF b = "pending" THEN "unset" ELSE b
Settled(f, b) == f.whole /\ f.writers = {} /\ f.status = Resting(b)
Clean(t) == \A b \in Bucket : tmp[b][t] = NoFile
OnlyIn(t, B) == \A b \in Bucket : Exists(b, t) <=> b \in B

\* A task nobody is changing: one settled copy if it is live, none if not.
AtRest(t) ==
  /\ Clean(t)
  /\ t \in live => \E b \in Bucket : OnlyIn(t, {b})
  /\ t \notin live => OnlyIn(t, {})
  /\ \A b \in Bucket : Exists(b, t) => /\ Settled(file[b][t], b)
                                       /\ file[b][t].rev >= acked[t]

\* The task of a call that has not written anything yet.
Untouched(c) ==
  /\ AtRest(job[c].task)
  /\ pc[c] \in {"acquire", "check"} =>
       /\ job[c].op \in OpName \ {"create"}
       /\ job[c].to = Target(job[c].op)
  /\ pc[c] = "parse" =>
       /\ job[c].op \in Movers /\ job[c].to = Target(job[c].op)
       /\ job[c].at # job[c].to
  /\ pc[c] \in {"parse", "load", "unlink"} => Exists(job[c].at, job[c].task)
  /\ pc[c] = "load" => job[c].op = "retry" /\ job[c].at # "pending"
  /\ pc[c] = "unlink" => job[c].op = "remove"

\* The task of a call that stamps and moves its only copy.
Stamping(c) ==
  LET j == job[c]
      t == j.task
      f == file[j.at][t]
  IN /\ j.op \in Movers \cup {"edit", "exec", "finalize"}
     /\ t \in live
     /\ OnlyIn(t, {j.at})
     /\ f.whole /\ f.writers = {} /\ f.rev >= acked[t]
     /\ \A b \in Bucket :
          tmp[b][t] = IF pc[c] = "replace" /\ b = j.at THEN j.data ELSE NoFile
     /\ j.op = "edit" <=> j.to = "pending"
     /\ j.op \in {"run", "exec"} => j.to = "running"
     /\ j.op = "edit" => j.at = "pending"
     /\ j.op \in {"edit", "exec"} => j.at = j.to /\ f.status = Resting(j.at)
     /\ pc[c] = "rename" => j.at # j.to
     /\ pc[c] = "execute" => j.op = "exec"
     /\ pc[c] \in {"write", "replace"} =>
          /\ j.data.whole /\ j.data.writers = {} /\ j.data.rev >= acked[t]
          /\ j.at = j.to => j.data.status = Resting(j.at)

\* The task of a call that creates it.
Making(c) ==
  LET j == job[c]
      t == j.task
  IN /\ j.op = "create"
     /\ t \notin live \cup removed
     /\ Clean(t)
     /\ acked[t] = 0
     /\ Settled(j.data, "pending")
     /\ OnlyIn(t, IF pc[c] = "dump" THEN {"pending"} ELSE {})
     /\ pc[c] = "dump" => file["pending"][t].writers = {c}

\* The task of a retry that copies it back to pending.
Recopying(c) ==
  LET j == job[c]
      t == j.task
  IN /\ j.op = "retry"
     /\ t \in live
     /\ Clean(t)
     /\ j.at # "pending"
     /\ Settled(j.data, "pending") /\ j.data.rev >= acked[t]
     /\ Settled(file[j.at][t], j.at) /\ file[j.at][t].rev >= acked[t]
     /\ OnlyIn(t, IF pc[c] = "open" THEN {j.at} ELSE {j.at, "pending"})
     /\ pc[c] = "dump" => file["pending"][t].writers = {c}
     /\ pc[c] = "unlink" => /\ Settled(file["pending"][t], "pending")
                            /\ file["pending"][t].rev >= acked[t]

InHand(c) ==
  \/ pc[c] \in {"acquire", "check", "parse", "load", "unlink"} /\ Untouched(c)
  \/ pc[c] \in {"read", "write", "replace", "rename", "execute"} /\ Stamping(c)
  \/ pc[c] \in {"open", "dump"} /\ Making(c)
  \/ pc[c] \in {"open", "dump", "unlink"} /\ Recopying(c)

Ids ==
  /\ live \cup removed \subseteq used
  /\ live \cap removed = {}
  /\ \A t \in Task \ used : acked[t] = 0
  /\ \A c \in Client : pc[c] # "idle" => job[c].task \in used

Order ==
  /\ Ids
  /\ \A c \in Client : pc[c] # "idle" => InHand(c)
  /\ \A t \in Task : ~Busy(t) => AtRest(t)

\* A task the step of another call leaves alone.
Untold(t) ==
  /\ \A b \in Bucket : file'[b][t] = file[b][t] /\ tmp'[b][t] = tmp[b][t]
  /\ t \in live' <=> t \in live
  /\ t \in removed' <=> t \in removed
  /\ t \in used' <=> t \in used
  /\ acked'[t] = acked[t]

LEMMA UntoldRest ==
  ASSUME NEW t \in Task, Untold(t), AtRest(t)
  PROVE  AtRest(t)'
  BY DEF Untold, AtRest, Clean, OnlyIn, Exists, Settled

LEMMA UntoldHand ==
  ASSUME TypeInv, NEW c \in Client, pc[c] # "idle", Untold(job[c].task),
         pc'[c] = pc[c], job'[c] = job[c], InHand(c)
  PROVE  InHand(c)'
<1> DEFINE j == job[c]
           t == j.task
<1>1. t \in Task /\ j.at \in Bucket /\ "pending" \in Bucket
  BY DEF TypeInv, TypeOK, Job, Bucket
<1>2. CASE pc[c] \in {"acquire", "check", "parse", "load", "unlink"} /\ Untouched(c)
  <2>1. \A u \in Task : u = job[c].task => AtRest(u)'
    BY <1>1, <1>2, UntoldRest DEF Untouched
  <2>2. AtRest(job[c].task)'
    <3>1. \A u \in Task : u = job'[c].task => AtRest(u)'
      BY <2>1
    <3> QED
      BY <1>1, <3>1 DEF AtRest, Clean, OnlyIn, Exists, Settled
  <2>3. Untouched(c)'
    BY <1>1, <1>2, <2>2 DEF Untouched, Exists, Untold
  <2> QED
    BY <1>2, <2>3 DEF InHand
<1>3. CASE /\ pc[c] \in {"read", "write", "replace", "rename", "execute"}
           /\ Stamping(c)
  <2>1. Stamping(c)'
    BY <1>1, <1>3 DEF Stamping, OnlyIn, Exists, Untold
  <2> QED
    BY <1>3, <2>1, SMTT(30) DEF InHand
<1>4. CASE pc[c] \in {"open", "dump"} /\ Making(c)
  <2>1. Making(c)'
    BY <1>1, <1>4 DEF Making, OnlyIn, Exists, Untold, Clean, Settled
  <2> QED
    BY <1>4, <2>1 DEF InHand
<1>5. CASE pc[c] \in {"open", "dump", "unlink"} /\ Recopying(c)
  <2>1. /\ file'[j.at][t] = file[j.at][t]
        /\ file'["pending"][t] = file["pending"][t]
        /\ \A b \in Bucket : file'[b][t] = file[b][t] /\ tmp'[b][t] = tmp[b][t]
        /\ t \in live' <=> t \in live
        /\ acked'[t] = acked[t]
    BY <1>1 DEF Untold
  <2>3. OnlyIn(t, IF pc[c] = "open" THEN {j.at} ELSE {j.at, "pending"})'
    BY <1>5, <2>1, SMTT(30) DEF Recopying, OnlyIn, Exists
  <2>4. Clean(t)' /\ Settled(j.data, "pending")' /\ Settled(file[j.at][t], j.at)'
    BY <1>5, <2>1 DEF Recopying, Clean, Settled
  <2>5. pc'[c] = "unlink" => Settled(file["pending"][t], "pending")'
    BY <1>5, <2>1 DEF Recopying, Settled
  <2>2. Recopying(c)'
    BY <1>5, <2>1, <2>3, <2>4, <2>5 DEF Recopying
  <2> QED
    BY <1>5, <2>2 DEF InHand
<1> QED
  BY <1>2, <1>3, <1>4, <1>5 DEF InHand

\* What a step of c on task t must show for Order to survive it: t is in
\* good hands, and no other call has it in hand.
LEMMA StepOrder ==
  ASSUME TypeInv, TypeInv', Order, NEW c \in Client, NEW t \in Task,
         \A d \in Client : d # c => pc'[d] = pc[d] /\ job'[d] = job[d],
         \A d \in Client : d # c /\ pc[d] # "idle" => job[d].task # t,
         \A u \in Task : u # t => Untold(u),
         pc[c] # "idle" => job[c].task = t,
         t \in used', used' \subseteq used \cup {t},
         live' \cup removed' \subseteq used', ~(t \in live' /\ t \in removed'),
         pc'[c] = "idle" => AtRest(t)',
         pc'[c] # "idle" => job'[c].task = t /\ InHand(c)'
  PROVE  Order'
<1>1. Ids'
  <2>1. live' \cap removed' = {}
    <3> SUFFICES ASSUME NEW u \in live', u \in removed' PROVE FALSE
      OBVIOUS
    <3>1. u \in Task
      BY DEF TypeInv, TypeOK
    <3> QED
      BY <3>1 DEF Order, Ids, Untold
  <2>2. \A u \in Task \ used' : acked'[u] = 0
    BY DEF Order, Ids, Untold
  <2>3. \A d \in Client : pc'[d] # "idle" => job'[d].task \in used'
    <3> SUFFICES ASSUME NEW d \in Client, d # c, pc'[d] # "idle"
                 PROVE  job'[d].task \in used'
      OBVIOUS
    <3>1. job[d].task \in Task /\ job[d].task # t /\ job[d].task \in used
      BY DEF TypeInv, Order, Ids
    <3> QED
      BY <3>1 DEF Untold
  <2> QED
    BY <2>1, <2>2, <2>3 DEF Ids
<1>2. ASSUME NEW d \in Client, pc'[d] # "idle" PROVE InHand(d)'
  <2>1. CASE d = c
    BY <1>2, <2>1
  <2>2. CASE d # c
    <3>1. pc[d] # "idle" /\ job[d].task \in Task /\ job[d].task # t /\ InHand(d)
      BY <1>2, <2>2 DEF TypeInv, Order
    <3> QED
      BY <2>2, <3>1, UntoldHand
  <2> QED
    BY <2>1, <2>2
<1>3. ASSUME NEW u \in Task, ~Busy(u)' PROVE AtRest(u)'
  <2>1. CASE u = t
    BY <1>3, <2>1 DEF Busy
  <2>2. CASE u # t
    <3>1. ~Busy(u)
      BY <1>3, <2>2 DEF Busy
    <3> QED
      BY <2>2, <3>1, UntoldRest DEF Order
  <2> QED
    BY <2>1, <2>2
<1> QED
  BY <1>1, <1>2, <1>3 DEF Order

LEMMA OrderInit == ASSUME Init PROVE Order
<1>1. PICK place \in [Task -> Bucket \cup {NULL}] :
         /\ file = [b \in Bucket |-> [t \in Task |->
               IF place[t] = b THEN [Fresh EXCEPT !.status =
                                       IF b = "pending" THEN "unset" ELSE b]
                               ELSE NoFile]]
         /\ live = {t \in Task : place[t] # NULL}
         /\ used = {t \in Task : place[t] # NULL}
  BY DEF Init
<1>2. \A c \in Client : pc[c] = "idle"
  BY DEF Init
<1>3. Ids
  BY <1>1, <1>2 DEF Init, Ids
<1>4. ASSUME NEW t \in Task PROVE AtRest(t)
  <2>1. Clean(t)
    BY DEF Init, Clean
  <2>2. \A b \in Bucket : Exists(b, t) <=> place[t] = b
    BY <1>1 DEF Exists, Fresh, NoFile
  <2>3. t \in live => place[t] \in Bucket /\ OnlyIn(t, {place[t]})
    BY <1>1, <2>2 DEF OnlyIn
  <2>4. t \notin live => OnlyIn(t, {})
    BY <1>1, <2>2, ClientAssumption DEF OnlyIn
  <2>5. \A b \in Bucket : Exists(b, t) =>
          Settled(file[b][t], b) /\ file[b][t].rev >= acked[t]
    BY <1>1, <2>2 DEF Init, Settled, Resting, Fresh
  <2> QED
    BY <2>1, <2>3, <2>4, <2>5 DEF AtRest
<1> QED
  BY <1>2, <1>3, <1>4 DEF Order

\* The step of a call, when ids, creations and removals are as before.
LEMMA WithinOrder ==
  ASSUME TypeInv, TypeInv', Order, Apart, NEW c \in Client, pc[c] # "idle",
         NEW t, t = job[c].task,
         \A d \in Client : d # c => pc'[d] = pc[d] /\ job'[d] = job[d],
         \A u \in Task : u # t => Untold(u),
         UNCHANGED <<live, removed, used>>,
         pc'[c] = "idle" => AtRest(t)',
         pc'[c] # "idle" => job'[c].task = t /\ InHand(c)'
  PROVE  Order'
<1>1. t \in Task /\ t \in used
  BY DEF TypeInv, Order, Ids
<1>2. \A d \in Client : d # c /\ pc[d] # "idle" => job[d].task # t
  BY DEF Apart
<1>3. live' \cup removed' \subseteq used' /\ ~(t \in live' /\ t \in removed')
  BY <1>1 DEF Order, Ids
<1> QED
  BY <1>1, <1>2, <1>3, StepOrder

\* One that touches no file either: it returns with the task at rest, or
\* goes on with the task in hand.
LEMMA LookingOrder ==
  ASSUME TypeInv, TypeInv', Order, Apart, NEW c \in Client, pc[c] # "idle",
         UNCHANGED <<file, tmp, live, removed, used, acked>>,
         \/ Leave(c) /\ AtRest(job[c].task)
         \/ \E j \in Job, l \in PC :
              /\ Goto(c, l)
              /\ job' = [job EXCEPT ![c] = j]
              /\ j.task = job[c].task
              /\ l # "idle"
              /\ InHand(c)'
  PROVE  Order'
<1> DEFINE t0 == job[c].task
<1> SUFFICES ASSUME NEW t, t = job[c].task PROVE Order'
  OBVIOUS
<1>1. \A u \in Task : Untold(u)
  BY DEF Untold
<1>2. \A d \in Client : d # c => pc'[d] = pc[d] /\ job'[d] = job[d]
  BY DEF Leave, Goto, TypeInv, TypeOK
<1>3. pc'[c] = "idle" => AtRest(t)'
  <2>1. t \in Task
    BY DEF TypeInv
  <2>2. pc'[c] = "idle" => AtRest(t)
    BY DEF Goto, TypeInv, TypeOK
  <2> QED
    BY <1>1, <2>1, <2>2, UntoldRest
<1>4. pc'[c] # "idle" => job'[c].task = t /\ InHand(c)'
  BY DEF Leave, Goto, TypeInv, TypeOK
<1> QED
  BY <1>1, <1>2, <1>3, <1>4, WithinOrder

LEMMA CallOrder ==
  ASSUME TypeInv, TypeInv', Order, Apart', NEW c \in Client, NEW o \in OpName,
         NEW t \in Task, Call(c, o, t)
  PROVE  Order'
<1> DEFINE j == [NoJob EXCEPT !.op = o, !.task = t, !.left = StampsBeforeMove(o),
                              !.to = Target(o)]
<1>1. pc[c] = "idle" /\ pc'[c] # "idle" /\ job'[c] = j
  BY DEF Call, Goto, TypeInv, TypeOK
<1>2. \A d \in Client : d # c => pc'[d] = pc[d] /\ job'[d] = job[d]
  BY DEF Call, Goto, TypeInv, TypeOK
<1>3. j.op = o /\ j.task = t /\ j.to = Target(o) /\ j.data = Fresh
  BY DEF NoJob
<1> HIDE DEF j
<1>4. \A d \in Client : d # c /\ pc[d] # "idle" => job[d].task # t
  BY <1>1, <1>2, <1>3 DEF Apart
<1>5. AtRest(t)
  BY <1>1, <1>4 DEF Order, Busy
<1>6. \A u \in Task : u # t => Untold(u)
  BY DEF Call, Untold
<1>7. t \in used' /\ used' \subseteq used \cup {t} /\ used \subseteq used'
  <2>1. CASE o = "create"
    BY <2>1 DEF Call
  <2>2. CASE o # "create"
    <3>1. \E b \in Bucket : Exists(b, t)
      BY <2>2 DEF Call, Listed, Exists, NoFile
    <3>2. t \in live
      BY <1>5, <3>1 DEF AtRest, OnlyIn
    <3> QED
      BY <2>2, <3>2 DEF Call, Order, Ids
  <2> QED
    BY <2>1, <2>2
<1>8. UNCHANGED <<file, tmp, live, removed, acked>>
  BY DEF Call
<1>9. InHand(c)'
  <2>1. CASE o = "create"
    <3>1. t \notin used /\ pc'[c] = "open"
      BY <2>1 DEF Call, Goto, TypeInv, TypeOK, LockOps
    <3>2. t \notin live' \cup removed' /\ acked'[t] = 0
      BY <1>8, <3>1 DEF Order, Ids
    <3>3. OnlyIn(t, {})' /\ Clean(t)'
      BY <1>5, <1>8, <3>2 DEF AtRest, OnlyIn, Exists, Clean
    <3>4. Settled(j.data, "pending")
      BY <1>3 DEF Settled, Fresh, Resting
    <3>5. Making(c)'
      BY <1>1, <1>3, <2>1, <3>1, <3>2, <3>3, <3>4
         DEF Making, OnlyIn, Exists, Clean, Settled
    <3> QED
      BY <3>1, <3>5 DEF InHand
  <2>2. CASE o # "create"
    <3>1. pc'[c] \in {"acquire", "check"}
      BY <2>2 DEF Call, Goto, TypeInv, TypeOK
    <3>2. AtRest(t)'
      BY <1>5, <1>8 DEF AtRest, Clean, OnlyIn, Exists, Settled
    <3>3. AtRest(job[c].task)'
      BY <1>1, <1>3, <3>2 DEF AtRest, Clean, OnlyIn, Exists, Settled
    <3>4. Untouched(c)'
      BY <1>1, <1>3, <2>2, <3>1, <3>3 DEF Untouched
    <3> QED
      BY <3>1, <3>4 DEF InHand
  <2> QED
    BY <2>1, <2>2
<1>10. live' \cup removed' \subseteq used' /\ ~(t \in live' /\ t \in removed')
  BY <1>7, <1>8 DEF Order, Ids
<1> QED
  BY <1>1, <1>2, <1>3, <1>4, <1>6, <1>7, <1>9, <1>10, StepOrder

\* A step that only moves the call on, with the task still at rest.
LEMMA AcquireOrder ==
  ASSUME TypeInv, TypeInv', Order, Apart, NEW c \in Client, Acquire(c)
  PROVE  Order'
<1>1. pc[c] = "acquire" /\ pc'[c] = "check" /\ job' = job /\ job[c] \in Job
  BY DEF Acquire, Goto, TypeInv, TypeOK
<1>2. UNCHANGED <<file, tmp, live, removed, used, acked>>
  BY DEF Acquire, Ghosts
<1>3. Untouched(c)
  BY <1>1 DEF Order, InHand
<1>4. Untouched(c)'
  BY <1>1, <1>2, <1>3 DEF Untouched, AtRest, Clean, OnlyIn, Exists, Settled
<1>5. InHand(c)'
  BY <1>1, <1>4 DEF InHand
<1>6. job' = [job EXCEPT ![c] = job[c]]
  BY <1>1 DEF TypeInv, TypeOK
<1>7. Goto(c, "check") /\ "check" \in PC
  BY DEF Acquire, PC
<1> QED
  BY <1>1, <1>2, <1>5, <1>6, <1>7, LookingOrder

LEMMA ParseOrder ==
  ASSUME TypeInv, TypeInv', Order, Apart, NEW c \in Client, Parse(c)
  PROVE  Order'
<1> DEFINE j == job[c]
           t == j.task
<1>1. pc[c] = "parse" /\ UNCHANGED <<file, tmp, live, removed, used, acked>>
  BY DEF Parse, Ghosts
<1>2. Untouched(c) /\ j \in Job /\ t \in Task /\ j.at \in Bucket
  BY <1>1 DEF Order, InHand, TypeInv, TypeOK, Job
<1>3. CASE Leave(c)
  BY <1>1, <1>2, <1>3, LookingOrder DEF Untouched
<1>4. CASE Goto(c, "read") /\ UNCHANGED job
  <2>1. /\ AtRest(t) /\ Exists(j.at, t) /\ j.op \in Movers /\ j.to # "pending"
        /\ j.at # j.to
        /\ j.op = "run" => j.to = "running"
    BY <1>1, <1>2 DEF Untouched, Movers, Target
  <2>2. t \in live /\ OnlyIn(t, {j.at}) /\ Settled(file[j.at][t], j.at)
        /\ file[j.at][t].rev >= acked[t] /\ Clean(t)
    BY <1>2, <2>1 DEF AtRest, OnlyIn
  <2>3. pc'[c] = "read"
    BY <1>4, SMTT(30) DEF Goto, TypeInv, TypeOK
  <2>4. Stamping(c)'
    BY <1>1, <1>2, <1>4, <2>1, <2>2, <2>3
       DEF Stamping, OnlyIn, Exists, Settled, Clean, Movers
  <2>5. InHand(c)'
    BY <2>3, <2>4 DEF InHand
  <2>6. job' = [job EXCEPT ![c] = j]
    BY <1>4 DEF TypeInv, TypeOK
  <2>7. "read" \in PC
    BY DEF PC
  <2> QED
    BY <1>1, <1>2, <1>4, <2>5, <2>6, <2>7, LookingOrder
<1> QED
  BY <1>3, <1>4 DEF Parse

LEMMA CheckOrder ==
  ASSUME TypeInv, TypeInv', Order, Apart, NEW c \in Client, Check(c)
  PROVE  Order'
<1> DEFINE j == job[c]
           t == j.task
           o == j.op
           here == {i \in DOMAIN Look(o) : Exists(Look(o)[i], t)}
           i0 == CHOOSE i \in here : \A k \in here : i <= k
           first == Look(o)[i0]
           k == [j EXCEPT !.at = first]
<1>1. pc[c] = "check" /\ UNCHANGED <<file, tmp, live, removed, used, acked>>
  BY DEF Check, Ghosts
<1>2. Untouched(c) /\ j \in Job /\ t \in Task
  BY <1>1 DEF Order, InHand, TypeInv, TypeOK, Job
<1>3. CASE Leave(c)
  BY <1>1, <1>2, <1>3, LookingOrder DEF Untouched
<1>4. CASE ~Leave(c)
  <2>1. here # {} /\ (o = "edit" => first = "pending")
    BY <1>4 DEF Check
  <2>2. job' = [job EXCEPT ![c] = k]
    BY <1>4 DEF Check
  <2>3. Goto(c, CASE o = "edit"   -> "read"
                  [] o = "retry"  -> "load"
                  [] o = "remove" -> "unlink"
                  [] OTHER        -> "parse")
    BY <1>4 DEF Check
  <2>4. i0 \in DOMAIN Look(o) /\ Exists(first, t)
    <3>1. here \in SUBSET DOMAIN Look(o)
      OBVIOUS
    <3>2. i0 \in here
      <4> HIDE DEF here
      <4> QED
        BY <2>1, <3>1, FirstHit
    <3> QED
      BY <3>2
  <2>5. first \in Bucket
    <3> HIDE DEF i0
    <3> QED
      BY <2>4, LookType
  <2> HIDE DEF i0
  <2>6. o \in {"begin", "run", "unfinish"} => first = "pending"
    BY <2>4 DEF Look
  <2>7. o \in {"done", "fail", "stall"} => first = "running"
    BY <2>4 DEF Look
  <2>8. o = "retry" => first \in {"unfinished", "failed"}
    BY <2>4 DEF Look
  <2> HIDE DEF first
  <2>9. k \in Job /\ k.task = t /\ k.op = o /\ k.at = first /\ k.to = j.to
    BY <1>2, <2>5 DEF Job
  <2>10. AtRest(t) /\ o \in OpName \ {"create"} /\ j.to = Target(o)
    BY <1>1, <1>2 DEF Untouched
  <2>11. pc'[c] = CASE o = "edit"   -> "read"
                    [] o = "retry"  -> "load"
                    [] o = "remove" -> "unlink"
                    [] OTHER        -> "parse"
    BY <2>3 DEF Goto, TypeInv, TypeOK
  <2>12. job'[c] = k
    BY <2>2 DEF TypeInv, TypeOK
  <2> HIDE DEF k
  <2>13. InHand(c)'
    <3>1. CASE o = "edit"
      <4>1. pc'[c] = "read" /\ j.to = "pending" /\ first = "pending"
        BY <2>1, <2>10, <2>11, <3>1 DEF Target
      <4>2. t \in live /\ OnlyIn(t, {first}) /\ Settled(file[first][t], first)
            /\ file[first][t].rev >= acked[t] /\ Clean(t)
        BY <2>4, <2>5, <2>10 DEF AtRest, OnlyIn
      <4>3. Stamping(c)'
        BY <1>1, <2>9, <2>12, <3>1, <4>1, <4>2
           DEF Stamping, OnlyIn, Exists, Settled, Clean
      <4> QED
        BY <4>1, <4>3 DEF InHand
    <3>2. CASE o \in {"retry", "remove"}
      <4>1. pc'[c] = IF o = "retry" THEN "load" ELSE "unlink"
        BY <2>11, <3>2
      <4>2. Untouched(c)'
        BY <1>1, <2>4, <2>8, <2>9, <2>10, <2>12, <3>2, <4>1
           DEF Untouched, AtRest, Clean, OnlyIn, Exists, Settled
      <4> QED
        BY <4>1, <4>2 DEF InHand
    <3>3. CASE o \notin {"edit", "retry", "remove"}
      <4>1. pc'[c] = "parse"
        BY <2>11, <3>3
      <4>2. o \in Movers
        BY <2>10, <3>3 DEF OpName, Movers
      <4>3. j.to # "pending" /\ j.to # first
        BY <2>6, <2>7, <2>10, <4>2 DEF Movers, Target
      <4>4. Untouched(c)'
        BY <1>1, <2>4, <2>9, <2>10, <2>12, <4>1, <4>2, <4>3
           DEF Untouched, AtRest, Clean, OnlyIn, Exists, Settled
      <4> QED
        BY <4>1, <4>4 DEF InHand
    <3> QED
      BY <3>1, <3>2, <3>3
  <2>14. \E l \in PC : Goto(c, l) /\ l # "idle"
    BY <2>3 DEF PC
  <2> QED
    BY <1>1, <2>2, <2>9, <2>13, <2>14, LookingOrder
<1> QED
  BY <1>3, <1>4

LEMMA ReadOrder ==
  ASSUME TypeInv, TypeInv', Order, Apart, NEW c \in Client, Read(c)
  PROVE  Order'
<1> DEFINE j == job[c]
           t == j.task
           old == file[j.at][t]
           new == Stamped(j, old)
           k == [j EXCEPT !.data = new]
<1>1. pc[c] = "read" /\ UNCHANGED <<file, tmp, live, removed, used, acked>>
  BY DEF Read, Ghosts
<1>2. Stamping(c) /\ j \in Job /\ t \in Task /\ j.at \in Bucket
  BY <1>1 DEF Order, InHand, TypeInv, TypeOK, Job
<1>3. old # NoFile /\ old \in Copy
  BY <1>2 DEF Stamping, OnlyIn, Exists, TypeInv, TypeOK
<1>4. CASE Leave(c) /\ j.op = "edit"
  <2>1. AtRest(t)
    BY <1>1, <1>2, <1>4 DEF Stamping, AtRest, Clean, OnlyIn, Settled, Resting
  <2> QED
    BY <1>1, <1>4, <2>1, LookingOrder, SMTT(30)
<1>5. CASE job' = [job EXCEPT ![c] = k] /\ Goto(c, "write")
  <2>1. new \in Copy
    BY <1>2, <1>3, StampedType
  <2>2. /\ new.whole /\ new.writers = {} /\ new.rev >= acked[t]
        /\ j.at = j.to => new.status = Resting(j.at)
    <3>1. new.whole /\ new.writers = {}
      BY <1>2 DEF Stamping, Stamped
    <3>2. new.rev >= acked[t]
      <4>1. old.rev \in Nat /\ acked[t] \in Nat /\ old.rev >= acked[t]
        BY <1>2, <1>3 DEF Stamping, Copy, TypeInv, TypeOK
      <4>2. new.rev = IF j.op = "edit" THEN old.rev + 1 ELSE old.rev
        BY <1>3, SMTT(30) DEF Stamped, Copy
      <4> QED
        BY <4>1, <4>2
    <3>3. ASSUME j.at = j.to PROVE new.status = Resting(j.at)
      <4>1. new.status = IF j.op \notin {"edit", "exec"} THEN j.to ELSE old.status
        BY <1>3, <3>3 DEF Stamped, Copy
      <4> QED
        BY <1>2, <3>3, <4>1 DEF Stamping, Resting
    <3> QED
      BY <3>1, <3>2, <3>3
  <2> HIDE DEF new
  <2>3. k \in Job /\ k.task = t /\ k.op = j.op /\ k.at = j.at /\ k.to = j.to /\ k.data = new
    BY <1>2, <2>1 DEF Job
  <2> HIDE DEF k
  <2>4. job'[c] = k /\ pc'[c] = "write"
    BY <1>5 DEF Goto, TypeInv, TypeOK
  <2>5. Stamping(c)'
    BY <1>1, <1>2, <2>2, <2>3, <2>4 DEF Stamping, OnlyIn, Exists
  <2>6. InHand(c)'
    BY <2>4, <2>5 DEF InHand
  <2>7. "write" \in PC
    BY DEF PC
  <2> QED
    BY <1>1, <1>5, <2>3, <2>6, <2>7, LookingOrder
<1> QED
  BY <1>3, <1>4, <1>5 DEF Read

LEMMA ExecuteOrder ==
  ASSUME TypeInv, TypeInv', Order, Apart, NEW c \in Client, Execute(c)
  PROVE  Order'
<1> DEFINE j == job[c]
           t == j.task
<1>1. pc[c] = "execute" /\ UNCHANGED <<file, tmp, live, removed, used, acked>>
  BY DEF Execute, Ghosts
<1>2. Stamping(c) /\ j \in Job /\ t \in Task /\ j.at \in Bucket
  BY <1>1 DEF Order, InHand, TypeInv, TypeOK, Job
<1>3. PICK k \in Job :
        /\ job' = [job EXCEPT ![c] = k]
        /\ k.task = t /\ k.at = j.at
        /\ \/ k.op = "exec" /\ k.to = "running"
           \/ k.op = "finalize" /\ k.to \in Outcome
  <2>1. CASE job' = [job EXCEPT ![c].to = "running"]
    <3>1. [j EXCEPT !.to = "running"] \in Job
      BY <1>2 DEF Job, Bucket
    <3> QED
      BY <1>1, <1>2, <2>1, <3>1 DEF Stamping, Job
  <2>2. CASE \E r \in Outcome :
               job' = [job EXCEPT ![c].op = "finalize", ![c].to = r, ![c].left = 1]
    <3>1. PICK r \in Outcome : job' = [job EXCEPT ![c] =
                 [j EXCEPT !.op = "finalize", !.to = r, !.left = 1]]
      BY <2>2
    <3>2. [j EXCEPT !.op = "finalize", !.to = r, !.left = 1] \in Job
      BY <1>2 DEF Job, Bucket, Outcome, Phase
    <3> QED
      BY <1>2, <3>1, <3>2 DEF Job
  <2> QED
    BY <2>1, <2>2 DEF Execute
<1>4. /\ j.op = "exec" /\ j.at = "running" /\ k.to # "pending"
      /\ file[j.at][t].status = Resting(j.at)
  BY <1>1, <1>2, <1>3 DEF Stamping, Outcome
<1>5. job'[c] = k /\ pc'[c] = "read" /\ Goto(c, "read") /\ "read" \in PC
  BY <1>3 DEF Execute, Goto, TypeInv, TypeOK, PC
<1>6. Stamping(c)'
  BY <1>1, <1>2, <1>3, <1>4, <1>5 DEF Stamping, OnlyIn, Exists, Outcome
<1>7. InHand(c)'
  BY <1>5, <1>6 DEF InHand
<1> QED
  BY <1>1, <1>3, <1>5, <1>7, LookingOrder

LEMMA WriteOrder ==
  ASSUME TypeInv, TypeInv', Order, Apart, NEW c \in Client, Write(c)
  PROVE  Order'
<1> SUFFICES ASSUME NEW j, j = job[c], NEW t, t = j.task PROVE Order'
  OBVIOUS
<1>1. pc[c] = "write" /\ UNCHANGED <<file, job, live, removed, used, acked>>
  BY DEF Write, Ghosts
<1>2. Stamping(c) /\ j \in Job /\ t \in Task /\ j.at \in Bucket
  BY <1>1 DEF Order, InHand, TypeInv, TypeOK, Job
<1>3. pc'[c] = "replace" /\ \A d \in Client : d # c => pc'[d] = pc[d]
  BY DEF Write, Goto, TypeInv, TypeOK
<1>4. tmp' = [tmp EXCEPT ![j.at][t] = j.data]
  BY DEF Write
<1>5. \A b \in Bucket, u \in Task :
        tmp'[b][u] = IF b = j.at /\ u = t THEN j.data ELSE tmp[b][u]
  BY <1>2, <1>4 DEF TypeInv, TypeOK
<1>6. \A u \in Task : u # t => Untold(u)
  BY <1>1, <1>5 DEF Untold
<1>7. Stamping(c)'
  BY <1>1, <1>2, <1>3, <1>5 DEF Stamping, OnlyIn, Exists
<1>8. InHand(c)'
  BY <1>3, <1>7 DEF InHand
<1> QED
  BY <1>1, <1>3, <1>6, <1>8, WithinOrder

LEMMA ReplaceOrder ==
  ASSUME TypeInv, TypeInv', Order, Apart, NEW c \in Client, Replace(c)
  PROVE  Order'
<1> SUFFICES ASSUME NEW j, j = job[c], NEW t, t = j.task PROVE Order'
  OBVIOUS
<1>1. pc[c] = "replace" /\ Stamping(c) /\ j \in Job /\ t \in Task /\ j.at \in Bucket
  BY DEF Replace, Order, InHand, TypeInv, TypeOK, Job
<1>2. tmp[j.at][t] = j.data /\ j.data.whole /\ j.data # NoFile
  BY <1>1 DEF Stamping, NoFile
<1>3. /\ file' = [file EXCEPT ![j.at][t] = j.data]
      /\ tmp' = [tmp EXCEPT ![j.at][t] = NoFile]
      /\ acked' = IF j.op = "edit" THEN [acked EXCEPT ![t] = j.data.rev] ELSE acked
      /\ UNCHANGED <<live, removed, used>>
  BY <1>2 DEF Replace
<1>4. \A b \in Bucket, u \in Task :
        /\ file'[b][u] = IF b = j.at /\ u = t THEN j.data ELSE file[b][u]
        /\ tmp'[b][u] = IF b = j.at /\ u = t THEN NoFile ELSE tmp[b][u]
  BY <1>1, <1>3 DEF TypeInv, TypeOK
<1>5. \A u \in Task : u # t => Untold(u)
  BY <1>3, <1>4 DEF Untold, TypeInv, TypeOK
<1>6. \A d \in Client : d # c => pc'[d] = pc[d] /\ job'[d] = job[d]
  BY <1>2 DEF Replace, Goto, Leave, TypeInv, TypeOK
<1>7. /\ Clean(t)' /\ OnlyIn(t, {j.at})' /\ t \in live'
      /\ file'[j.at][t] = j.data
      /\ j.data.whole /\ j.data.writers = {} /\ j.data.rev >= acked'[t]
      /\ j.at = j.to => j.data.status = Resting(j.at)
  <2>1. Clean(t)'
    BY <1>1, <1>4, SMTT(30) DEF Stamping, Clean
  <2>4. file'[j.at][t] = j.data /\ t \in live'
    BY <1>1, <1>3, <1>4 DEF Stamping
  <2>5. OnlyIn(t, {j.at})'
    BY <1>1, <1>2, <1>4 DEF Stamping, OnlyIn, Exists
  <2>2. j.data.whole /\ j.data.writers = {} /\ j.at = j.to => j.data.status = Resting(j.at)
    BY <1>1 DEF Stamping
  <2>3. j.data.rev >= acked'[t]
    <3>1. acked \in [Task -> Nat] /\ j.data.rev \in Nat /\ j.data.rev >= acked[t]
      BY <1>1 DEF Stamping, TypeInv, TypeOK, Job, Copy
    <3> QED
      BY <1>1, <1>3, <3>1
  <2> QED
    BY <1>1, <2>1, <2>2, <2>3, <2>4, <2>5 DEF Stamping
<1>8. CASE Leave(c) /\ j.at = j.to
  <2>1. pc'[c] = "idle"
    BY <1>8 DEF Leave, Goto, TypeInv, TypeOK
  <2>2. AtRest(t)'
    BY <1>1, <1>7, <1>8 DEF AtRest, OnlyIn, Settled
  <2> QED
    BY <1>1, <1>3, <1>5, <1>6, <2>1, <2>2, WithinOrder
<1>9. ASSUME NEW k \in Job, job' = [job EXCEPT ![c] = k],
             NEW l \in {"read", "rename", "execute"}, Goto(c, l),
             k.task = t, k.at = j.at, k.to = j.to,
             k.op = j.op \/ (j.op = "run" /\ k.op = "exec" /\ j.at = j.to),
             l = "rename" => j.at # j.to, l = "execute" => k.op = "exec",
             l # "execute" => j.op \notin {"edit", "exec"}
      PROVE  Order'
  <2>1. pc'[c] = l /\ job'[c] = k
    BY <1>9 DEF Goto, TypeInv, TypeOK
  <2>2. \A b \in Bucket : tmp'[b][t] = NoFile
    BY <1>7 DEF Clean
  <2>3. Stamping(c)'
    <3>1. /\ k.op \in Movers \cup {"edit", "exec", "finalize"}
          /\ k.op = "edit" <=> k.to = "pending"
          /\ k.op \in {"run", "exec"} => k.to = "running"
          /\ k.op = "edit" => k.at = "pending"
          /\ k.op \in {"edit", "exec"} => k.at = k.to
      BY <1>1, <1>9 DEF Stamping, Movers
    <3>2. /\ t \in live' /\ OnlyIn(t, {k.at})'
          /\ file'[k.at][t] = j.data
          /\ file'[k.at][t].whole /\ file'[k.at][t].writers = {}
          /\ file'[k.at][t].rev >= acked'[t]
          /\ k.at = k.to => file'[k.at][t].status = Resting(k.at)
      BY <1>7, <1>9
    <3>3. l = "rename" => k.at # k.to
      BY <1>9
    <3>4. l = "execute" => k.op = "exec"
      BY <1>9
    <3> QED
      BY <1>9, <2>1, <2>2, <3>1, <3>2, <3>3, <3>4, ZenonT(40) DEF Stamping
  <2>4. InHand(c)'
    BY <2>1, <2>3 DEF InHand
  <2> QED
    BY <1>1, <1>3, <1>5, <1>6, <1>9, <2>1, <2>4, WithinOrder
<1>10. CASE j.op = "exec" /\ Goto(c, "execute") /\ UNCHANGED job
  <2>1. job' = [job EXCEPT ![c] = j]
    BY <1>10 DEF TypeInv, TypeOK
  <2> QED
    BY <1>1, <1>9, <1>10, <2>1
<1>11. CASE /\ j.op # "exec" /\ j.at # j.to
            /\ Goto(c, "read") /\ job' = [job EXCEPT ![c].left = @ - 1] /\ j.left > 1
  <2>1. [j EXCEPT !.left = j.left - 1] \in Job
    BY <1>1, <1>11 DEF Job
  <2>2. job' = [job EXCEPT ![c] = [j EXCEPT !.left = j.left - 1]]
    BY <1>11
  <2>3. j.op # "edit"
    BY <1>1, <1>11 DEF Stamping
  <2> DEFINE k == [j EXCEPT !.left = j.left - 1]
  <2>4. k.task = t /\ k.at = j.at /\ k.to = j.to /\ k.op = j.op
    BY <1>1 DEF Job
  <2> HIDE DEF k
  <2> QED
    BY <1>9, <1>11, <2>1, <2>2, <2>3, <2>4 DEF k
<1>12. CASE j.op # "exec" /\ j.at # j.to /\ Goto(c, "rename") /\ UNCHANGED job
  <2>1. job' = [job EXCEPT ![c] = j]
    BY <1>12 DEF TypeInv, TypeOK
  <2>2. j.op # "edit"
    BY <1>1, <1>12 DEF Stamping
  <2> QED
    BY <1>1, <1>9, <1>12, <2>1, <2>2
<1>13. CASE /\ j.op = "run" /\ j.at = j.to
            /\ Goto(c, "execute") /\ job' = [job EXCEPT ![c].op = "exec"]
  <2> DEFINE k == [j EXCEPT !.op = "exec"]
  <2>1. k \in Job /\ k.task = t /\ k.at = j.at /\ k.to = j.to /\ k.op = "exec"
    BY <1>1 DEF Job, Phase
  <2>2. job' = [job EXCEPT ![c] = k]
    BY <1>13
  <2> HIDE DEF k
  <2> QED
    BY <1>9, <1>13, <2>1, <2>2
<1> QED
  BY <1>2, <1>8, <1>10, <1>11, <1>12, <1>13 DEF Replace

LEMMA RenameOrder ==
  ASSUME TypeInv, TypeInv', Order, Apart, NEW c \in Client, Rename(c)
  PROVE  Order'
<1> SUFFICES ASSUME NEW j, j = job[c], NEW t, t = j.task PROVE Order'
  OBVIOUS
<1>1. /\ pc[c] = "rename" /\ Stamping(c) /\ j \in Job /\ t \in Task
      /\ j.at \in Bucket /\ j.to \in Bucket
  BY DEF Rename, Order, InHand, TypeInv, TypeOK, Job
<1>2. Exists(j.at, t) /\ j.at # j.to
  BY <1>1 DEF Stamping, OnlyIn
<1> DEFINE k == [j EXCEPT !.at = j.to]
<1>3. /\ file' = [file EXCEPT ![j.to][t] = file[j.at][t], ![j.at][t] = NoFile]
      /\ job' = [job EXCEPT ![c] = k]
      /\ Goto(c, "read")
      /\ UNCHANGED <<tmp, live, removed, used, acked>>
  BY <1>2 DEF Rename, Ghosts
<1>4. k \in Job /\ k.task = t /\ k.at = j.to /\ k.to = j.to /\ k.op = j.op
  BY <1>1 DEF Job
<1> HIDE DEF k
<1>5. \A b \in Bucket, u \in Task :
        file'[b][u] = IF u # t THEN file[b][u]
                      ELSE IF b = j.to THEN file[j.at][t]
                      ELSE IF b = j.at THEN NoFile ELSE file[b][u]
  <2> DEFINE f1 == [file EXCEPT ![j.to][t] = file[j.at][t]]
  <2>1. file' = [f1 EXCEPT ![j.at][t] = NoFile]
    BY <1>3
  <2>2. file \in [Bucket -> [Task -> Copy \cup {NoFile}]]
    BY DEF TypeInv, TypeOK
  <2>3. \A b \in Bucket, u \in Task :
          f1[b][u] = IF u = t /\ b = j.to THEN file[j.at][t] ELSE file[b][u]
    BY <1>1, <2>2
  <2>4. f1 \in [Bucket -> [Task -> Copy \cup {NoFile}]]
    BY <1>1, <2>2
  <2> HIDE DEF f1
  <2>5. \A b \in Bucket, u \in Task :
          file'[b][u] = IF u = t /\ b = j.at THEN NoFile ELSE f1[b][u]
    BY <1>1, <2>1, <2>4
  <2> QED
    BY <1>2, <2>3, <2>5
<1>11. UNCHANGED <<tmp, live, removed, used, acked>>
  BY <1>3
<1>6. \A u \in Task : u # t => Untold(u)
  BY <1>5, <1>11 DEF Untold
<1>7. /\ pc'[c] = "read" /\ job'[c] = k
      /\ \A d \in Client : d # c => pc'[d] = pc[d] /\ job'[d] = job[d]
  BY <1>3 DEF Goto, TypeInv, TypeOK
<1>8. OnlyIn(t, {j.to})' /\ file'[j.to][t] = file[j.at][t]
  BY <1>1, <1>2, <1>5, SMTT(30) DEF Stamping, OnlyIn, Exists
<1>9. Stamping(c)'
  <2>1. \A b \in Bucket : tmp'[b][t] = NoFile
    BY <1>1, <1>11 DEF Stamping
  <2>2. j.op \notin {"edit", "exec"}
    BY <1>1, <1>2 DEF Stamping
  <2> QED
    BY <1>1, <1>2, <1>4, <1>7, <1>8, <1>11, <2>1, <2>2 DEF Stamping
<1>10. InHand(c)'
  BY <1>7, <1>9 DEF InHand
<1> QED
  BY <1>1, <1>3, <1>4, <1>6, <1>7, <1>10, WithinOrder

LEMMA LoadOrder ==
  ASSUME TypeInv, TypeInv', Order, Apart, NEW c \in Client, Load(c)
  PROVE  Order'
<1> SUFFICES ASSUME NEW j, j = job[c], NEW t, t = j.task PROVE Order'
  OBVIOUS
<1>1. /\ pc[c] = "load" /\ Untouched(c) /\ j \in Job /\ t \in Task
      /\ j.at \in Bucket
      /\ UNCHANGED <<file, tmp, live, removed, used, acked>>
  BY DEF Load, Order, InHand, TypeInv, TypeOK, Job, Ghosts
<1> DEFINE old == file[j.at][t]
           new == [old EXCEPT !.status = "unset", !.writers = {}]
           k == [j EXCEPT !.data = new]
<1>2. /\ AtRest(t) /\ Exists(j.at, t) /\ j.at # "pending" /\ j.op = "retry"
      /\ Settled(old, j.at) /\ old.rev >= acked[t] /\ t \in live
      /\ OnlyIn(t, {j.at}) /\ Clean(t)
  BY <1>1 DEF Untouched, AtRest, OnlyIn
<1>3. old \in Copy
  BY <1>1, <1>2, SMTT(30) DEF Exists, TypeInv, TypeOK
<1>4. new \in Copy /\ Settled(new, "pending") /\ new.rev >= acked[t]
  BY <1>2, <1>3 DEF Copy, Settled, Resting
<1>5. job' = [job EXCEPT ![c] = k] /\ Goto(c, "open") /\ "open" \in PC
  BY <1>1, <1>2 DEF Load, Exists, PC
<1> HIDE DEF new
<1>6. k \in Job /\ k.task = t /\ k.at = j.at /\ k.op = j.op /\ k.data = new
  BY <1>1, <1>4 DEF Job
<1> HIDE DEF k
<1>7. pc'[c] = "open" /\ job'[c] = k
  BY <1>5, SMTT(30) DEF Goto, TypeInv, TypeOK
<1>8. Recopying(c)'
  BY <1>1, <1>2, <1>4, <1>6, <1>7 DEF Recopying, OnlyIn, Exists, Clean, Settled
<1>9. InHand(c)'
  BY <1>7, <1>8 DEF InHand
<1> QED
  BY <1>1, <1>5, <1>6, <1>9, LookingOrder

LEMMA OpenOrder ==
  ASSUME TypeInv, TypeInv', Order, Apart, NEW c \in Client, Open(c)
  PROVE  Order'
<1> SUFFICES ASSUME NEW j, j = job[c], NEW t, t = j.task PROVE Order'
  OBVIOUS
<1>1. /\ pc[c] = "open" /\ j \in Job /\ t \in Task /\ j.at \in Bucket
      /\ "pending" \in Bucket
      /\ UNCHANGED <<tmp, job, live, removed, used, acked>>
      /\ Making(c) \/ Recopying(c)
  BY DEF Open, Order, InHand, TypeInv, TypeOK, Job, Ghosts, Bucket
<1> DEFINE new == [rev |-> 0, status |-> "unset", whole |-> FALSE,
                   writers |-> file["pending"][t].writers \cup {c}]
<1>2. file["pending"][t] = NoFile
  BY <1>1 DEF Making, Recopying, OnlyIn, Exists
<1>3. new.writers = {c} /\ new # NoFile
  BY <1>2 DEF NoFile
<1>4. file' = [file EXCEPT !["pending"][t] = new]
  BY DEF Open
<1> HIDE DEF new
<1>5. \A b \in Bucket, u \in Task :
        file'[b][u] = IF b = "pending" /\ u = t THEN new ELSE file[b][u]
  BY <1>1, <1>4 DEF TypeInv, TypeOK
<1>6. \A u \in Task : u # t => Untold(u)
  BY <1>1, <1>5 DEF Untold
<1>7. pc'[c] = "dump" /\ \A d \in Client : d # c => pc'[d] = pc[d]
  BY DEF Open, Goto, TypeInv, TypeOK
<1>10. InHand(c)'
  <2>8. CASE Making(c)
    <3>1. OnlyIn(t, {"pending"})'
      BY <1>1, <1>3, <1>5, <2>8 DEF Making, OnlyIn, Exists
    <3>2. Making(c)'
      BY <1>1, <1>3, <1>5, <1>7, <2>8, <3>1 DEF Making, OnlyIn, Exists, Clean, Settled
    <3> QED
      BY <1>7, <3>2 DEF InHand
  <2>9. CASE Recopying(c)
    <3>1. OnlyIn(t, {j.at, "pending"})'
      BY <1>1, <1>3, <1>5, <2>9, SMTT(30) DEF Recopying, OnlyIn, Exists
    <3>2. Recopying(c)'
      BY <1>1, <1>3, <1>5, <1>7, <2>9, <3>1, ZenonT(40)
         DEF Recopying, OnlyIn, Exists, Clean, Settled
    <3> QED
      BY <1>7, <3>2 DEF InHand
  <2> QED
    BY <1>1, <2>8, <2>9
<1> QED
  BY <1>1, <1>6, <1>7, <1>10, WithinOrder

LEMMA DumpOrder ==
  ASSUME TypeInv, TypeInv', Order, Apart, NEW c \in Client, Dump(c)
  PROVE  Order'
<1> SUFFICES ASSUME NEW j, j = job[c], NEW t, t = j.task PROVE Order'
  OBVIOUS
<1>1. /\ pc[c] = "dump" /\ j \in Job /\ t \in Task /\ j.at \in Bucket
      /\ "pending" \in Bucket
      /\ UNCHANGED <<tmp, removed, used, acked>>
      /\ Making(c) \/ Recopying(c)
  BY DEF Dump, Order, InHand, TypeInv, TypeOK, Job, Ghosts, Bucket
<1>2. /\ \A b \in Bucket : c \in file[b][t].writers <=> b = "pending"
      /\ file["pending"][t].writers = {c}
      /\ Settled(j.data, "pending") /\ j.data \in Copy
  <2>1. CASE Making(c)
    BY <1>1, <2>1 DEF Making, OnlyIn, Exists, NoFile, Job
  <2>2. CASE Recopying(c)
    <3>1. ASSUME NEW b \in Bucket, b # "pending" PROVE file[b][t].writers = {}
      <4>1. CASE b = j.at
        BY <2>2, <4>1 DEF Recopying, Settled
      <4>2. CASE b # j.at
        <5>1. OnlyIn(t, {j.at, "pending"})
          BY <1>1, <2>2 DEF Recopying
        <5>2. file[b][t] = NoFile
          BY <3>1, <4>2, <5>1 DEF OnlyIn, Exists
        <5> QED
          BY <5>2 DEF NoFile
      <4> QED
        BY <4>1, <4>2, SMTT(30)
    <3> QED
      BY <1>1, <2>2, <3>1 DEF Recopying, Job
  <2> QED
    BY <1>1, <2>1, <2>2
<1> DEFINE old(b) == file[b][t]
           new == [j.data EXCEPT !.writers = @ \cup (old("pending").writers \ {c})]
<1>3. new = j.data
  <2>1. j.data.writers \cup (old("pending").writers \ {c}) = j.data.writers
    BY <1>2
  <2> QED
    BY <1>2, <2>1, ZenonT(40) DEF Copy
<1>4. \A b \in Bucket, u \in Task :
        file'[b][u] = IF b = "pending" /\ u = t THEN j.data ELSE file[b][u]
  <2>1. file' = [b \in Bucket |-> [file[b] EXCEPT ![t] =
                   IF c \in old(b).writers
                   THEN [j.data EXCEPT !.writers = @ \cup (old(b).writers \ {c})]
                   ELSE old(b)]]
    BY <1>1 DEF Dump, TypeInv, TypeOK
  <2> QED
    BY <1>1, <1>2, <1>3, <2>1 DEF TypeInv, TypeOK
<1>5. \A u \in Task : u # t =>
        /\ \A b \in Bucket : file'[b][u] = file[b][u]
        /\ tmp' = tmp
  BY <1>1, <1>4
<1>6. \A d \in Client : d # c => pc'[d] = pc[d] /\ job'[d] = job[d]
  BY DEF Dump, Goto, Leave, TypeInv, TypeOK
<1>7. CASE Making(c)
  <2>1. Leave(c) /\ live' = live \cup {t}
    BY <1>7 DEF Dump, Making
  <2>2. pc'[c] = "idle"
    BY <2>1 DEF Leave, Goto, TypeInv, TypeOK
  <2>3. AtRest(t)'
    <3>1. Clean(t)' /\ acked'[t] = 0 /\ t \in live'
      BY <1>1, <1>7, <2>1 DEF Making, Clean
    <3>2. j.data # NoFile /\ j.data.rev >= 0
      BY <1>2 DEF Settled, NoFile, Copy
    <3>3. OnlyIn(t, {"pending"})'
      BY <1>1, <1>4, <1>7, <3>2 DEF Making, OnlyIn, Exists
    <3>4. \A b \in Bucket : Exists(b, t)' => b = "pending"
      BY <3>3 DEF OnlyIn
    <3> QED
      BY <1>1, <1>2, <1>4, <3>1, <3>2, <3>3, <3>4 DEF AtRest, Settled
  <2>4. \A u \in Task : u # t => Untold(u)
    BY <1>1, <1>5, <2>1 DEF Untold
  <2>5. \A d \in Client : d # c /\ pc[d] # "idle" => job[d].task # t
    BY <1>1 DEF Apart
  <2>6. /\ t \in used' /\ used' \subseteq used \cup {t}
        /\ live' \cup removed' \subseteq used' /\ ~(t \in live' /\ t \in removed')
    BY <1>1, <1>7, <2>1 DEF Order, Ids, Making
  <2> QED
    BY <1>1, <1>6, <2>2, <2>3, <2>4, <2>5, <2>6, StepOrder
<1>8. CASE Recopying(c)
  <2>1. Goto(c, "unlink") /\ UNCHANGED <<job, live>>
    BY <1>8 DEF Dump, Recopying
  <2>2. pc'[c] = "unlink"
    BY <2>1 DEF Goto, TypeInv, TypeOK
  <2>3. j.data # NoFile
    BY <1>2, SMTT(30) DEF Settled, NoFile
  <2>4. OnlyIn(t, {j.at, "pending"})'
    BY <1>1, <1>4, <1>8, <2>3, SMTT(30) DEF Recopying, OnlyIn, Exists
  <2>5. Recopying(c)'
    BY <1>1, <1>2, <1>4, <1>8, <2>1, <2>2, <2>4 DEF Recopying, Clean, Settled
  <2>6. InHand(c)'
    BY <2>2, <2>5 DEF InHand
  <2>7. \A u \in Task : u # t => Untold(u)
    BY <1>1, <1>5, <2>1 DEF Untold
  <2> QED
    BY <1>1, <1>6, <2>1, <2>2, <2>6, <2>7, WithinOrder
<1> QED
  BY <1>1, <1>7, <1>8

LEMMA UnlinkOrder ==
  ASSUME TypeInv, TypeInv', Order, Apart, NEW c \in Client, Unlink(c)
  PROVE  Order'
<1> SUFFICES ASSUME NEW j, j = job[c], NEW t, t = j.task PROVE Order'
  OBVIOUS
<1>1. /\ pc[c] = "unlink" /\ j \in Job /\ t \in Task /\ j.at \in Bucket
      /\ "pending" \in Bucket
      /\ UNCHANGED <<tmp, used, acked>>
      /\ Leave(c)
      /\ Untouched(c) \/ Recopying(c)
      /\ file' = [file EXCEPT ![j.at][t] = NoFile]
  BY DEF Unlink, Order, InHand, TypeInv, TypeOK, Job, Bucket
<1>2. \A b \in Bucket, u \in Task :
        file'[b][u] = IF b = j.at /\ u = t THEN NoFile ELSE file[b][u]
  BY <1>1 DEF TypeInv, TypeOK
<1>3. pc'[c] = "idle" /\ \A d \in Client : d # c => pc'[d] = pc[d] /\ job'[d] = job[d]
  BY <1>1 DEF Leave, Goto, TypeInv, TypeOK
<1>4. \A d \in Client : d # c /\ pc[d] # "idle" => job[d].task # t
  BY <1>1 DEF Apart
<1>5. CASE Untouched(c)
  <2>1. AtRest(t) /\ Exists(j.at, t) /\ j.op = "remove"
    BY <1>1, <1>5 DEF Untouched
  <2>2. removed' = removed \cup {t} /\ live' = live \ {t}
    BY <2>1 DEF Unlink
  <2>3. t \in live /\ OnlyIn(t, {j.at})
    BY <1>1, <2>1 DEF AtRest, OnlyIn
  <2>4. OnlyIn(t, {})'
    BY <1>1, <1>2, <2>3 DEF OnlyIn, Exists
  <2>5. AtRest(t)'
    BY <1>1, <2>1, <2>2, <2>4 DEF AtRest, Clean, OnlyIn
  <2>6. \A u \in Task : u # t => Untold(u)
    BY <1>1, <1>2, <2>2 DEF Untold
  <2>7. /\ t \in used' /\ used' \subseteq used \cup {t}
        /\ live' \cup removed' \subseteq used' /\ ~(t \in live' /\ t \in removed')
    BY <1>1, <2>2, <2>3 DEF Order, Ids
  <2> QED
    BY <1>1, <1>3, <1>4, <2>5, <2>6, <2>7, StepOrder
<1>6. CASE Recopying(c)
  <2>1. UNCHANGED <<removed, live>>
    BY <1>6 DEF Unlink, Recopying
  <2>2. j.at # "pending" /\ OnlyIn(t, {j.at, "pending"}) /\ t \in live /\ Clean(t)
    BY <1>1, <1>6 DEF Recopying
  <2>3. OnlyIn(t, {"pending"})'
    BY <1>1, <1>2, <2>2 DEF OnlyIn, Exists
  <2>4. \A b \in Bucket : Exists(b, t)' => b = "pending"
    BY <2>3 DEF OnlyIn
  <2>5. /\ Settled(file["pending"][t], "pending")'
        /\ file'["pending"][t].rev >= acked'[t]
    <3>1. file'["pending"][t] = file["pending"][t] /\ acked' = acked
      BY <1>1, <1>2, <2>2
    <3>2. /\ Settled(file["pending"][t], "pending")
          /\ file["pending"][t].rev >= acked[t]
      BY <1>1, <1>6, SMTT(30) DEF Recopying
    <3> QED
      BY <3>1, <3>2 DEF Settled
  <2>6. AtRest(t)'
    BY <1>1, <2>1, <2>2, <2>3, <2>4, <2>5 DEF AtRest, Clean, Settled
  <2>7. \A u \in Task : u # t => Untold(u)
    BY <1>1, <1>2, <2>1 DEF Untold
  <2> QED
    BY <1>1, <1>3, <2>1, <2>6, <2>7, WithinOrder
<1> QED
  BY <1>1, <1>5, <1>6

LEMMA OrderNext ==
  ASSUME Crashable = {}, TypeInv, Order, Apart, Apart', [Next]_vars
  PROVE  Order'
<1>1. TypeInv'
  BY TypeNext
<1>2. CASE UNCHANGED vars
  <2>1. \A u \in Task : Untold(u)
    BY <1>2 DEF vars, Untold
  <2>2. \A c \in Client : pc[c] # "idle" => job[c].task \in Task /\ InHand(c)'
    BY <1>2, <2>1, UntoldHand DEF vars, Order, TypeInv
  <2>3. \A t \in Task : AtRest(t) => AtRest(t)'
    BY <2>1, UntoldRest
  <2> QED
    BY <1>2, <2>2, <2>3 DEF vars, Order, Ids, Busy
<1>3. ASSUME NEW c \in Client, Step(c) PROVE Order'
  BY <1>1, <1>3, AcquireOrder, CheckOrder, ParseOrder, ReadOrder, WriteOrder,
     ReplaceOrder, RenameOrder, ExecuteOrder, LoadOrder, OpenOrder, DumpOrder,
     UnlinkOrder DEF Step
<1>4. ASSUME NEW c \in Client, NEW o \in OpName, NEW t \in Task, Call(c, o, t)
      PROVE  Order'
  BY <1>1, <1>4, CallOrder
<1>5. ASSUME NEW p \in Process, Crash(p) PROVE Order'
  BY <1>5 DEF Crash
<1> QED
  BY <1>2, <1>3, <1>4, <1>5 DEF Next

LEMMA OrderApart ==
  ASSUME Crashable = {}
  PROVE  Spec /\ []Apart => [](TypeInv /\ Order)
<1>1. Init => TypeInv /\ Order
  BY TypeInit, OrderInit
<1>2. (TypeInv /\ Order) /\ [Next]_vars /\ Apart /\ Apart' => (TypeInv /\ Order)'
  BY TypeNext, OrderNext
<1> QED
  BY <1>1, <1>2, PTL DEF Spec

\* While no two calls work on the same task at once and no process dies, once
\* every call on a task has returned the status field of its file names the
\* directory the file is in (and is absent in pending): no sequence of starts,
\* stamps, shelvings, retries and edits leaves a task that says "running" in
\* unfinished/ or "failed" in pending/.
THEOREM StatusMatchesBucketApart ==
  ASSUME Crashable = {}
  PROVE  Spec /\ []Apart => []StatusMatchesBucket
<1>1. Order => StatusMatchesBucket
  BY DEF Order, StatusMatchesBucket, AtRest, Settled, Resting
<1> QED
  BY <1>1, OrderApart, PTL

\* There, no task is lost although retry_task, the unlocked moves and the
\* CLI take no lock at all.
THEOREM NeverLostApart ==
  ASSUME Crashable = {}
  PROVE  Spec /\ []Apart => []NeverLost
<1>1. TypeInv /\ Order => NeverLost
  <2> SUFFICES ASSUME TypeInv, Order, NEW t \in live PROVE Listed(t)
    BY DEF NeverLost
  <2>1. t \in Task
    BY DEF TypeInv, TypeOK
  <2>2. CASE Busy(t)
    <3>1. PICK c \in Client : pc[c] # "idle" /\ job[c].task = t
      BY <2>2 DEF Busy
    <3>2. InHand(c) /\ job[c].at \in Bucket
      BY <3>1, SMTT(30) DEF Order, TypeInv, TypeOK, Job
    <3>3. AtRest(t) \/ file[job[c].at][t].whole
      BY <3>1, <3>2 DEF InHand, Untouched, Stamping, Making, Recopying, Settled
    <3> QED
      BY <3>2, <3>3 DEF AtRest, OnlyIn, Settled, Listed
  <2>3. CASE ~Busy(t)
    BY <2>1, <2>3 DEF Order, AtRest, OnlyIn, Settled, Listed
  <2> QED
    BY <2>2, <2>3
<1> QED
  BY <1>1, OrderApart, PTL

=============================================================================
