------------------------------- MODULE Runner -------------------------------
(***************************************************************************)
(* The runner's state machine (runner.py): chilling and burning, the reset *)
(* anchor, the reset-anchored check slots, usage checks from the loop and  *)
(* from the dashboard, the execution lock, and restarts.                   *)
(*                                                                         *)
(* Time is counted in units of UNIT seconds of the code's constants (five  *)
(* minutes make every one of them whole but the 30-second floor and ticks, *)
(* which become Floor and PollTick).  Code between two blocking calls takes*)
(* no time; a usage check takes at most MaxFetch, a task any time.         *)
(*                                                                         *)
(* External: the Claude session, which a fetch reads, and a kick opens     *)
(* when none is active.  Abstracted: the percentage is whether at least    *)
(* BURN_USAGE_THRESHOLD_PCT is left; diagnostic fields, log and CSV rows   *)
(* are left out; pending tasks are the number that is ready to run.  The   *)
(* gate of a task created under next_session (queue_ops.py) is here, for   *)
(* it is computed from the runner's state.                                 *)
(***************************************************************************)
EXTENDS Integers, FiniteSets

CONSTANTS
  NULL,
  WebCheck,      \* request threads that call /api/check-usage
  WebRun,        \* worker threads of /api/run-once and /api/tasks/{id}/run
  Hour, Cycle,   \* an hour; the length of a session
  TMinus60, TMinus10, TPlus5,      \* offsets of the anchored slots
  Floor,         \* SCHED_DUE_FLOOR_S
  DriftTolerance, StaleGrace, MaxFuture, FallbackOverdue, SuppressWindow,
  BurnWindow,    \* BURN_RESET_WINDOW_MIN
  SleepCap,      \* the 600 s cap of a chilling sleep
  PollTick,      \* tick_seconds, rounded up to a unit
  MaxFetch,      \* longest usage check
  Jitter,        \* errors a fetched reset time may have
  FetchFails,    \* whether fetches may fail
  Restarts,      \* bound on restarts of the process
  MaxReady,      \* bound on ready tasks
  MaxManual,     \* bound on dashboard checks
  MaxTime,       \* bound on the clock
  StartsIn       \* time left in the session when the program starts

ASSUME RunnerAssumption ==
  /\ {Hour, Cycle, MaxTime} \subseteq Nat \ {0}
  /\ {TMinus60, TMinus10, TPlus5, Floor, DriftTolerance, StaleGrace,
      MaxFuture, FallbackOverdue, SuppressWindow, BurnWindow, SleepCap,
      PollTick, MaxFetch, Restarts, MaxReady, MaxManual} \subseteq Nat
  /\ Jitter \subseteq Int /\ 0 \in Jitter
  /\ StartsIn \subseteq Nat
  /\ FetchFails \in BOOLEAN
  /\ NULL \notin Int
  /\ "loop" \notin WebCheck \cup WebRun
  /\ NULL \notin WebCheck \cup WebRun \cup {"loop"}

Slot == {"t_minus_60", "pre_reset", "post_reset"}
Kind == Slot \cup {"hourly", "manual"}
Checker == WebCheck \cup {"loop"}

-----------------------------------------------------------------------------
VARIABLES
  now,        \* time.time()
  rs,         \* _runner_state
  sched,      \* _scheduled_checks
  wake,       \* _loop_wake
  checkLock,  \* _usage_check_lock
  execLock,   \* _execute_lock
  disk,       \* state/runner_state.json
  loop,       \* the loop's position and locals
  chk,        \* chk[a]: the do_usage_check call of a
  web,        \* web[w]: what worker thread w is doing
  ready,      \* number of ready tasks in pending/
  session,    \* when the current Claude session ends
  faked,      \* history: last_check_at is that of a suppressed tick
  unsaid,     \* history: tasks may have become ready since the loop began
              \* this pass, and nobody woke it for them
  manuals, restarts

vars == <<now, rs, sched, wake, checkLock, execLock, disk, loop, chk, web,
          ready, session, faked, unsaid, manuals, restarts>>

Counters == <<manuals, restarts>>
Ghosts == <<faked, unsaid, manuals, restarts>>

-----------------------------------------------------------------------------
Least(S) == CHOOSE x \in S : \A y \in S : x <= y
AtLeast(a, b) == IF a >= b THEN a ELSE b
Abs(x) == IF x < 0 THEN -x ELSE x

ColdState == [state |-> "chilling", burnUntil |-> NULL, lastCheckAt |-> NULL,
              resetIn |-> NULL, failed |-> FALSE,
              nextResetAt |-> NULL, postResetDone |-> FALSE]
NoCheck == [pc |-> "idle", kind |-> "hourly", since |-> 0, reset |-> NULL, proposed |-> NULL,
            action |-> "skip", effective |-> "hourly", crashed |-> FALSE,
            burn |-> "keep", burnUntil |-> NULL]
NewLoop == [pc |-> "load", t |-> 0, snap |-> ColdState, entry |-> NULL,
            until |-> 0, onTrue |-> "top", onFalse |-> "top"]

\* _next_usage_check_at: the next HH:00 strictly after a time; None counts
\* as the epoch.
NextHour(after) ==
  IF after = NULL THEN -(MaxTime + Cycle) ELSE (after \div Hour + 1) * Hour

\* Slips the checks must notice stand before the definition they replace:
\* here an anchor that has passed arms nothing (a restart loses T+5).
ArmedOnlyAhead(anchor) ==
  IF anchor <= now THEN {}
  ELSE {e \in {<<anchor - TMinus60, "t_minus_60">>,
                <<anchor - TMinus10, "pre_reset">>,
                <<anchor + TPlus5, "post_reset">>} : e[1] > now + Floor}

\* Slip: slots already past are queued all the same.
ArmedAll(anchor) ==
  {<<anchor - TMinus60, "t_minus_60">>, <<anchor - TMinus10, "pre_reset">>,
   <<anchor + TPlus5, "post_reset">>}

\* _arm_scheduled_locked: slots already past (or imminent) are dropped.
Armed(anchor) ==
  {e \in {<<anchor - TMinus60, "t_minus_60">>, <<anchor - TMinus10, "pre_reset">>,
          <<anchor + TPlus5, "post_reset">>} : e[1] > now + Floor}

\* _hourly_suppressed
HourlySuppressed(target, t) ==
  \/ \E e \in sched : Abs(e[1] - target) <= SuppressWindow
  \/ rs.lastCheckAt # NULL /\ t - rs.lastCheckAt < SuppressWindow

\* _decide_anchor_action: hourly, pre_reset and t_minus_60 count as fallback
\* when the anchor is overdue and its post_reset never landed.
Overdue(snap, by) == snap.nextResetAt # NULL /\ now > snap.nextResetAt + by

Effective(snap, kind) ==
  IF /\ kind \in {"hourly", "pre_reset", "t_minus_60"}
     /\ Overdue(snap, FallbackOverdue)
     /\ ~snap.postResetDone
  THEN "fallback" ELSE kind

AnchorAction(snap, kind, proposed) ==
  LET eff == Effective(snap, kind)
      inBand == Abs(proposed - snap.nextResetAt) <= DriftTolerance
  IN CASE proposed = NULL -> <<"skip", kind>>
       [] proposed # NULL /\ snap.nextResetAt = NULL -> <<"reanchor", "cold_start">>
       [] /\ proposed # NULL
          /\ snap.nextResetAt # NULL
          /\ \/ Overdue(snap, StaleGrace) /\ ~snap.postResetDone
             \/ snap.nextResetAt - now > MaxFuture -> <<"clamp", "cold_start">>
       [] OTHER ->
            <<IF /\ inBand
                 /\ \/ eff \in {"post_reset", "manual", "fallback"}
                    \/ eff = "pre_reset" /\ ~snap.postResetDone
              THEN "reanchor" ELSE "skip", eff>>

\* Slip: a burn lasts the whole window, not the time that is left.
BurnWholeWindow(reset, anchor) ==
  IF reset # NULL /\ reset < BurnWindow THEN BurnWindow - 1 ELSE reset

\* _effective_burn_minutes: a past anchor is no evidence.
BurnMinutes(reset, anchor) ==
  LET evidence == (IF reset = NULL THEN {} ELSE {reset}) \cup
                  (IF anchor # NULL /\ anchor > now THEN {anchor - now} ELSE {})
  IN IF evidence = {} THEN NULL ELSE Least(evidence)

InActiveBurn(s) == s.state = "burning" /\ s.burnUntil # NULL /\ now < s.burnUntil

\* Slip: a check in an active burn decides like any other.
BurnVerdictAnew(snap, burns) == IF burns THEN "burning" ELSE "chilling"

BurnVerdict(snap, burns) ==
  IF InActiveBurn(snap) THEN "keep" ELSE IF burns THEN "burning" ELSE "chilling"

\* Slip: the sleep ignores the anchored slots.
WakeupByClockOnly(l) ==
  now + AtLeast(0, Least(IF l.snap.state = "chilling"
                         THEN {NextHour(l.snap.lastCheckAt) - l.t, SleepCap}
                         ELSE {PollTick}))

\* _next_wakeup_seconds, from the loop's snapshot and the live slots.
NextWakeup(l) ==
  LET slot == IF sched = {} THEN {} ELSE {Least({e[1] : e \in sched}) - l.t}
      own == IF l.snap.state = "chilling"
             THEN {NextHour(l.snap.lastCheckAt) - l.t, SleepCap}
             ELSE {PollTick}
  IN now + AtLeast(0, Least(slot \cup own))

\* Slip: the reading of a check that has failed since still counts.
EligibleAtAfterFailure(s) ==
  IF /\ s.lastCheckAt # NULL /\ s.resetIn # NULL
     /\ s.lastCheckAt + s.resetIn > now
  THEN s.lastCheckAt + s.resetIn ELSE now + Cycle

\* compute_eligible_at under next_session; its buffer of 60 s is below a unit.
EligibleAt(s) ==
  IF /\ s.lastCheckAt # NULL /\ s.resetIn # NULL /\ ~s.failed
     /\ s.lastCheckAt + s.resetIn > now
  THEN s.lastCheckAt + s.resetIn ELSE now + Cycle

-----------------------------------------------------------------------------
Init ==
  /\ now = 0
  /\ rs = ColdState
  /\ sched = {}
  /\ wake = FALSE
  /\ checkLock = NULL
  /\ execLock = NULL
  /\ disk = [nextResetAt |-> NULL, postResetDone |-> FALSE]
  /\ loop = NewLoop
  /\ chk = [a \in Checker |-> NoCheck]
  /\ web = [w \in WebRun |-> "idle"]
  /\ ready \in 0..MaxReady
  /\ session \in StartsIn
  /\ faked = FALSE
  /\ unsaid = FALSE
  /\ manuals = 0
  /\ restarts = 0

\* _load_persisted_state: restore the durable fields, re-arm the slots.
LoadPersisted ==
  /\ rs' = [rs EXCEPT !.nextResetAt = disk.nextResetAt,
                      !.postResetDone = disk.postResetDone]
  /\ sched' = IF disk.nextResetAt = NULL THEN sched ELSE Armed(disk.nextResetAt)

\* _set_anchor_locked re-arms the slots and persists; _update_state wakes.
SetAnchor(fields, anchor, kind) ==
  /\ rs' = [fields EXCEPT !.nextResetAt = anchor,
                          !.postResetDone = (kind = "post_reset")]
  /\ sched' = Armed(anchor)
  /\ disk' = [nextResetAt |-> anchor, postResetDone |-> (kind = "post_reset")]

LoopGoto(l) == loop' = IF l = "top" THEN [NewLoop EXCEPT !.pc = "top"]
                       ELSE [loop EXCEPT !.pc = l]

\* The loop calls do_usage_check and goes on by its return value.
LoopCheck(kind, entry, onTrue, onFalse) ==
  /\ chk' = [chk EXCEPT !["loop"] = [NoCheck EXCEPT !.pc = "try", !.kind = kind]]
  /\ loop' = [loop EXCEPT !.pc = "checking", !.entry = entry,
                          !.onTrue = onTrue, !.onFalse = onFalse]

-----------------------------------------------------------------------------
(* do_usage_check, by the loop or by a request thread. *)

Return(a, result) ==
  /\ chk' = [chk EXCEPT ![a] = NoCheck]
  /\ IF a = "loop"
     THEN LoopGoto(IF result THEN loop.onTrue ELSE loop.onFalse)
     ELSE UNCHANGED loop

\* Slip: the lock is looked at but a busy one does not stop the check.
TryAnyway(a) ==
  /\ chk[a].pc = "try"
  /\ checkLock' = a
  /\ chk' = [chk EXCEPT ![a].pc = "fetch", ![a].since = now]
  /\ UNCHANGED <<now, rs, sched, wake, execLock, disk, loop, web, ready,
                 session, Ghosts>>

\* _usage_check_lock.acquire(blocking=False): a concurrent call is dropped.
Try(a) ==
  /\ chk[a].pc = "try"
  /\ IF checkLock = NULL
     THEN /\ checkLock' = a
          /\ chk' = [chk EXCEPT ![a].pc = "fetch", ![a].since = now]
          /\ UNCHANGED loop
     ELSE Return(a, FALSE) /\ UNCHANGED checkLock
  /\ UNCHANGED <<now, rs, sched, wake, execLock, disk, web, ready, session, Ghosts>>

\* What check_usage_once can return: nothing, or the time left.  With no
\* active session it kicks one open first.
Fetched(reset) ==
  \/ /\ FetchFails
     /\ reset = NULL
     /\ session' \in {session} \cup (IF session <= now THEN {now + Cycle} ELSE {})
  \/ /\ reset # NULL
     /\ session' = IF session <= now THEN now + Cycle ELSE session
     /\ \E j \in Jitter : reset = AtLeast(0, session' - now + j)

\* What do_usage_check makes of a reading: its snapshot, the anchor and the
\* burn, decided before it takes _state_lock again.
Decided(kind, reset, plenty) ==
  LET proposed == IF reset = NULL THEN NULL ELSE now + reset
      act == AnchorAction(rs, kind, proposed)
      eff == BurnMinutes(reset, IF act[1] = "clamp" THEN NULL ELSE rs.nextResetAt)
      burns == eff # NULL /\ reset # NULL /\ plenty /\ eff < BurnWindow
  IN [pc |-> "apply", kind |-> kind, since |-> 0, reset |-> reset, proposed |-> proposed,
      action |-> act[1], effective |-> act[2], crashed |-> FALSE,
      burn |-> BurnVerdict(rs, burns),
      burnUntil |-> IF burns THEN now + eff ELSE NULL]

\* The fetch returns.
Decide(a) ==
  \E reset \in {NULL} \cup 0..(Cycle + Cycle), plenty \in BOOLEAN :
    /\ chk[a].pc = "fetch"
    /\ Fetched(reset)
    /\ reset = NULL => plenty
    /\ chk' = [chk EXCEPT ![a] = Decided(chk[a].kind, reset, plenty)]
    /\ UNCHANGED <<now, rs, sched, wake, checkLock, execLock, disk, loop, web,
                   ready, Ghosts>>

\* check_usage_once raises: the time, status and error of the check change.
Crashed(a) ==
  /\ chk[a].pc = "fetch"
  /\ FetchFails
  /\ chk' = [chk EXCEPT ![a].pc = "apply", ![a].crashed = TRUE]
  /\ UNCHANGED <<now, rs, sched, wake, checkLock, execLock, disk, loop, web,
                 ready, session, Ghosts>>

\* Slip: a rejected post_reset still counts as this cycle's re-anchor.
ApplyFlagsRejected(a) ==
  LET c == chk[a]
      fields == [rs EXCEPT !.lastCheckAt = now,
                           !.resetIn = IF c.crashed THEN @ ELSE c.reset,
                           !.failed = c.crashed,
                           !.postResetDone = @ \/ c.kind = "post_reset",
                           !.state = IF c.burn = "keep" THEN @ ELSE c.burn,
                           !.burnUntil = IF c.burn = "keep" THEN @ ELSE c.burnUntil]
  IN /\ c.pc = "apply"
     /\ CASE c.crashed \/ c.action = "skip" -> rs' = fields /\ UNCHANGED <<sched, disk>>
          [] OTHER -> SetAnchor(fields, c.proposed, c.effective)
     /\ wake' = TRUE
     /\ checkLock' = NULL
     /\ Return(a, TRUE)
     /\ faked' = FALSE
     /\ UNCHANGED <<now, execLock, web, ready, session, unsaid, Counters>>

\* Fields, anchor and slots change in one critical section.
Apply(a) ==
  LET c == chk[a]
      fields == [rs EXCEPT !.lastCheckAt = now,
                           !.resetIn = IF c.crashed THEN @ ELSE c.reset,
                           !.failed = c.crashed,
                           !.state = IF c.burn = "keep" THEN @ ELSE c.burn,
                           !.burnUntil = IF c.burn = "keep" THEN @ ELSE c.burnUntil]
  IN /\ c.pc = "apply"
     /\ CASE c.crashed \/ c.action = "skip" -> rs' = fields /\ UNCHANGED <<sched, disk>>
          [] OTHER -> SetAnchor(fields, c.proposed, c.effective)
     /\ wake' = TRUE
     /\ checkLock' = NULL
     /\ Return(a, TRUE)
     /\ faked' = FALSE
     /\ UNCHANGED <<now, execLock, web, ready, session, unsaid, Counters>>

CheckStep(a) == Try(a) \/ Decide(a) \/ Crashed(a) \/ Apply(a)

-----------------------------------------------------------------------------
(* start_runner *)

LoopLoad ==
  /\ loop.pc = "load"
  /\ LoadPersisted
  /\ LoopCheck("hourly", NULL, "top", "top")
  /\ UNCHANGED <<now, wake, checkLock, execLock, disk, web, ready, session, Ghosts>>

\* _loop_wake.clear(), before the snapshot.
LoopTop ==
  /\ loop.pc = "top"
  /\ wake' = FALSE
  /\ unsaid' = FALSE
  /\ LoopGoto("snap")
  /\ UNCHANGED <<now, rs, sched, checkLock, execLock, disk, chk, web, ready,
                 session, faked, Counters>>

LoopSnap ==
  /\ loop.pc = "snap"
  /\ loop' = [loop EXCEPT !.pc = "slots", !.t = now, !.snap = rs]
  /\ UNCHANGED <<now, rs, sched, wake, checkLock, execLock, disk, chk, web,
                 ready, session, Ghosts>>

\* _pop_due_scheduled and the check it asks for.
LoopSlots ==
  /\ loop.pc = "slots"
  /\ \/ \E e \in sched :
          /\ e[1] <= loop.t
          /\ \A f \in sched : e[1] <= f[1]
          /\ sched' = sched \ {e}
          /\ LoopCheck(e[2], e, "top", "requeue")
     \/ /\ \A e \in sched : e[1] > loop.t
        /\ LoopGoto("hourly")
        /\ UNCHANGED <<sched, chk>>
  /\ UNCHANGED <<now, rs, wake, checkLock, execLock, disk, web, ready, session, Ghosts>>

\* Slip: the slot is put back whatever the check in the way has armed.
LoopRequeueAlways ==
  /\ loop.pc = "requeue"
  /\ sched' = sched \cup {<<AtLeast(now + Floor, loop.entry[1]), loop.entry[2]>>}
  /\ LoopGoto("top")
  /\ UNCHANGED <<now, rs, wake, checkLock, execLock, disk, chk, web, ready,
                 session, Ghosts>>

\* _requeue: unless the check that was in the way re-armed this kind.
LoopRequeue ==
  /\ loop.pc = "requeue"
  /\ sched' = IF \E e \in sched : e[2] = loop.entry[2] THEN sched
              ELSE sched \cup {<<AtLeast(now + Floor, loop.entry[1]), loop.entry[2]>>}
  /\ LoopGoto("top")
  /\ UNCHANGED <<now, rs, wake, checkLock, execLock, disk, chk, web, ready,
                 session, Ghosts>>

\* The hourly check, only from chilling; a suppressed one counts as done.
LoopHourly ==
  LET target == NextHour(loop.snap.lastCheckAt)
      due == loop.t >= target
  IN /\ loop.pc = "hourly"
     /\ \/ /\ loop.snap.state = "chilling" /\ due
           /\ HourlySuppressed(target, loop.t)
           /\ rs' = [rs EXCEPT !.lastCheckAt = loop.t]
           /\ faked' = TRUE
           /\ wake' = TRUE
           /\ LoopGoto("top")
           /\ UNCHANGED chk
        \/ /\ loop.snap.state = "chilling" /\ due
           /\ ~HourlySuppressed(target, loop.t)
           /\ LoopCheck("hourly", NULL, "top", "burn")
           /\ UNCHANGED <<rs, wake, faked>>
        \/ /\ ~(loop.snap.state = "chilling" /\ due)
           /\ LoopGoto("burn")
           /\ UNCHANGED <<rs, wake, faked, chk>>
     /\ UNCHANGED <<now, sched, checkLock, execLock, disk, web, ready, session,
                    unsaid, Counters>>

LoopBurn ==
  LET snap == loop.snap
  IN /\ loop.pc = "burn"
     /\ \/ /\ snap.state = "chilling"
           /\ LoopGoto("sleep")
           /\ UNCHANGED <<rs, wake>>
        \/ /\ snap.state = "burning"
           /\ loop.t >= snap.burnUntil
           /\ rs' = [rs EXCEPT !.state = "chilling", !.burnUntil = NULL]
           /\ wake' = TRUE
           /\ LoopGoto("top")
        \/ /\ snap.state = "burning"
           /\ loop.t < snap.burnUntil
           /\ LoopGoto("wantExec")
           /\ UNCHANGED <<rs, wake>>
     /\ UNCHANGED <<now, sched, checkLock, execLock, disk, chk, web, ready,
                    session, Ghosts>>

\* _process_one_task: execute_lock.acquire() may wait for a web run.
LoopAcquire ==
  /\ loop.pc = "wantExec"
  /\ execLock = NULL
  /\ execLock' = "loop"
  /\ LoopGoto("select")
  /\ UNCHANGED <<now, rs, sched, wake, checkLock, disk, chk, web, ready, session, Ghosts>>

\* Slip: the deadline is not looked at again under the lock.
LoopSelectLate ==
  /\ loop.pc = "select"
  /\ IF ready = 0
     THEN /\ execLock' = NULL
          /\ LoopGoto("sleep")
          /\ UNCHANGED ready
     ELSE /\ ready' = ready - 1
          /\ LoopGoto("execute")
          /\ UNCHANGED execLock
  /\ UNCHANGED <<now, rs, sched, wake, checkLock, disk, chk, web, session, Ghosts>>

\* The deadline again, then select and begin_task.  A task that somebody takes
\* between the two sends the loop to sleep whatever else is ready.
LoopSelect ==
  /\ loop.pc = "select"
  /\ \/ /\ now >= loop.snap.burnUntil \/ ready = 0
        /\ execLock' = NULL
        /\ LoopGoto("sleep")
        /\ UNCHANGED <<ready, unsaid>>
     \/ /\ now < loop.snap.burnUntil
        /\ ready > 0
        /\ ready' = ready - 1
        /\ LoopGoto("execute")
        /\ UNCHANGED <<execLock, unsaid>>
     \/ /\ now < loop.snap.burnUntil
        /\ ready > 0
        /\ ready' = ready - 1
        /\ unsaid' = TRUE
        /\ execLock' = NULL
        /\ LoopGoto("sleep")
  /\ UNCHANGED <<now, rs, sched, wake, checkLock, disk, chk, web, session, faked,
                 Counters>>

\* The task ends: a check follows, or the loop's error handler if
\* run_and_finalize raised.
LoopFinish ==
  /\ loop.pc = "execute"
  /\ execLock' = NULL
  /\ \/ LoopCheck("hourly", NULL, "top", "top")
     \/ LoopGoto("top") /\ UNCHANGED chk
  /\ UNCHANGED <<now, rs, sched, wake, checkLock, disk, web, ready, session, Ghosts>>

\* Slip: the wake event is cleared just before waiting.
LoopSleepDeaf ==
  /\ loop.pc = "sleep"
  /\ loop' = [loop EXCEPT !.pc = "wait", !.until = NextWakeup(loop)]
  /\ wake' = FALSE
  /\ UNCHANGED <<now, rs, sched, checkLock, execLock, disk, chk, web, ready,
                 session, Ghosts>>

LoopSleep ==
  /\ loop.pc = "sleep"
  /\ loop' = [loop EXCEPT !.pc = "wait", !.until = NextWakeup(loop)]
  /\ UNCHANGED <<now, rs, sched, wake, checkLock, execLock, disk, chk, web,
                 ready, session, Ghosts>>

LoopWake ==
  /\ loop.pc = "wait"
  /\ wake \/ now >= loop.until
  /\ LoopGoto("top")
  /\ UNCHANGED <<now, rs, sched, wake, checkLock, execLock, disk, chk, web,
                 ready, session, Ghosts>>

LoopStep ==
  \/ LoopLoad \/ LoopTop \/ LoopSnap \/ LoopSlots \/ LoopRequeue \/ LoopHourly
  \/ LoopBurn \/ LoopAcquire \/ LoopSelect \/ LoopFinish \/ LoopSleep \/ LoopWake

-----------------------------------------------------------------------------
(* The dashboard and the world. *)

\* POST /api/check-usage
ManualCheck(a) ==
  /\ chk[a].pc = "idle"
  /\ manuals < MaxManual
  /\ manuals' = manuals + 1
  /\ chk' = [chk EXCEPT ![a] = [NoCheck EXCEPT !.pc = "try", !.kind = "manual"]]
  /\ UNCHANGED <<now, rs, sched, wake, checkLock, execLock, disk, loop, web,
                 ready, session, faked, unsaid, restarts>>

\* POST /api/tasks or an edit of a gate: one more task is ready.
AddTask ==
  /\ ready < MaxReady
  /\ ready' = ready + 1
  /\ wake' = TRUE
  /\ UNCHANGED <<now, rs, sched, checkLock, execLock, disk, loop, chk, web,
                 session, Ghosts>>

\* POST retry, the command line, a gate that opens by time or a dependency that
\* is settled make tasks ready without wake_runner; others are removed.
QueueChanges ==
  /\ ready' \in 0..MaxReady
  /\ unsaid' = (unsaid \/ ready' > ready)
  /\ UNCHANGED <<now, rs, sched, wake, checkLock, execLock, disk, loop, chk, web,
                 session, faked, Counters>>

\* Slip: the workers ignore a lock that is taken.
WebStartAnyway(w) ==
  /\ web[w] = "idle"
  /\ execLock' = w
  /\ web' = [web EXCEPT ![w] = "running"]
  /\ ready' \in 0..ready
  /\ UNCHANGED <<now, rs, sched, wake, checkLock, disk, loop, chk, session, Ghosts>>

\* The workers take _execute_lock without waiting; run-once enters
\* start_runner, so reloads the persisted state of the live runner, and drains
\* what is ready, which may be nothing; the other runs a task, ready or not.
WebStart(w) ==
  /\ web[w] = "idle"
  /\ execLock = NULL
  /\ execLock' = w
  /\ web' = [web EXCEPT ![w] = "running"]
  /\ ready' \in 0..ready
  /\ \/ LoadPersisted
     \/ UNCHANGED <<rs, sched>>
  /\ UNCHANGED <<now, wake, checkLock, disk, loop, chk, session, Ghosts>>

WebFinish(w) ==
  /\ web[w] = "running"
  /\ web' = [web EXCEPT ![w] = "idle"]
  /\ execLock' = NULL
  /\ wake' = TRUE
  /\ UNCHANGED <<now, rs, sched, checkLock, disk, loop, chk, ready, session, Ghosts>>

\* Somebody uses Claude after the session ended: a new one begins.
UseClaude ==
  /\ session <= now
  /\ session' = now + Cycle
  /\ UNCHANGED <<now, rs, sched, wake, checkLock, execLock, disk, loop, chk,
                 web, ready, Ghosts>>

\* The process dies and is started again; only the file survives.
Restart ==
  /\ restarts < Restarts
  /\ restarts' = restarts + 1
  /\ rs' = ColdState
  /\ sched' = {}
  /\ wake' = FALSE
  /\ checkLock' = NULL
  /\ execLock' = NULL
  /\ loop' = NewLoop
  /\ chk' = [a \in Checker |-> NoCheck]
  /\ web' = [w \in WebRun |-> "idle"]
  /\ faked' = FALSE
  /\ unsaid' = FALSE
  /\ UNCHANGED <<now, disk, ready, session, manuals>>

\* Time passes only while every thread waits for something that takes time.
Tick ==
  /\ now < MaxTime
  /\ \/ loop.pc \in {"execute", "wantExec", "checking"}
     \/ loop.pc = "wait" /\ ~wake /\ now < loop.until
  /\ loop.pc = "wantExec" => execLock # NULL
  /\ \A a \in Checker : \/ chk[a].pc = "idle"
                        \/ chk[a].pc = "fetch" /\ now < chk[a].since + MaxFetch
  /\ now' = now + 1
  /\ UNCHANGED <<rs, sched, wake, checkLock, execLock, disk, loop, chk, web,
                 ready, session, Ghosts>>

Next ==
  \/ LoopStep
  \/ \E a \in Checker : CheckStep(a)
  \/ \E a \in WebCheck : ManualCheck(a)
  \/ \E w \in WebRun : WebStart(w) \/ WebFinish(w)
  \/ AddTask
  \/ QueueChanges
  \/ UseClaude
  \/ Restart
  \/ Tick

Spec == Init /\ [][Next]_vars

-----------------------------------------------------------------------------
Time == Nat \cup {NULL}
StateRecord ==
  [state : {"chilling", "burning"}, burnUntil : Time, lastCheckAt : Time,
   resetIn : Time, failed : BOOLEAN, nextResetAt : Time, postResetDone : BOOLEAN]

TypeOK ==
  /\ now \in Nat
  /\ rs \in StateRecord
  /\ \A e \in sched : e[1] \in Nat /\ e[2] \in Slot
  /\ wake \in BOOLEAN
  /\ checkLock \in Checker \cup {NULL}
  /\ execLock \in WebRun \cup {"loop", NULL}
  /\ disk \in [nextResetAt : Time, postResetDone : BOOLEAN]
  /\ loop.snap \in StateRecord
  /\ \A a \in Checker : chk[a].kind \in Kind /\ chk[a].proposed \in Time
  /\ web \in [WebRun -> {"idle", "running"}]
  /\ ready \in Nat
  /\ session \in Nat
  \* a state that burns has a deadline, and one that chills has none
  /\ rs.state = "burning" <=> rs.burnUntil # NULL

\* "One task at a time": the loop and the dashboard workers never run two.
Executing == {w \in WebRun : web[w] = "running"}
             \cup (IF loop.pc \in {"select", "execute"} THEN {"loop"} ELSE {})
OneTaskAtATime == \A a, b \in Executing : a = b

\* "Concurrent checks coalesced": two checks never fetch, kick or apply at
\* the same time.
Checking == {a \in Checker : chk[a].pc \in {"fetch", "apply"}}
OneCheckAtATime == \A a, b \in Checking : a = b

Lives == restarts' = restarts

\* The loop starts a task only inside the burn window that is in force then,
\* however long it waited for the execution lock and whatever a concurrent
\* check did to the state since the loop's snapshot.
StartsOnlyInBurn ==
  [][loop.pc = "select" /\ loop'.pc = "execute" => InActiveBurn(rs)]_vars

\* The loop is about to close a burn it saw expire.
ClosesBurn ==
  loop.pc = "burn" /\ loop.snap.state = "burning" /\ loop.snap.burnUntil <= loop.t

\* No check, manual or scheduled, successful or failed, ends or moves a burn
\* whose deadline is ahead ("these checks never downgrade state"), and no
\* other step does: only the loop may, when a check has opened the burn after
\* the loop had seen the previous one expire.
BurnsKept ==
  [][Lives /\ InActiveBurn(rs) /\ ~ClosesBurn
       => rs'.state = "burning" /\ rs'.burnUntil = rs.burnUntil]_vars

\* A burn never outlasts the session whose leftover budget it is to use.
BurnWithinSession ==
  rs.state = "burning" =>
    \E j \in Jitter : rs.burnUntil <= session + j

\* While the loop waits without a pending wake-up, no change of state and no
\* task it was woken for inside the burn window has gone unnoticed; and a task
\* that became ready behind its back waits no longer than tick_seconds.
NoLostWakeup ==
  loop.pc = "wait" /\ ~wake =>
    /\ loop.snap.state = rs.state
    /\ loop.snap.burnUntil = rs.burnUntil
    /\ InActiveBurn(rs) => /\ ready = 0 \/ unsaid
                           /\ loop.until <= now + PollTick

\* The loop does not sleep past a reset-anchored slot.
NoSlotSleptThrough ==
  loop.pc = "wait" /\ ~wake /\ now < loop.until => \A e \in sched : e[1] > now

\* Until it is due, the T+5 check of the current anchor stays queued: no
\* re-anchor, restart or reload by run-once drops it.
PostResetQueued ==
  /\ loop.pc # "load"
  /\ rs.nextResetAt # NULL
  /\ now + Floor < rs.nextResetAt + TPlus5
  => <<rs.nextResetAt + TPlus5, "post_reset">> \in sched

\* However a dropped slot, the check that was in its way and a reload by
\* run-once interleave, no slot is queued twice.
SlotsDistinct == \A e, f \in sched : e[2] = f[2] => e = f

\* A dead anchor is replaced: a runner that sleeps, with no check under way
\* and none that failed, has an anchor if its last check read a reset time,
\* and one that is overdue by no more than the stale grace and what one
\* suppressed tick and the next hour, or one burn window, can add.
AnchorRecovers ==
  /\ loop.pc = "wait" /\ ~wake /\ Checking = {}
  /\ rs.resetIn # NULL /\ ~rs.failed
  => /\ rs.nextResetAt # NULL
     /\ now <= rs.nextResetAt + StaleGrace
               + AtLeast(Hour + SuppressWindow, BurnWindow + PollTick)

\* A task created under next_session is "eligible after the current 5-hour
\* session ends", also when the state it is computed from is that of an
\* earlier session or its last check has failed.  Not so when a suppressed
\* tick has put a later time beside an older reading.
GateSkipsSession ==
  loop.pc = "wait" /\ session > now /\ ~faked => EligibleAt(rs) >= session

\* "The post_reset check is the canonical re-anchor for the next 5-hour
\* cycle": one that read a reset time leaves an anchor that lies ahead.
PostResetReanchors ==
  [][\A a \in Checker :
       /\ Lives
       /\ chk[a].pc = "apply" /\ chk'[a].pc = "idle"
       /\ chk[a].kind = "post_reset" /\ chk[a].proposed # NULL
       => rs'.nextResetAt # NULL /\ rs'.nextResetAt > now]_vars

=============================================================================
