# Formal models of queue-worker

`queue-worker` (`src/src/queue_worker/`) lets a user queue prompts for Claude Code and runs
them when the usage budget of the current five-hour session is about to expire. It is one
Python process (FastAPI dashboard, a background runner thread, worker threads for manual
runs) plus a command line that works on the same directory of YAML files. What is hard in it
is not any one function but that the same files and the same in-memory state are touched by
several threads, several processes and by restarts, and that its clockwork (anchor, slots,
burn window) has to survive readings that are late, wrong or missing.

This directory holds TLA+ modules for that core, TLC configurations for small instances, and
machine-checked proofs about the queue directory, the runner, an execution and its recovery,
the order of the tasks, the usage check, the password gate, the claude driver and its transcript. All source
references are relative to `src/src/queue_worker/`.

## 1. Inventory

| Part | Source | State | Operations | Modelled by |
|---|---|---|---|---|
| Task files | `task.py`, `queue_ops.py` | `queue/{pending,running,done,unfinished,failed}/<id>.yaml`, `.tmp` siblings, `PENDING_MUTATION_LOCK` | create, begin, complete, fail, stall, retry, remove, edit, unfinish; `augment_task`, `move_task` | `TaskFiles` |
| Listing and order | `queue_ops.py` 46-175, 232-369; `runner.py` 336-369 | file names, `priority`, `depends_on`, `eligible_at` of each file | `get_pending_tasks`, `resolve_run_order`, `reconcile_filenames`, the selection in `_process_one_task`; `compute_eligible_at` | `RunOrder`; the next_session gate in `Runner`; the tonight gate is left out |
| Runner | `runner.py` | `_runner_state`, `_scheduled_checks`, `_loop_wake`, `_usage_check_lock`, `_execute_lock`, `state/runner_state.json` | the loop, `do_usage_check`, arming and popping slots, re-anchoring, burning, load and persist | `Runner` |
| Execution | `executor.py`, `lock.py`, `injector.py`, `runner.py` 309-333 and 761-805 | `running/<id>.lock`, the project's `CLAUDE.md` and its backup, the claude process group | `execute_task`, `run_and_finalize`, cancel, `_recover_stale` at a start, by a runner thread started again, and by run-once; moves by hand | `TaskExecution`, which implements `TaskLife` |
| claude driver and stream parser | `executor.py` 100-200, 290-380 | what has been parsed, latched usage and cost | `_run_claude`, `feed` | `ClaudeSession` |
| Session transcripts | `sessions.py` | none (reads files that claude writes) | `find_transcript`, `summarize_session` with its head and tail windows | `Transcript`, composed with the run that writes the file in `ClaudeSession` |
| Usage check | `usage_check.py`, `usage_check_http.py` | memoised organisation id, `_usage_lock`, back-end order | key, organisation, requests and retries, kick | `UsageCheck`; `Runner` uses its result (`Fetched`) |
| Authentication | `auth.py`, `web.py` | failure records, global failure log and lockout, sessions | login, logout, expiry, pruning | `Authentication`, without the sessions |
| Dashboard | `web.py` | none of its own | task routes, run-once, run task, cancel, check usage, login and logout, resume-info, settings | the routes that change the state of another part, or read it step by step, are actions of that part's module |
| Command line | `cli.py` | none | the same task operations from a process of its own | a client of `TaskFiles` |
| CLAUDE.md text, profiles | `injector.py`, `profiles.py` | none | building text | out: text only |
| File browser, logger, configuration, browser code | `file_browser.py`, `logger.py`, `config.py`, `static/` | none or append-only | listings, lines, start-up settings | out: no state a property could be about |

How they interact:

- The **runner loop** lists pending files, takes `_execute_lock`, calls `begin_task`, runs
  `execute_task` and finalizes. Between tasks it calls `do_usage_check`, which may re-anchor
  the slots and open or close a burn.
- **Dashboard requests** run in threads of the same process. They call `queue_ops` directly,
  `do_usage_check(kind="manual")`, or start a worker thread that tries `_execute_lock`
  without waiting. Some of them wake the loop through `_loop_wake`, and some that make a task ready
  do not (retry, for one). A login passes two locks of `auth.py`.
- **Users** may also move, begin or remove a task by hand, also one that is being run: nothing in
  `complete_task`, `fail_task`, `stall_task` and `remove_task` asks whose it is.
- The **command line** is another process: it shares the files, but none of the locks, which
  are `threading.Lock`s.
- **claude** runs in a process group of its own and survives the server. What the server
  knows of it is in `running/<id>.lock`. A **stream thread** parses what it writes to stdout
  while the executor waits for its end; the dashboard reads the transcript it writes.

What each part must get right: a task is never lost, never in two places, an accepted edit
is never written over (task files); one task and one check at a time, tasks start only
inside a burn window, a burn never outlasts its session, no wake-up and no slot is missed, an
anchor that is wrong is replaced, a gated task waits for the session it was promised (runner);
the best ready task is the one started, and none waits for ever (order); the user's `CLAUDE.md`
comes back, no task stays in `running/`, recovery ends and leaves live runs alone, no two claudes
work at once (execution); the executor always gets back, with the whole usage (driver); the
summary is of the right session and shows its last message (transcripts); the organisation is
never guessed, and a check always returns, soon (usage check); nobody gets more attempts than the
limits allow (authentication).

`PROJECT.json` lists the hazards, each at the line where it bites, with the properties that
cover it or the reason none does.

## 2. Modules

### TaskFiles: the queue directory

State: `file[b][t]` is the copy of task `t` in bucket `b`; `tmp[b][t]` its shared `.yaml.tmp`
sibling; `lock[p]` the holder of `PENDING_MUTATION_LOCK` in process `p`; `pc`, `job` the
position and locals of each caller; `live`, `removed`, `used`, `acked` are history variables
(what callers have been told). A copy is reduced to how many edits it has, its status
field, whether it has all required fields, and who has it open for in-place writing.

**One step is one file-system call**, because most functions hold no lock and those that do
exclude only one another, and only within one process. So the ten operations share the
steps `Check` (the probes of `exists` or `find_task_yaml`), `Parse`, `Read`, `Write` (the
`.tmp` file), `Replace`, `Rename`, `Load`, `Open`, `Dump`, `Unlink`, and an operation is the
path its `job` takes through them: `begin` is Acquire-Check-Parse-Read-Write-Replace-Rename-
Read-Write-Replace-release; `stall` stamps twice before it moves; `retry` loads, opens
the pending file in place, dumps and unlinks; `run` is `begin` followed by the executor's
stamps (`exec`) and `run_and_finalize` (`finalize`), whose exceptions are caught differently
(`Raise`). `Crash(p)` kills all threads of a process between any two steps.

### Runner: anchor, slots, checks, burn

State: `rs` is `_runner_state`, `sched` is `_scheduled_checks`, `disk` the persisted
file, `wake` the event, `checkLock` and `execLock` the two locks; `loop` holds the loop's
position and its snapshot, `chk[a]` the `do_usage_check` call of the loop or of a request
thread. `session` is the end of the real Claude session, external to the program: a fetch
reads it with an error from `Jitter`, and a kick opens a new one. `ready` is how many tasks can run; `AddTask`
makes one ready and wakes the loop, `QueueChanges` is everything that does not: retry, the command line, a gate that
opens by time, a dependency that is settled, a removal. Two histories: `faked`, `last_check_at` was set by
a suppressed hourly tick, which checks nothing; `unsaid`, tasks may have become ready since the loop
began its pass and nobody woke it for them.

Time is discrete and advances (`Tick`) only while every thread is in something that takes
time: waiting, executing, fetching. `do_usage_check` is `Try` (non-blocking lock), `Decide`
or `Crashed` (the fetch returns, the snapshot is taken, anchor and burn are `Decided`), and
`Apply` (fields, anchor and slots in one critical section); the gap between `Decide` and
`Apply` is where the code works on a snapshot. The loop is one action per statement that
reads or writes shared state: `LoopTop` (clear the event), `LoopSnap`, `LoopSlots`,
`LoopRequeue`, `LoopHourly`, `LoopBurn`, `LoopAcquire`, `LoopSelect`, `LoopFinish`, `LoopSleep`,
`LoopWake`. `_decide_anchor_action` is the operator `AnchorAction`, with `Effective` for the
fallback promotion; `_arm_scheduled_locked` is `Armed`; `compute_eligible_at` for `next_session`,
which adds the last reading to the time of the last check, is `EligibleAt`.

### TaskExecution and TaskLife: one run, and what is left when the server dies

State: `bucket[t]`, `claudeMd`, `backup[p]` (the backup path has the process id in its
name), `lock[t]` (absent, torn, or its fields), `pid` (`NULL` while the server is down),
`claude` (the claude processes this server started), `ex` (position in `execute_task`, its `finally` and
`run_and_finalize`), `rec[r]` (position in `_recover_stale`, for each of the two that may be at it).
Writing a lock file truncates first, so it is two steps and a crash in between leaves a torn file;
`cleanup_claude_md` is two (unlink, rename). Recovery works on the lock contents it read at the
beginning (`rec[r].read`).

Three things start a recovery. A new server does (`Start`), in the background thread and **without**
`_execute_lock`, so that dashboard workers may begin a run meanwhile. When something raises outside its
`try` blocks (`RunnerFails`), `_background_runner` starts the runner again 15 seconds later, in a
live server and beside whatever runs there (`RunnerAgain`). Run-once does (`RunOnce`), under the lock, but
not excluded from the recovery of a start: the two may be at the same locks. Each asks whether the
process of a lock is alive (`IsStale`); `os.kill` finds the server itself and any process that has since
got the id of a dead one, which `Scan` chooses (`alien`) where `ReusePid` lets ids come back.

Every file operation that may raise does (`Raise`): lock writes, the injection, the clean-up, the stamps
and moves of `run_and_finalize` and of recovery, the reading and removal of a lock; each goes to the handler the code
has for it, and a task that could not be moved stays in `running/`. `ByHand` is what dashboard and
command line do to a task whoever runs it: retry, unfinish, begin, done, fail, stall, remove.

Four histories say what the properties must except, because the code does nothing about it:

- `intact` turns `FALSE` at the first event the code has no repair for: a death in one of the windows
  of `Unrepairable`, a write or clean-up that fails, a recovery that overlaps a run or another recovery, a lock that
  is taken for that of a live process;
- `exposed`: the present run began during a recovery of a start, or was without a whole lock file of its
  own during one (finding 5);
- `touched`: a user has moved the file of the present run;
- `left`: the tasks in `running/` that somebody is known to have left there: begun by hand, not moved because
  of an error, or their lock taken for a live one's.

`TaskLife` is the abstract specification, in terms of what a user of the queue sees: a task's
status, whether the server is down, recovering or up, and the one worker. A worker gives its task an
outcome, or leaves it, or finds it gone, and the last only if it was exposed or a user touched it; users
move tasks as they like; recovery shelves what has no worker, and takes a task from a worker only if the run was
exposed; and when a start has recovered, whatever sits in `running/` has a worker or is in `left`. It has no lock
files, no positions, no `CLAUDE.md`. `TaskExecution` instantiates it (`Life`) with `status <- bucket`, `phase <- Phase`,
`worker <- ex.task`, and `LifeKept` says that it implements it.

### ClaudeSession and Transcript: a run of claude, and what is learned of it

`ClaudeSession` has three concurrent parties. claude (external) takes a `Turn`, which goes to
`stdout` and to the transcript, may leave a `helper` process behind that keeps the stream open,
and ends, crashes or hangs. The stream thread parses one event per `Feed`, latching usage and
cost as `_StreamParser` does, meets the end of the stream in `Drain`, or dies before it (`StreamDies`: strict
decoding, an event of another shape, a log that cannot be written). The driver is
`_run_claude`: `Ended` or `Terminate` after the budget, `Kill` after the grace period, `Join` with
a time limit, then `ReadUsage`, three separate reads while the stream thread may still go on.

`Transcript` is the dashboard's summary of a session whose file is being written: `Find`
(`find_transcript` and the first `cwd`), `ReadHead`, `Stat`, `Seek` (the offset of the tail), `ReadTail`,
`Reply`. The file may grow between any two of them; a line is where it ends, whether it is a human
message and whether it records a directory.

### UsageCheck: one check, from the key to the result

State: `account` (the organisations the session key gives access to), `active` (a session is
open) and `pin` (`CLAUDE_ORG_UUID`) are the world's; `memo` is `_ORG_UUID_MEMO`, `cache` is
`state/org_cache.json`, `check` the position and locals of the check in progress, with the
seconds it has `spent`. `sole` is a history variable: which organisations have ever been the
only one of the account.

`LoadKey`, `Resolve` (memo, pin, cache file, listing), `Request` (one attempt of the retry loop
of `fetch_usage_http`, its pause, and the cache file after a success), `Deliver` (kick, or
return) and `Kick` (`claude -p`, the settling time, the second fetch). A reply is the error code
that `_request` and `_parse_usage` make of it. `SwitchAccount`, `SessionChanges` and `Restart`
happen between any two of them. Times are the code's seconds. `REQUEST_TIMEOUT_S` limits each wait for the
socket (every address that is tried, the handshake, each `recv`), not the request: a request takes some number of them
(`RequestTime`), which nothing in the code bounds, and `Waits` does in the model.

### Authentication: the password gate

State: `failures` (the record of each address), `globalFailures` (times of recent failures),
`globalLockedUntil`, and `att[t]`, the login that request thread `t` handles. An attempt
reads the clock once (`Begin`), and then takes the global lock (`CheckGlobal`), the failure lock
(`CheckAddress`: lockout, comparison, record and eviction in one critical section), and after a wrong
password the global lock again (`RecordGlobal`). Time passes between any two, so what an attempt
writes may be older than what is there. `guesses` and `att[t].barred` are histories. The sessions that right
passwords open are left out.

### RunOrder: which task is next

State: `place[t]` the directory of `<t>.yaml`, `spec[t]` its priority, dependencies and gate,
`copy[t]` a conflicted copy of it in `pending/` (same id inside, another file name), `clock`
(0 before the gates open, 1 after), `loop` the runner's position and what it has read. `touched`
is a history variable: what changed since the runner listed `pending/`.

The runner reads `pending/` one file per step (`List`, `Read`), then reads the ids in `done/` and
sorts (`Select`, with `Resolve` for `resolve_run_order`), then begins the head of the order by its
id (`Begin`), which is a different file when the item came from a copy. What is still to be read and
what was read are sets: files are taken in the order of their names (`ByName`), and the sort, which
is stable, breaks its ties by the same order (`Before`), so the position of an item is how many come
before it (`Sorted`). `OnePass` is one round of the `while` loop, `Try` one task in it. `Reconcile` is one round
of `reconcile_filenames`, at a start only; it repairs a copy, puts it in quarantine, or leaves it, as the code does with an
id that is unsafe, missing or no string, and after an exception. Users move, edit, create and remove tasks in between.
A burn is always on here; `Runner` has the windows.

### How they fit together

The modules are separate because their grains are: a file-system call, a unit of time, a
phase of an execution, an event of a stream. Where one needs another it uses the other's summary:
`TaskExecution` and `RunOrder` move a task in one step (`TaskFiles` has the steps), run one task at
a time (`Runner` has `_execute_lock`, and `OneTaskAtATime` is checked there); the step `Wait` of
`TaskExecution` is the whole of `ClaudeSession`, and that it is always taken is `DriverReturns`
there; `UsageCheck` has one check at a time (`OneCheckAtATime`). `Runner` lets a check take up to
`MaxFetch`, which its instances set to five minutes; `HeldBriefly` says what that is made of, five requests, their
pauses and a kick, and that it holds for requests of two time limits each; it would for three.

### Slips

Each module also holds slips (operators whose comment begins "Slip"), such as `WriteInPlace`
or `TryAnyway`: plausible mistakes in the definition that follows them. No specification uses
them. Each checked property is confirmed to fail when the named slip replaces the definition;
`PROJECT.json` pairs them.

## 3. Runs

| Run | Shows | Instance |
|---|---|---|
| `MCTaskFilesLocked` | `OneCopy`, `NeverLost`, `EditsDurable` for everything that takes the lock, with crashes | runner and two request threads of one server, one task, two edits |
| `MCTaskFilesSerial` | `RemovedStaysRemoved`, `StatusMatchesBucket` and `NeverLost` for all operations in any order, one at a time | one caller, two tasks, one edit each |
| `MCTaskFilesRetry` | violation of `NeverLost`: retry and unfinish of one task lose it | two request threads, one task |
| `MCRunnerSafety` | `OneTaskAtATime`, `OneCheckAtATime`, `BurnWithinSession`, `NoLostWakeup`, `SlotsDistinct`, `StartsOnlyInBurn`, `BurnsKept` | short clock: cycle 10, one manual check, one web worker, up to one ready task that comes and goes with a wake-up or without, exact readings |
| `MCRunnerClock` | `TypeOK`, `NoSlotSleptThrough`, `PostResetQueued`, `AnchorRecovers`, `GateSkipsSession` | real durations in 5-minute units, failing fetches, exact readings, one restart, three hours around a reset |
| `MCRunnerNoPostReset` | violation of `PostResetReanchors`: the T+5 check does not re-anchor | as above, one start, no failures |
| `MCTaskExecution` | `TypeOK`, `OriginalKept`, `ProjectRestored`, `NoOrphan`, `LiveRunSpared`, `ClaudeAlone`, the refinement `LifeKept`, and under fairness `RecoveryEnds` | one task, two process ids that may be reused or given to other programs, moves by hand and run-once at any time, two deaths or one and an operation that raises, anywhere (also in recovery) |
| `MCTaskExecutionLost` | violation of `OriginalNeverLost`: recovery deletes a restored `CLAUDE.md` | one task, one death |
| `MCUsageCheck` | `NeverGuesses`, `HeldBriefly`, and under fairness `ChecksEnd` | two organisations, the code's times, up to two time limits per request, any two events of the world |
| `MCRunOrder` | `TypeOK`, `OrderCorrect`, `StartsBest`, `DoneStaysDone`, and under fairness `NoneWaitsForEver` | three tasks in 27 combinations of priorities, dependencies and gates, one event, conflicted copies that a start may leave |
| `MCAuthentication` | `AddressLimit`, `LockoutHolds` | three threads, two addresses, five attempts, thresholds of two |
| `MCClaudeSession` | `UsageComplete`, `SummaryTrue`, and under fairness `DriverReturns` | heads and tails of two lines, four transcripts to begin with, two further lines, a stream thread that may die |

**Bounds, and why they are enough.** A queue file race needs two writers of one file, and a
third thread to move it: `MCTaskFilesLocked` has three threads on one task (operations on
different tasks touch different files and share only the lock). `MaxRev` 2 tells an edit
written over from one kept. In the serial run two tasks and every initial placement cover
all sequences. In `Runner`, `MaxTime` bounds the clock: `MCRunnerSafety` covers a full
session end with the order of the constants kept; `MCRunnerClock` uses the code's own durations, and
its starts 40 and 65 minutes before a reset (one too late for T-60, one before it) put the reset, the hours, stale grace and
fallback after it, and a gate written on either side, inside three hours. In `TaskExecution` two
process ids are an original server and another, either of which may come back; two troubles are what a fault *during*
recovery needs; one task is enough for every schedule of one run, moves by hand and two recoveries, and what
several locks at once change is covered by the proofs, which have any number of tasks (a run of two
tasks with one death, 4.9 million states, also passes, and is not kept for its length). Three login threads
and five attempts make two overlapping attempts per address and a late one; `LockoutThreshold` 2 is
the smallest that counts. A transcript with heads and tails of two lines can be shorter than both, overlap, and have
a gap; two further lines can arrive on either side of each read. `MaxManual`, `MaxReady`, `Restarts`,
`MaxRaises`, `MaxTroubles`, `MaxAttempts`, `MaxEvents`, `Waits` bound environment events. `MaxTime` 10 of `MCRunnerSafety` lets a
session that was read exactly end and another one be read; readings that are late are `BurnsEndWithSession`'s.
`MCUsageCheck` needs two organisations for one to be the wrong one, and two events for an account
to change and the process to restart with another pin; `FetchLimit` is the sum for the slowest
check, 30 + (30 + 3 + 30) + (60 + 3) + (30 + 3 + 30) seconds, and the run fails with one second
less. Three tasks make a chain, a fork and a cycle of dependencies; `Wishes` gives them
priorities for and against these and one gate; one event inside a listing, over all start states,
is what a stale listing takes.

**Deadlock.** `CHECK_DEADLOCK FALSE` where an instance ends: the clock, the ids or the attempts
run out, a task list has been worked off, the run of claude is over. In `MCTaskFilesLocked` and
`MCUsageCheck` deadlock is checked.

**Fairness.** `TaskExecution` states weak fairness of each recovery (of a start with
`RunnerAgain`, of run-once): straight-line code of a running thread, and a runner that fails is started
again by a loop that waits 15 seconds. It states none of `Execution`, of users or of deaths.
`ClaudeSession` states it of `Driver`, the executor's thread, and of `Tick`,
since time goes on: not of claude, of what it left behind, or of the stream thread, which may all
hang. `UsageCheck` states it of `Work`,
the steps of the thread that checks: the kick has a time limit, and a request ends after `Waits` waits. `RunOrder` states it
of `Step`, the runner (a task has a time budget), as `[]<><<Step>>_vars`: some step of the runner
is always enabled, so this is its weak fairness; and of `ClockPasses`, since time goes on. No
fairness is assumed of users, crashes, restarts, or of claude processes that outlived a server. The runner's timed
properties (`AnchorRecovers`, `NoSlotSleptThrough`) are bounds on the clock, not liveness.

## 4. Proofs

`TaskFilesProofs` proves, for any number of tasks, clients and processes, any assignment of
operations, and any crashes:

- `TypeCorrect`: `Spec => []TypeOK`. The inductive invariant is `TypeInv`: `TypeOK` and that a
  client inside a function has a task, without which `file[b][job[c].task]` has no type.
- `OneCopyLocked`: under `LockedOnly`, `Spec => []OneCopy`.
- `NeverLostLocked` and `EditsDurableLocked`: under `LockedOnly`, `Spec => []NeverLost` and
  `Spec => []EditsDurable`.

`LockedOnly` says that all callers are threads of one process and that they call only create
and the operations that take `PENDING_MUTATION_LOCK` (begin, run, edit, unfinish): exactly
the claim the comment at `queue_ops.py:9` makes, and, as `MCTaskFilesRetry` shows,
it cannot be widened. The inductive invariant is `Custody`:

- `LockHeld`: a client between `Acquire` and its release holds the lock, so there is one;
- `HasFile`: such a client's file is still where its `Check` found it;
- `PastPending`: a run whose lock has been dropped works in `running/`, where nobody else
  goes, on its way to `running/` or an outcome;
- `SoleWorker`: and it is the only run of its task;
- `UsedIds`, `FreshOpen`: an id that has a file or a caller is used, so `create` is alone;
- `OnePlace`: a task has one copy.

`OnePlace` alone is not inductive: a `Rename` or a `Replace` re-creates a file unless its
source is still there, and that depends on who else can have moved it. There is one lemma
per action.

`NeverLostLocked` and `EditsDurableLocked` rest on `Custody` and on `Content`, what the copies hold:

- `Called`, `Reported`: whoever calls an operation on a task, and whatever was reported, a creation
  or an edit, there is a complete copy, so that only a task nobody was told of is half written;
- `Stamps`: what a client is about to write is complete and as new as any acknowledged edit, and the
  temporary file, which all writers of a task share, is its own when it replaces (by `SoleWorker`);
- `Opened`, `Creating`: a file is open for writing only where its task is being created.

Beyond `LockedOnly`, for **all ten** operations and any number of processes, where no process dies:

- `StatusMatchesBucketApart`, `NeverLostApart`: `Spec /\ []Apart` implies
  `[]StatusMatchesBucket` and `[]NeverLost`. `Apart` says that no two calls
  on the same task overlap; calls on different tasks interleave freely. By findings 1, 6 and 7
  it cannot be dropped: this is what holds of callers who keep out of each other's way, and no more. The invariant is `Order`: a task nobody works on is `AtRest` (one
  settled copy if it is live, none if it is not, no temporary file), and one that is in hand is
  where its call is in its path (`InHand`: untouched, being stamped and moved, retried from a loaded
  copy, created or removed), with a whole copy at every step of it.

`RunnerProofs` proves, for any durations, any number of request threads and workers, any errors
of readings, failures and restarts, and without a bound on the clock:

- `TypeCorrect`: `Spec => []TypeOK`. The invariant `TypeInv` adds what the untyped places hold: a
  decision to re-anchor has a time, one to burn a deadline (`CheckOK`); what the loop may put
  back is a slot, and it goes for the execution lock with a burning snapshot only (`LoopOK`).
- `TasksExclusive`, `ChecksExclusive`: `Spec => []OneTaskAtATime` and `[]OneCheckAtATime`, from
  `Owners`: whoever executes or checks holds the lock for it.
- `TasksStartInBurn`, `BurnsPreserved`: `Spec => StartsOnlyInBurn` and `BurnsKept`. Both
  are about acting on what was seen earlier. The invariant is `Window`: a check that has decided
  to change the state found no active burn and there is still none, which needs `Owners` (nobody
  else can have applied); and an active burn in the loop's snapshot is the one in force.
- `BurnsEndWithSession`: `Spec => []BurnWithinSession`, from `Budget`: also a deadline that has been
  decided and not applied is within the session, and sessions only get later.
- `WakeupsNoticed`: `Spec => []NoLostWakeup`, from `Alert`: from its look on, and until the event is
  set, the loop's snapshot is the state, and there is no ready task unless one came unannounced
  (`unsaid`); it is not inside a check while it looks. For a task that nobody announced the bound is `tick_seconds`.
- `PostResetKept`, `SlotsNeverDoubled`: `Spec => []PostResetQueued` and `[]SlotsDistinct`, from
  `Queue`: the two hold together, and with what is on disk and the loop's time. The point is the
  requeue, which meets a queue that another check may have re-armed meanwhile, and the reload by
  run-once.
- `SlotsNotSleptThrough`: `Spec => []NoSlotSleptThrough`, from `Queue`, `Alert`, `OnTime` (a loop that works
  is no later than its last look), `Filled` and `Rests` (a sleeping loop that has not been woken
  wakes before every slot that was there when it went to sleep, and nothing has come since).
- `GatesOutlastSession`: if readings are exact and a program never starts more than a cycle before
  a reset (`ExactReadings`), `Spec => []GateSkipsSession`. The invariant is `Readings`: the last check's time and what it read,
  if they add up to a time ahead, add up to the end of the present session (`Fits`), also in a check
  that has yet to apply it. With inexact readings the claim is false by their error.
- `AnchorsRecoverUnlessDone`: if the windows nest as the code's do (`WindowsNest`: five minutes is
  less than thirty, and so on), `Spec => [](~rs.postResetDone => AnchorRecovers)`: whatever is read,
  fails, is checked by hand, suppressed or restarted, a sleeping runner's anchor is not overdue by more
  than the grace, one suppressed tick and an hour, or a burn window, unless a T+5 check has set
  it. Two invariants meet here. `Fresh`: a reading that left the anchor alone is not older than the
  grace, and a suppressed tick makes it seem later once an hour at most. `SlotsNear`: no slot is
  later than T+5 of the anchor, so that the loop, which sleeps to its next slot or hour, comes to
  the check that replaces it. They rest on `Informed`, what holds for any durations.
- `PostResetNeverAccepted`: with exact readings and no checks by hand (`UndisturbedChecks`),
  `Spec => []~rs.postResetDone`. This is finding 2 for every value of the constants. The invariant is
  `Undisturbed`: a T+5 check begins after the reset of its anchor (`TPlus5Late`), and an anchor is the
  end of the session or at least a cycle earlier (`AnchorFits`), so what the check reads is out of the band.
- `AnchorsRecover`: from the two, `Spec => []AnchorRecovers` under `WindowsNest` and
  `UndisturbedChecks`. Without the second one finding 4 refutes it.

`TaskExecutionProofs` proves, for any tasks, process ids (reused, or given to other programs), deaths, moves by hand and
operations that raise, from one inductive invariant `Inv`:

- `TypeCorrect`: `Spec => []TypeOK`;
- `NoneOrphaned`: `Spec => []NoOrphan`. Its part of `Inv` is `Shelved`: at each position of the recovery of a start,
  what is in `running/` without a worker and not in `left` (`Unowned`) is still to be visited, or will be an orphan
  to it (`Pending`), and there is nothing of the kind when it is over. It needs `Cursor` (where a recovery is in its
  visits), `OnceAlone` (run-once's recovery meets no run) and `Calm` (the histories of a run end with it);
- `LiveRunsSpared`: `Spec => LiveRunSpared`, from `OwnLock` (what the executor writes has the server's id) and `Spared`: a
  run that is not exposed has its lock, and the recovery of a start is not after it;
- `LifeImplemented`: `Spec => LifeKept`, the refinement: the first states are first states of `TaskLife`, and
  each step maps to one of its steps or to none. `InRunning` says when a worker can find its task gone.

`RestorationProofs` goes on from `Inv`, with the same generality:

- `OriginalsKept`, `ProjectsRestored`: `Spec => []OriginalKept` and `[]ProjectRestored`. The invariant is
  `Restored`: while the state is intact, there is at most one lock file, and it is a true account.
  `Mends(l)` says what recovery from lock `l` needs: if the lock says that `CLAUDE.md` was written, the
  original is in the backup of the process it names, or there was none; if not, the project is whole.
  `Running`, `Mending` and `Idling` say so at each position of the executor, of the recovery of a start and of
  run-once's, which finds nothing to mend; `Resting` says what there is when none is at work (`Left` of a dead server).
  `CrashRestored` is where the windows of `Unrepairable` come from: each of
  them is a position at which the lock is *not* a true account, and there is no other.
- `ClaudesAlone`: `Spec => []ClaudeAlone`, which is part of the same invariant.

`RunOrderProofs` proves, for any number of tasks, any wishes, copies and events:

- `OrdersCorrect`: `Spec => []OrderCorrect`. It rests on `ResolveIs`, which says of *any* set of
  items what `resolve_run_order` makes of it (`RightOrder`): each task of the least closed set once, after
  its dependencies, and first the first ready one. One pass keeps `Parted` and `Resolved`
  (`PassFits`) and either places a task or is stuck (`Passed`); so after `k` passes `k` tasks are
  placed or no more can be (`Passing`), which is why as many passes as tasks are enough.
- `BestStarts`: `Spec => StartsBest`. The invariant is `Known` (what was read of a task nobody has
  touched since is what there is) and `Chosen` (the task picked comes first among those left
  alone), which others keep since they touch what they change (`OthersTouch`). It uses only
  that the *head* of the order is right; see finding 14.
- `TypesHold`: `Spec => []TypeOK`, from the same invariant `IInv`.
- `DonesStayDone`: `Spec => DoneStaysDone`, from `Placed`.

The recursive functions of this module and of `Transcript` need induction over a number. The
library's induction theorems take an operator and no prover can instantiate them; here a *set* stands
for the predicate, and `LeastNatural` (every non-empty set of numbers has a least one, from the
library's well-founded order of `Nat`) gives the least counterexample: `UpwardInduction`. `Iteration` says
that a recursive function is the one its equations define; a *function* stands for the step.

`UsageCheckProofs` proves, for any organisations, accounts, pins and any number of events:

- `TypeCorrect`: `Spec => []TypeOK`.
- `OrganisationNeverGuessed`: `Spec => []NeverGuesses`. The invariant is `Known`: the three parts
  of `NeverGuesses` (the first one sharper: a memo is the pin if there is one), and that what a check has seen of the account (`sees`), if it is a single
  organisation, is in `sole`; without that a listing answered before a switch of account and
  memoised after it would escape.
- `HeldForTwoAttempts`: for any `P` with `TwoAttempts(P)`, `Spec => []HeldBriefly`. `TwoAttempts`
  says that `MaxAttempts` is 2, no pause is longer than `P`, and `FetchLimit` is at least five requests of `Waits`
  limits each, two pauses, the kick and its settling time. The bound is relative to `Waits`, since the code bounds no request. The invariant is `Timely`:
  an `Allowance` for each position of a check (what it can have spent by then, by round and
  attempt), and `Remembered`: in the second round the organisation is known, so it is not listed
  twice.

`AuthenticationProofs` proves, for any threads, addresses, limits and any number of attempts:

- `TypeCorrect`: `Spec => []TypeOK`.
- `AddressLimited`: `Spec => []AddressLimit`. The invariant is `Counted` with `Sound` and `Spaced`: the count of a
  record is the number of wrong attempts since the last jump in their times that is as long as a
  lockout. It does not need attempts to be recorded in the order of their times, and they are not.
- `LockoutKept`: `Spec => LockoutHolds`, from `Times`: no attempt in flight is later than the clock, and
  one that is past the global check began when there was no lockout.

`ClaudeSessionProofs` proves `UsageReported`, `Spec => []UsageComplete`, for any streams and time limits. The
invariant is `Latched` (what the parser has is the latest of what was fed), `Drained` (when the stream
has ended all of it was fed) and `Read` (what the driver has read since a join that did not time out, while the thread
has not died).
It also proves `SummariesTrue`, `Spec => []SummaryTrue`, for any sizes of head, tail and lines, any
transcripts, and any growth between two reads. The invariant is `Reader`: a request that goes on has the
task's directory or is the excepted kind; what it has of the head is the newest message and the count
of a beginning of the file that ends at one of the head's limits (`HeadRead`); and the tail begins no
later than its size before the end (`StartFits`). The lemmas say what growth leaves as it was
(`BytesGrow`, `NewestFewer`, `MessagesFewer`).

Every invariant and every action property that a passing run checks is stated by a theorem above, but for
`RemovedStaysRemoved`, which holds for one caller at a time and is checked for that.
Only model-checked are the liveness properties (`RecoveryEnds`, `ChecksEnd`, `NoneWaitsForEver`,
`DriverReturns`), which are out of the prover's reach, and the three runs that expect a violation.

## 5. Where the code does not do what it says

Runs with `expect: violation` reproduce three of these.

1. *Retry against unfinish* (`queue_ops.py:507`, `MCTaskFilesRetry`). `retry_task` writes
   `pending/` and unlinks the stopped copy without the lock. If the new pending copy is
   shelved in between, it lands on the path `retry_task` is about to unlink: the task is gone.
2. *T+5 never re-anchors in the normal case* (`runner.py:427`, `MCRunnerNoPostReset`). After
   the reset the fetch reports a session that ends five hours later; the 15-minute band
   rejects it. The stale clamp repairs the anchor, half an hour or more later
   (`PostResetNeverAccepted` and `AnchorsRecover` say both in general).
3. *A restored CLAUDE.md deleted* (`runner.py:777`, `MCTaskExecutionLost`). Death between the
   restore and the removal of the lock: recovery unlinks `CLAUDE.md`; there is no backup left.

The rest were met while modelling. They have no run; where an instance shows one it is named.

4. *A frozen anchor* (`runner.py:418`). If the anchor is early by less than the band, T+5 still
   reads the old session, is accepted, and sets `post_reset_done_for_cycle`; clamp and fallback
   require that flag to be off, and later readings are out of band. (`AnchorRecovers` in
   `MCRunnerClock` with `Jitter = {-2, 0}`, `StartsIn = {20}`, no restart and `MaxTime = 60`.)
5. *Recovery against a dashboard run* (`runner.py:798`). A run accepted while the runner thread
   recovers has its file in `running/` and no lock yet, and recovery shelves it. So it does with a run whose lock
   file is torn or not written when the runner thread of a live server is started again. `LiveRunSpared` excepts these
   (`exposed`), and `TaskLife` allows it only for them.
6. `remove_task` (`queue_ops.py:521`) takes no lock, so an edit that has read the file writes
   it again (`RemovedStaysRemoved`, two clients with `{"edit"}` and `{"remove"}`).
7. The `begin` command does not exclude edits in the server (`OneCopy`, `{"edit"}` in one
   process and `{"begin"}` in another), although the docstring at `queue_ops.py:426` says
   begin serializes against web edits.
8. `LoopBurn` (`runner.py:719`) closes a burn by the snapshot: if the burn in the snapshot has expired and
   a manual check has opened another one since, that one is dropped. `BurnsKept` says exactly
   this much: no burn is closed before the loop has seen the deadline of one pass.
9. Death between the injection and its record, between the backup and the injection, or
   inside a later write of the lock (`executor.py:413`): recovery leaves the injected file, or no
   file. These are the windows of `Unrepairable`.
10. When writing the injected file fails, `execute_task` has no `BackupInfo` and restores
    nothing; `intact` is off from there on.
11. *The head of the order without a file* (`runner.py:367`). A file in `pending/` under another name than its id, a
    conflicted copy of a task that is no longer pending, say, comes back from every listing; while it heads the order,
    `begin_task` raises `FileNotFoundError` each time and nothing behind it runs. A restart that
    reconciles it ends this; one that skips it (finding 15) does not, so it may go on for ever. `Due`
    exempts this. A copy's stale dependencies and priority can also start its canonical task.
12. *Dependencies are read once* (`runner.py:352`). A `depends_on` that is edited between the
    listing and the begin does not hold the task back (`docs/cli.md:172` has no such exception);
    begin from the dashboard or the command line ignores dependencies altogether.
13. One `FileNotFoundError` ends run-once's drain early, although `_process_queue` says it drains
    all ready tasks (`docs/web-dashboard.md:47`).
14. `resolve_run_order`'s rule that each iteration picks the highest-priority ready task holds for
    the head of the list only: later in a pass, a task placed early unblocks others out of
    order. The runner uses the head and sorts anew, so `StartsBest` holds.
15. The docstring of `reconcile_filenames` says that it quarantines files without an id, files that do not parse and
    unsafe ids; the code (`queue_ops.py:314`) skips them, at every start.
16. `_ORG_UUID_MEMO` and the cache file are never cleared, although the comment at
    `usage_check_http.py:46` says they are on a failure, "so a misconfigured cache can
    self-heal": after a switch of account every check asks about the old organisation until the
    file is removed.
17. A check may hold its lock for five requests, their pauses and a kick, where the comment at
    `usage_check_http.py:30` has about thirty seconds: it does not count the listing, the kick and the second
    fetch. With one time limit per request that is 144 seconds, with two 219; and nothing bounds a request, since the
    limit is for each wait for the socket.
18. *A gate in the middle of the next session* (`runner.py:710`). A suppressed hourly tick sets
    `last_check_at` and leaves the reading of an earlier check beside it. With a reset at minute 65,
    a T-10 check at 55 that reads ten minutes, and an hourly tick suppressed at 60, the two add up
    to 70: a task created at 66 is gated until 70, in the middle of the session that has just
    begun, although `queue_ops.py:383` promises that it runs after the end of the current one.
    `GateSkipsSession` excepts states after a suppressed tick (`faked`).
19. *A claude left behind*. A death of the server, and a lock write that fails after the spawn
    (`executor.py:315`), leave claude running while its task is recovered and can be retried.
    `ClaudeAlone` excepts them; the code does nothing about either.
20. *A reused process id* (`lock.py:11`). A restarted server that gets the id of the dead one takes its
    locks for its own, and one whose id any other process has got takes them for live: the task stays in `running/`,
    and `CLAUDE.md` stays injected, until a start at which that process is gone. These tasks are in `left`, and `intact` is off.
21. A transcript below 64 KB with more than 100 lines is summarised from its first 100, although
    `sessions.py:249` says "Whole file fit in head". A long one whose last 200 lines have no
    human message falls back to the last one of the head, although it promises the genuinely last
    one. `SummaryTrue` says which messages are `Covered`.
22. A transcript found directly under the slug is accepted unverified if it has no `cwd` in its
    first 50 lines, although the docstring of `find_transcript` says that every match is verified.
23. `tokens_used` reads the latched usage twice and the cost is read after it, without a lock: after
    a join that timed out these may come from different events.
24. Cancel says that it moves the task to `failed/` (`web.py:484`); the executor takes the exit like any
    other, so a checkpoint or a clean exit decides otherwise.
25. *Two recoveries at once* (`web.py:135`). Run-once calls `_recover_stale` under `_execute_lock`, and a start calls it
    without. If both have listed the lock of a dead server, one may unlink the injected `CLAUDE.md` and put the
    original back, and the other unlink that; its backup is gone. `intact` is off once they overlap.
    (`OriginalNeverLost` in `MCTaskExecutionLost` fails so too, when `Crash` is kept out of `Unrepairable`.)
26. *A stamp against a move by hand* (`runner.py:318`). `augment_task` replaces the file it has read: when
    a user moves or removes it in between, the stamp re-creates it in `running/`, and `move_task` takes that to its outcome: the
    task is in two directories, or back. `TaskExecution` moves and stamps in one step and does not have this; in
    `TaskFiles` it is `OneCopy` with a client of `{"run"}` and one of `{"fail"}`.
27. *A stream thread that dies* (`executor.py:330`). A line that is not UTF-8 (stderr is merged into the stream), an event
    of an unexpected shape or a log that cannot be written ends the thread silently. `join` returns at once, the usage
    that follows is not counted, and a claude that goes on writing blocks on a full pipe until its time is over.
28. A move that raises, in `run_and_finalize` (`runner.py:317`) or in recovery (`runner.py:787`, after which the lock is removed all the
    same), leaves the task in `running/` with nobody to run it until the next start. These are in `left`.
29. A task that becomes ready without a wake-up (retry from the dashboard, the command line, a gate that opens) waits for
    the loop's next tick, thirty seconds in a burn. `NoLostWakeup` says so much and no more.

## 6. Not modelled, and limits

- Wording, layout, logging, CSV rows, parsing of YAML and JSON (reduced to "whole or not").
- Ids: `TaskFiles` gives out fresh ids; the code draws 16 random bits.
- Persisting the runner state never fails in `Runner`; a restart with an older file is not in it.
- The tonight gate (local time, daylight saving) is arithmetic without state and is left out.
- In `UsageCheck` a request ends after `Waits` waits for the socket; in the code a server that trickles bytes, or a host
  with many dead addresses, can hold it longer. `HeldBriefly` and the fairness of `Work` are relative to this.
- `RunOrder` has one conflicted copy per task at a time and gates that open together.
- `TaskExecution` follows the claude processes of the present server only, and of a process group its leader. What one that outlived its
  server does to the project is not followed; nobody in the code does.
- A second runner, started from the command line (`cli.py:31`) beside the dashboard's, has an execution lock of
  its own, or none; `TaskExecution` and `Runner` have one server.
- In `TaskExecution` stamping and moving a file is one step (finding 26), and a lock file is written or torn, not refused: an
  `open` that fails before it truncates is the same but for the old content.
- `CLAUDE.md` is the user's, injected or absent: a user or a claude that edits it during a run is left out.
- `Authentication` has no restart: the counters are in memory and are gone after one. Sessions, their expiry and the
  logout are left out, since no property is about them.
- In `ClaudeSession` the driver gets its turn within a unit of time, and a line of the transcript is
  appended as a whole. A session id that differs from the expected one is only logged, and left out.
- CLAUDE.md text and profiles, file browser, logger, configuration and browser code have no state a
  property could be about. The routes that only list tasks, logs, files and state are left out.

## 7. Plan

Done: all components that keep state, with proofs of every safety property. What could follow:

1. The tonight gate as an operator over a calendar with shifts, checked against a reference definition.
2. Conflicted copies in directories other than `pending/`, and several at once for one task.

`AnchorRecovers` after an accepted T+5 check (finding 4) and a sorted order behind its head (finding
14) are not open proofs: the code does not have these properties.
