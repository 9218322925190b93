------------------------------ MODULE RunOrder ------------------------------
(***************************************************************************)
(* Which task the runner starts next: get_pending_tasks reads pending/     *)
(* file by file, resolve_run_order sorts what was read by priority and     *)
(* dependencies, and _process_one_task begins the first; and               *)
(* reconcile_filenames, which at a start deals with files whose name is    *)
(* not their id, or leaves them.  Users edit, add, move and remove tasks   *)
(* meanwhile.                                                              *)
(*                                                                         *)
(* Abstracted: a burn is always on (Runner has its windows), moving a      *)
(* file is one step (TaskFiles has them).  External: the tool that         *)
(* synchronises the directory and leaves copies "X [conflicted].yaml".     *)
(***************************************************************************)
EXTENDS Integers, Sequences, FiniteSets, SequencesExt

CONSTANTS
  N,           \* tasks 1..N, in the order of their file names
  Created,     \* their creation times
  Wishes,      \* what a user may give each task: priority, depends_on, eligible_at
  SyncTool,    \* whether conflicted copies may appear
  MaxEvents,   \* bound on what users, the tool and restarts do
  NULL

Task == 1..N
Fields == [prio : 1..5, deps : SUBSET Task, eligible : {0, 1}]
Place == {"absent", "pending", "running", "done", "unfinished", "failed"}

ASSUME RunOrderAssumption ==
  /\ N \in Nat
  /\ Created \in [Task -> Nat]
  /\ Wishes \in [Task -> SUBSET Fields]
  /\ SyncTool \in BOOLEAN
  /\ MaxEvents \in Nat
  /\ NULL \notin Fields

VARIABLES
  place,     \* the directory that holds <t>.yaml
  spec,      \* its priority, depends_on and eligible_at
  copy,      \* the fields of a conflicted copy in pending/, or NULL
  clock,     \* 0 before the gates open, 1 after
  loop,      \* position and locals of the runner
  touched,   \* tasks that changed since the runner listed pending/
  events

vars == <<place, spec, copy, clock, loop, touched, events>>
World == <<place, spec, copy, clock, touched, events>>

\* A file of pending/, by its name, and what get_pending_tasks makes of it.
File == [id : Task, copied : BOOLEAN]
Item == [id : Task, copied : BOOLEAN, prio : 1..5, deps : SUBSET Task, eligible : {0, 1}]
Idle == [pc |-> "idle", todo |-> {}, read |-> {}, pick |-> NULL]
Starting == [Idle EXCEPT !.pc = "start"]

Default == [prio |-> 3, deps |-> {}, eligible |-> 0]

\* The state of a start; a conflicted copy may be left from before.
Init ==
  /\ place \in [Task -> {"pending", "done", "failed", "absent"}]
  /\ spec \in {s \in [Task -> UNION {Wishes[t] : t \in Task} \cup {Default}] :
                \A t \in Task : s[t] \in IF place[t] = "pending" THEN Wishes[t] ELSE {Default}}
  /\ \E c \in Task, fields \in UNION {Wishes[t] : t \in Task} \cup {NULL} :
       /\ copy = [t \in Task |-> IF t = c THEN fields ELSE NULL]
       /\ fields # NULL => SyncTool /\ fields \in Wishes[c]
       /\ \A t \in Task : place[t] = "absent" => fields # NULL /\ t = c
  /\ clock = 0
  /\ loop = Starting
  /\ touched = {}
  /\ events = 0

-----------------------------------------------------------------------------
(* The order. *)

In(p) == {t \in Task : place[t] = p}

\* sorted by name: "X [conflicted].yaml" comes before "X.yaml".
ByName(f, g) == f.id < g.id \/ (f.id = g.id /\ f.copied /\ ~g.copied)

\* sorted by (priority, created); the sort is stable and the files come
\* sorted by name.
Before(i, j) ==
  \/ i.prio < j.prio
  \/ /\ i.prio = j.prio
     /\ \/ Created[i.id] < Created[j.id]
        \/ Created[i.id] = Created[j.id] /\ ByName(i, j)

Sorted(S) ==
  LET rank(i) == Cardinality({j \in S : Before(j, i)})
  IN [n \in 1..Cardinality(S) |-> CHOOSE i \in S : rank(i) = n - 1]

Gated(item, now) == item.eligible > now

\* Slip: one dependency that is met is enough.
ReadyIfAny(item, placed) == item.deps = {} \/ item.deps \cap placed # {}

Ready(item, placed) == item.deps \subseteq placed

Try(s, item) ==
  IF Ready(item, s.placed)
  THEN [s EXCEPT !.ordered = Append(@, item), !.placed = @ \cup {item.id}]
  ELSE [s EXCEPT !.remaining = Append(@, item)]

OnePass(state) ==
  LET upTo[n \in 0..Len(state.remaining)] ==
        IF n = 0 THEN [state EXCEPT !.remaining = <<>>]
        ELSE Try(upTo[n - 1], state.remaining[n])
  IN upTo[Len(state.remaining)]

Queue(items, now) == Sorted({i \in items : ~Gated(i, now)})
Unplaced(items, done) == [ordered |-> <<>>, placed |-> done, remaining |-> items]

\* Slips: there is one pass, so a dependency must sort first; what is done
\* already does not count.
ResolveOnce(items, done, now) == OnePass(Unplaced(Queue(items, now), done)).ordered
ResolveFromNothing(items, done, now) == OnePass(Unplaced(Queue(items, now), {})).ordered

\* resolve_run_order.  A pass that changes nothing ends the loop and a later
\* one would change nothing either, so as many passes as tasks are enough.
Resolve(items, done, now) ==
  LET queue == Queue(items, now)
      pass[n \in 0..Len(queue)] ==
        IF n = 0 THEN Unplaced(queue, done) ELSE OnePass(pass[n - 1])
  IN pass[Len(queue)].ordered

-----------------------------------------------------------------------------
(* Start: reconcile_filenames. *)

\* Slip: only pending/ is searched for the file the copy would replace.
CanonicalInPending(t) == place[t] = "pending"

Canonical(t) == place[t] # "absent"

\* A copy takes the place of its task if the task has no file, and is put
\* into quarantine, a failed task of another id, if it has one.  A copy may
\* be left where it is, at this start and at every other: an id that is unsafe
\* or no string is skipped, and start_runner goes on after an exception.
Reconcile ==
  /\ loop.pc = "start"
  /\ \/ \E t \in Task :
          /\ copy[t] # NULL
          /\ copy' = [copy EXCEPT ![t] = NULL]
          /\ IF Canonical(t)
             THEN UNCHANGED <<place, spec>>
             ELSE /\ place' = [place EXCEPT ![t] = "pending"]
                  /\ spec' = [spec EXCEPT ![t] = copy[t]]
          /\ UNCHANGED loop
     \/ /\ loop' = Idle
        /\ UNCHANGED <<place, spec, copy>>
  /\ UNCHANGED <<clock, touched, events>>

-----------------------------------------------------------------------------
(* Selection: _process_one_task, which holds _execute_lock throughout. *)

There(f) == IF f.copied THEN copy[f.id] # NULL ELSE place[f.id] = "pending"

\* The listing of pending/, sorted by name.
List ==
  /\ loop.pc = "idle"
  /\ loop' = [Idle EXCEPT !.pc = "read", !.todo = {f \in File : There(f)}]
  /\ touched' = {}
  /\ UNCHANGED <<place, spec, copy, clock, events>>

\* One file of it is parsed; one that has gone is skipped.
Parsed(f) ==
  LET s == IF f.copied THEN copy[f.id] ELSE spec[f.id]
  IN [id |-> f.id, copied |-> f.copied, prio |-> s.prio, deps |-> s.deps,
      eligible |-> s.eligible]

Read ==
  /\ loop.pc = "read"
  /\ \E f \in loop.todo :
       /\ \A g \in loop.todo \ {f} : ByName(f, g)
       /\ loop' = [loop EXCEPT !.todo = @ \ {f},
                               !.read = IF There(f) THEN @ \cup {Parsed(f)} ELSE @]
  /\ UNCHANGED World

\* get_done_ids and the order; without a task the loop waits and tries again.
Select ==
  /\ loop.pc = "read" /\ loop.todo = {}
  /\ LET order == Resolve(loop.read, In("done"), clock)
     IN loop' = IF order = <<>> THEN Idle
                ELSE [loop EXCEPT !.pc = "begin", !.pick = Head(order).id]
  /\ UNCHANGED World

\* Slip: the exception that a missing file raises ends the runner.
WithoutFileEnded == [Idle EXCEPT !.pc = "ended"]

WithoutFile == Idle

\* begin_task, which looks for <id>.yaml.
Begin ==
  /\ loop.pc = "begin"
  /\ \/ /\ place[loop.pick] = "pending"
        /\ place' = [place EXCEPT ![loop.pick] = "running"]
        /\ loop' = [loop EXCEPT !.pc = "run", !.read = {}]
     \/ /\ place[loop.pick] # "pending"
        /\ loop' = WithoutFile
        /\ UNCHANGED place
  /\ UNCHANGED <<spec, copy, clock, touched, events>>

\* run_and_finalize moves the file; if somebody else has, it raises
\* FileNotFoundError, which start_runner logs before it goes on.
Finish ==
  /\ loop.pc = "run"
  /\ loop' = Idle
  /\ IF place[loop.pick] = "running"
     THEN \E out \in {"done", "unfinished", "failed"} :
            place' = [place EXCEPT ![loop.pick] = out]
     ELSE UNCHANGED place
  /\ UNCHANGED <<spec, copy, clock, touched, events>>

Step == Reconcile \/ List \/ Read \/ Select \/ Begin \/ Finish

-----------------------------------------------------------------------------
(* Everybody else. *)

\* What the routes and commands do to a file: begin and run, unfinish, done,
\* fail, stall, retry, and remove.
Moves == ({"pending"} \X {"running", "unfinished"})
         \cup ({"running"} \X {"done", "failed", "unfinished"})
         \cup ({"failed", "unfinished"} \X {"pending"})
         \cup ((Place \ {"absent"}) \X {"absent"})

Move(t) ==
  /\ \E q \in Place : <<place[t], q>> \in Moves /\ place' = [place EXCEPT ![t] = q]
  /\ touched' = touched \cup {t}
  /\ UNCHANGED <<spec, copy, clock, loop>>

\* PATCH and create.  Ids are fresh: one that was removed is not used again,
\* but here it may be, which does no harm.
Put(t) ==
  /\ place[t] \in {"pending", "absent"}
  /\ \E s \in Wishes[t] \ {spec[t]} : spec' = [spec EXCEPT ![t] = s]
  /\ place' = [place EXCEPT ![t] = "pending"]
  /\ touched' = touched \cup {t}
  /\ UNCHANGED <<copy, clock, loop>>

\* The tool leaves a copy beside a pending file, or in its place.
Conflict(t) ==
  /\ SyncTool /\ place[t] = "pending" /\ copy[t] = NULL
  /\ copy' = [copy EXCEPT ![t] = spec[t]]
  /\ \E q \in {"pending", "absent"} : place' = [place EXCEPT ![t] = q]
  /\ touched' = touched \cup {t}
  /\ UNCHANGED <<spec, clock, loop>>

\* The server starts anew; recovery has moved what was running (TaskExecution).
Restart ==
  /\ loop' = Starting
  /\ place' = [t \in Task |-> IF place[t] = "running" THEN "unfinished" ELSE place[t]]
  /\ UNCHANGED <<spec, copy, clock, touched>>

Event ==
  /\ events < MaxEvents
  /\ events' = events + 1
  /\ \/ \E t \in Task : Move(t) \/ Put(t) \/ Conflict(t)
     \/ Restart

\* The gates open.
ClockPasses ==
  /\ clock = 0
  /\ clock' = 1
  /\ touched' = touched \cup {t \in Task : spec[t].eligible = 1}
  /\ UNCHANGED <<place, spec, copy, loop, events>>

Next == Step \/ Event \/ ClockPasses

Spec == Init /\ [][Next]_vars

\* The runner goes on, tasks have a time budget, and time passes.  A step of
\* the runner is always enabled and changes its position, so this is weak
\* fairness of Step.
FairSpec == Spec /\ []<><<Step>>_vars /\ WF_vars(ClockPasses)

-----------------------------------------------------------------------------
TypeOK ==
  /\ place \in [Task -> Place]
  /\ spec \in [Task -> Fields]
  /\ copy \in [Task -> Fields \cup {NULL}]
  /\ clock \in {0, 1}
  /\ loop.pc \in {"start", "idle", "read", "begin", "run"}
  /\ loop.todo \subseteq File /\ loop.read \subseteq Item
  /\ loop.pc \in {"begin", "run"} => loop.pick \in Task
  /\ touched \subseteq Task
  /\ events \in 0..MaxEvents

\* resolve_run_order against its docstring: it returns the tasks that can run
\* in this cycle, that is, the least set that holds whatever has its
\* dependencies in done/ or in the set, each task after its dependencies.
OrderCorrect ==
  loop.pc = "read" /\ loop.todo = {} =>
    LET done == In("done")
        order == Resolve(loop.read, done, clock)
        open == {i \in loop.read : ~Gated(i, clock)}
        ids(S) == {i.id : i \in S}
        Closed(S) == \A i \in open : i.deps \subseteq done \cup ids(S) => i \in S
    IN /\ ToSet(order) = {i \in open : \A S \in SUBSET open : Closed(S) => i \in S}
       /\ Len(order) = Cardinality(ToSet(order))
       /\ \A n \in 1..Len(order) :
            order[n].deps \subseteq done \cup ids({order[m] : m \in 1..(n - 1)})

\* Whatever happened while it looked, the task the runner starts had its
\* dependencies done and its gate open, and no other ready task came before
\* it, unless one of the tasks concerned changed in between or has a copy.
Settled(t) == {t} \cup spec[t].deps \subseteq Task \ touched /\ copy[t] = NULL
Startable(t) == /\ place[t] = "pending" /\ spec[t].deps \subseteq In("done")
                /\ spec[t].eligible <= clock
ItemOf(t) == [id |-> t, copied |-> FALSE, prio |-> spec[t].prio]

StartsBest ==
  [][loop.pc = "begin" /\ loop'.pc = "run" =>
       LET t == loop.pick
       IN Settled(t) =>
            /\ Startable(t)
            /\ \A u \in Task : Settled(u) /\ Startable(u) => ~Before(ItemOf(u), ItemOf(t))]_vars

\* A conflicted copy, whichever directory its task is in by then, does not
\* make the runner do a finished task again.
DoneStaysDone ==
  [][\A t \in Task : place[t] = "done" => place'[t] \in {"done", "absent"}]_vars

\* No pending task whose dependencies can be met waits for ever: it is begun
\* or loses them, or pending/ holds a file under another name than its id,
\* which may head every order although begin_task never finds it.
Due(t) ==
  LET waiting == In("pending")
      done == In("done")
      Closed(S) == \A u \in waiting : spec[u].deps \subseteq done \cup S => u \in S
  IN /\ \A u \in Task : copy[u] = NULL
     /\ \A S \in SUBSET waiting : Closed(S) => t \in S

NoneWaitsForEver == \A t \in Task : []<>~Due(t)
=============================================================================
