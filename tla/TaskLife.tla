------------------------------ MODULE TaskLife ------------------------------
(***************************************************************************)
(* What the queue promises of its tasks, whatever the executor, the lock   *)
(* files and recovery do: a task is run by one worker at a time; it leaves *)
(* running/ by its worker's outcome, by a user's hand, or by a recovery,   *)
(* which takes no task from a worker unless the run has been exposed; the  *)
(* worker finds it gone only then, or after a user has touched it; and     *)
(* once a start has recovered, what sits in running/ has a worker or is    *)
(* one of those that somebody is known to have left there.                 *)
(* TaskExecution implements this.                                          *)
(***************************************************************************)
CONSTANTS
  Task,
  NULL

VARIABLES
  status,    \* status[t]: the bucket of t
  phase,     \* of the server: "down", "recovering" or "up"
  worker,    \* the task that is being run, or NULL
  exposed,   \* whether a recovery may take that task from its worker
  touched,   \* whether a user has moved it
  left       \* tasks in running/ that have been left there for nobody

lifeVars == <<status, phase, worker, exposed, touched, left>>

Outcome == {"done", "unfinished", "failed"}

Init ==
  /\ status = [t \in Task |-> "pending"]
  /\ phase = "recovering"
  /\ worker = NULL
  /\ exposed = FALSE /\ touched = FALSE
  /\ left = {}

Running == {t \in Task : status[t] = "running"}

Start(t) ==
  /\ phase # "down"
  /\ worker = NULL
  /\ status[t] = "pending"
  /\ status' = [status EXCEPT ![t] = "running"]
  /\ worker' = t
  /\ exposed' \in BOOLEAN
  /\ exposed' => phase = "recovering"
  /\ UNCHANGED <<phase, touched, left>>

\* The worker gives its task an outcome, or fails to and leaves it, or finds it
\* gone.
Finish ==
  /\ phase # "down"
  /\ worker # NULL
  /\ \/ /\ worker \in Running
        /\ \E o \in Outcome : status' = [status EXCEPT ![worker] = o]
        /\ left' = left \ {worker}
     \/ /\ worker \in Running
        /\ left' = left \cup {worker}
        /\ UNCHANGED status
     \/ /\ worker \notin Running
        /\ exposed \/ touched
        /\ UNCHANGED <<status, left>>
  /\ worker' = NULL
  /\ exposed' = FALSE /\ touched' = FALSE
  /\ UNCHANGED phase

Moved(t, to) ==
  /\ status' = [status EXCEPT ![t] = to]
  /\ left' = IF to = "running" THEN left \cup {t} ELSE left \ {t}
  /\ UNCHANGED <<phase, worker, exposed>>

\* A user moves, begins or removes a task, whoever runs it.
ByHand(t, from, to) ==
  /\ phase # "down"
  /\ status[t] \in from
  /\ Moved(t, to)
  /\ touched' = (touched \/ t = worker)

Retry(t) == ByHand(t, {"unfinished", "failed"}, "pending")
Unfinish(t) == ByHand(t, {"pending"}, "unfinished")
BeginAlone(t) == ByHand(t, {"pending"}, "running")
Settle(t) == \E o \in Outcome : ByHand(t, {"running"}, o)
Remove(t) == \E b \in {"pending", "running"} \cup Outcome : ByHand(t, {b}, "gone")

\* What sits in running/ is the next server's to recover.
Die ==
  /\ phase # "down"
  /\ phase' = "down"
  /\ worker' = NULL
  /\ exposed' = FALSE /\ touched' = FALSE
  /\ left' = {}
  /\ UNCHANGED status

\* A new server, or the runner of a live one once more.
Recover ==
  /\ phase \in {"down", "up"}
  /\ phase' = "recovering"
  /\ exposed' \in BOOLEAN
  /\ (exposed \/ worker = NULL) => exposed' = exposed
  /\ UNCHANGED <<status, worker, touched, left>>

Expose ==
  /\ phase = "recovering"
  /\ worker # NULL
  /\ exposed' = TRUE
  /\ UNCHANGED <<status, phase, worker, touched, left>>

\* Recovery, a start's or that of run-once, shelves what has no worker.
Shelve(t) ==
  /\ phase # "down"
  /\ t \in Running
  /\ t = worker => exposed
  /\ Moved(t, "unfinished")
  /\ UNCHANGED touched

\* A start's recovery leaves some: their lock may be a live server's, or the
\* file cannot be moved.
Leave ==
  /\ phase = "recovering"
  /\ \E S \in SUBSET Running : left' = left \cup S
  /\ UNCHANGED <<status, phase, worker, exposed, touched>>

Recovered ==
  /\ phase = "recovering"
  /\ Running \subseteq left \cup {worker}
  /\ phase' = "up"
  /\ UNCHANGED <<status, worker, exposed, touched, left>>

Next ==
  \/ \E t \in Task : \/ Start(t) \/ Retry(t) \/ Unfinish(t) \/ Settle(t)
                     \/ Remove(t) \/ BeginAlone(t) \/ Shelve(t)
  \/ Finish \/ Die \/ Recover \/ Expose \/ Leave \/ Recovered

Spec == Init /\ [][Next]_lifeVars
=============================================================================
