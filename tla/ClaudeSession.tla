---------------------------- MODULE ClaudeSession ----------------------------
(***************************************************************************)
(* One run of claude and what the server learns of it:                     *)
(* executor._run_claude with its stream thread and _StreamParser, and the  *)
(* transcript claude writes meanwhile (Transcript).  The driver waits for  *)
(* claude no longer than the budget, then terminates and kills its process *)
(* group, gives the stream thread a last moment, and reads the usage the   *)
(* parser has latched while that thread may still go on.                   *)
(*                                                                         *)
(* Abstracted: an event of the stream is whether it carries a usage (of an *)
(* assistant turn, of a subagent or of the result) and whether it is the   *)
(* result; the trace lines it is rendered to are left out.  The driver     *)
(* gets its turn within a unit of time.  External: claude and the          *)
(* processes it starts.                                                    *)
(***************************************************************************)
EXTENDS Transcript

CONSTANTS
  Timeout,     \* the task's budget
  Grace,       \* from SIGTERM to SIGKILL
  JoinTime,    \* for the stream thread
  Sessions,    \* transcripts there may be before the run, and their places
  MaxEvents    \* bound on the lines of the run

ASSUME SessionAssumption ==
  /\ {Timeout, Grace, JoinTime} \subseteq Nat \ {0}
  /\ MaxEvents \in Nat
  /\ Sessions \subseteq [file : File, home : [direct : BOOLEAN, mine : BOOLEAN]]

VARIABLES
  now,
  alive,    \* claude
  helper,   \* another process that has claude's stdout open
  stdout,   \* the events claude has written
  fed,      \* how many of them the stream thread has parsed
  parser,   \* _StreamParser: the event whose usage, and whose cost, is latched
  drained,  \* the stream thread has met the end of the stream
  broken,   \* or has died of an exception before it did
  drv       \* _run_claude: position and locals

vars == <<file, home, rd, now, alive, helper, stdout, fed, parser, drained, broken,
          drv>>
Reading == <<file, home, rd>>
Streaming == <<stdout, fed, parser, drained, broken>>

-----------------------------------------------------------------------------
\* usage: it has a usage that is not empty.  A result is the last event, and
\* only a result has a cost.
Event == [usage : BOOLEAN, result : BOOLEAN]

Init ==
  /\ \E s \in Sessions : file = s.file /\ home = s.home
  /\ rd = NoRequest
  /\ now = 0
  /\ alive = TRUE
  /\ helper = FALSE
  /\ stdout = <<>>
  /\ fed = 0
  /\ parser = [usage |-> 0, cost |-> 0]
  /\ drained = FALSE
  /\ broken = FALSE
  /\ drv = [pc |-> "wait", since |-> 0, timedOut |-> FALSE, in |-> 0, out |-> 0, cost |-> 0]

Goto(l) == drv' = [drv EXCEPT !.pc = l]

-----------------------------------------------------------------------------
(* claude *)

\* A turn goes to stdout and to the transcript; it may leave a process behind.
Turn ==
  /\ alive
  /\ Len(stdout) < MaxEvents
  /\ \A n \in 1..Len(stdout) : ~stdout[n].result
  /\ \E e \in Event : stdout' = Append(stdout, e)
  /\ Appended(1, FALSE)
  /\ helper' \in {helper, TRUE}
  /\ UNCHANGED <<home, rd, now, alive, fed, parser, drained, broken, drv>>

\* A person goes on with the session elsewhere.
Typed ==
  /\ Len(stdout) < MaxEvents
  /\ file # <<>> /\ ~file[Len(file)].human
  /\ Appended(2, TRUE)
  /\ UNCHANGED <<home, rd, now, alive, helper, Streaming, drv>>

\* It ends, is terminated, or crashes; so may the other process.
Exit ==
  /\ \/ alive /\ alive' = FALSE /\ UNCHANGED helper
     \/ helper /\ helper' = FALSE /\ UNCHANGED alive
  /\ UNCHANGED <<Reading, now, Streaming, drv>>

-----------------------------------------------------------------------------
(* The stream thread *)

\* Slip: a result without usage clears what the turns before it had.
LatchAnew(n) ==
  [usage |-> IF stdout[n].usage THEN n ELSE IF stdout[n].result THEN 0 ELSE parser.usage,
   cost |-> IF stdout[n].result THEN n ELSE parser.cost]

\* _render_assistant and _render_result.
Latch(n) ==
  [usage |-> IF stdout[n].usage THEN n ELSE parser.usage,
   cost |-> IF stdout[n].result THEN n ELSE parser.cost]

Feed ==
  /\ ~broken
  /\ fed < Len(stdout)
  /\ parser' = Latch(fed + 1)
  /\ fed' = fed + 1
  /\ UNCHANGED <<Reading, now, alive, helper, stdout, drained, broken, drv>>

\* The end of the stream: nobody has it open any more.
Drain ==
  /\ ~drained /\ ~broken
  /\ fed = Len(stdout)
  /\ ~alive /\ ~helper
  /\ drained' = TRUE
  /\ UNCHANGED <<Reading, now, alive, helper, stdout, fed, parser, broken, drv>>

\* A line that is not UTF-8, an event of a shape that is not expected, or a log
\* that cannot be written ends the thread, before its usage is latched or after.
\* Nobody reads the stream then.
StreamDies ==
  /\ ~drained /\ ~broken
  /\ broken' = TRUE
  /\ \/ UNCHANGED parser
     \/ fed < Len(stdout) /\ parser' = Latch(fed + 1)
  /\ UNCHANGED <<Reading, now, alive, helper, stdout, fed, drained, drv>>

-----------------------------------------------------------------------------
(* _run_claude *)

\* proc.wait: the end of claude, or the end of the time, whichever the poll
\* sees; at the deadline it may be both.
Ended(from) ==
  /\ drv.pc = from
  /\ ~alive
  /\ drv' = [drv EXCEPT !.pc = "join", !.since = now]
  /\ UNCHANGED <<Reading, now, alive, helper, Streaming>>

Terminate ==
  /\ drv.pc = "wait"
  /\ now >= Timeout
  /\ drv' = [drv EXCEPT !.pc = "term", !.since = now, !.timedOut = TRUE]
  /\ UNCHANGED <<Reading, now, alive, helper, Streaming>>

\* killpg; a helper in a group of its own is spared.
Kill ==
  /\ drv.pc = "term"
  /\ now >= drv.since + Grace
  /\ alive' = FALSE
  /\ helper' \in {FALSE, helper}
  /\ drv' = [drv EXCEPT !.pc = "join", !.since = now]
  /\ UNCHANGED <<Reading, now, Streaming>>

\* Slip: the stream thread is waited for until the stream ends.
JoinStream ==
  /\ drv.pc = "join"
  /\ drained
  /\ Goto("input")
  /\ UNCHANGED <<Reading, now, alive, helper, Streaming>>

\* t.join(timeout=2)
Join ==
  /\ drv.pc = "join"
  /\ drained \/ broken \/ now >= drv.since + JoinTime
  /\ Goto("input")
  /\ UNCHANGED <<Reading, now, alive, helper, Streaming>>

\* tokens_used reads the latched usage twice, and cost_usd comes after it.
ReadUsage ==
  /\ \/ drv.pc = "input" /\ drv' = [drv EXCEPT !.pc = "output", !.in = parser.usage]
     \/ drv.pc = "output" /\ drv' = [drv EXCEPT !.pc = "cost", !.out = parser.usage]
     \/ drv.pc = "cost" /\ drv' = [drv EXCEPT !.pc = "back", !.cost = parser.cost]
  /\ UNCHANGED <<Reading, now, alive, helper, Streaming>>

Driver == Ended("wait") \/ Ended("term") \/ Terminate \/ Kill \/ Join \/ ReadUsage

\* The driver has nothing to do but wait.
Waiting ==
  \/ drv.pc = "wait" /\ alive /\ now < Timeout
  \/ drv.pc = "term" /\ alive /\ now < drv.since + Grace
  \/ drv.pc = "join" /\ ~drained /\ ~broken /\ now < drv.since + JoinTime

Tick ==
  /\ Waiting
  /\ now' = now + 1
  /\ UNCHANGED <<Reading, alive, helper, Streaming, drv>>

Next ==
  \/ Turn \/ Typed \/ Exit
  \/ Feed \/ Drain \/ StreamDies
  \/ Driver \/ Tick
  \/ Request /\ UNCHANGED <<now, alive, helper, Streaming, drv>>

Spec == Init /\ [][Next]_vars

\* The driver's thread runs and time passes; claude, the process it left
\* behind and the stream thread may hang.
FairSpec == Spec /\ WF_vars(Driver) /\ WF_vars(Tick)

-----------------------------------------------------------------------------
\* What is reported is the usage and the cost of the latest events that have
\* any, also when claude was killed before its result, unless the stream thread
\* was late by more than it was waited for or has died.
Latest(S) == Max(S \cup {0})

UsageComplete ==
  drv.pc = "back" =>
    \/ now >= drv.since + JoinTime
    \/ broken
    \/ LET used == Latest({n \in 1..Len(stdout) : stdout[n].usage})
       IN /\ drv.in = used /\ drv.out = used
          /\ drv.cost = Latest({n \in 1..Len(stdout) : stdout[n].result})

\* Whatever claude and its children do, the execution gets back from them, and
\* so the next task can start.
DriverReturns == <>(drv.pc = "back")
=============================================================================
