--------------------------- MODULE Authentication ---------------------------
(***************************************************************************)
(* The dashboard's password gate (auth.py and the login of web.py): login  *)
(* attempts by concurrent request threads, the lockout of an address, the  *)
(* global lockout and the cap on the failure records.                      *)
(*                                                                         *)
(* An attempt reads the clock once and uses that time under two locks      *)
(* later on, so that what one attempt writes may be older than what        *)
(* another one has written.  Time passes between any two steps.            *)
(*                                                                         *)
(* Abstracted: passwords are right or wrong; the sessions right ones open  *)
(* are left out, and so are replies.  The gate is enabled: with no         *)
(* password configured it passes everything on.                            *)
(***************************************************************************)
EXTENDS Integers, Sequences, FiniteSets

CONSTANTS
  Thread,         \* request threads that handle POST /login
  Ip,             \* client addresses
  NULL,
  LockoutThreshold, LockoutDuration,             \* LOCKOUT_*
  GlobalFailureWindow, GlobalFailureThreshold, GlobalLockoutDuration,
  MaxFailureEntries,      \* _MAX_FAILURE_ENTRIES
  EvictCount,             \* a quarter of it
  MaxAttempts,            \* bound on the attempts
  MaxTime                 \* bound on the clock

ASSUME AuthAssumption ==
  /\ {LockoutThreshold, LockoutDuration, GlobalFailureThreshold,
      GlobalLockoutDuration} \subseteq Nat \ {0}
  /\ {GlobalFailureWindow, MaxFailureEntries, EvictCount, MaxAttempts,
      MaxTime} \subseteq Nat
  /\ EvictCount <= MaxFailureEntries
  /\ NULL \notin Ip

VARIABLES
  now,                \* time.time()
  failures,           \* _failures
  globalFailures,     \* _global_failures
  globalLockedUntil,  \* _global_locked_until
  att,                \* att[t]: the login request thread t handles
  attempts,           \* number of attempts so far
  guesses             \* history: times of an address's wrong attempts, since
                      \* its record was last dropped

vars == <<now, failures, globalFailures, globalLockedUntil, att, attempts,
          guesses>>

Histories == <<attempts, guesses>>

-----------------------------------------------------------------------------
\* barred is a history: the global lockout was on when the attempt began.
NoAttempt == [pc |-> "idle", ip |-> NULL, right |-> FALSE, now |-> 0, barred |-> FALSE]

\* FailureRecord()
NoFailures == [count |-> 0, lockedUntil |-> 0, lastAttemptAt |-> 0]

Without(f, S) == [x \in DOMAIN f \ S |-> f[x]]

With(f, x, v) == [y \in DOMAIN f \cup {x} |-> IF y = x THEN v ELSE f[y]]

Init ==
  /\ now = 0
  /\ failures = [i \in {} |-> NoFailures]
  /\ globalFailures = <<>>
  /\ globalLockedUntil = 0
  /\ att = [t \in Thread |-> NoAttempt]
  /\ attempts = 0
  /\ guesses = [i \in Ip |-> <<>>]

Goto(t, pc) == att' = [att EXCEPT ![t].pc = pc]
Done(t) == att' = [att EXCEPT ![t] = NoAttempt]

-----------------------------------------------------------------------------
(* POST /login: check_password_attempt and create_session *)

Begin(t) ==
  /\ att[t].pc = "idle"
  /\ attempts < MaxAttempts
  /\ attempts' = attempts + 1
  /\ \E i \in Ip, right \in BOOLEAN :
       att' = [att EXCEPT ![t] = [pc |-> "global", ip |-> i, right |-> right, now |-> now,
                                  barred |-> now < globalLockedUntil]]
  /\ UNCHANGED <<now, failures, globalFailures, globalLockedUntil, guesses>>

\* The global lockout refuses everybody.
CheckGlobal(t) ==
  /\ att[t].pc = "global"
  /\ IF att[t].now < globalLockedUntil THEN Done(t) ELSE Goto(t, "address")
  /\ UNCHANGED <<now, failures, globalFailures, globalLockedUntil, Histories>>

Locked(i, time) == i \in DOMAIN failures /\ time < failures[i].lockedUntil

\* Slip: one attempt more before the address is locked.
FailedLate(i, time) ==
  LET rec == IF i \in DOMAIN failures THEN failures[i] ELSE NoFailures
  IN IF rec.count >= LockoutThreshold
     THEN [count |-> 0, lockedUntil |-> time + LockoutDuration, lastAttemptAt |-> time]
     ELSE [rec EXCEPT !.count = @ + 1, !.lastAttemptAt = time]

\* The record of an address after a wrong password.
Failed(i, time) ==
  LET rec == IF i \in DOMAIN failures THEN failures[i] ELSE NoFailures
  IN IF rec.count + 1 >= LockoutThreshold
     THEN [count |-> 0, lockedUntil |-> time + LockoutDuration, lastAttemptAt |-> time]
     ELSE [rec EXCEPT !.count = @ + 1, !.lastAttemptAt = time]

\* _prune_failures_locked: what may be evicted, the records with the oldest
\* attempts, when there are too many.
Evicted(recs) ==
  IF Cardinality(DOMAIN recs) <= MaxFailureEntries THEN {{}}
  ELSE {S \in SUBSET DOMAIN recs :
          /\ Cardinality(S) = EvictCount
          /\ \A i \in S, j \in DOMAIN recs \ S :
               recs[i].lastAttemptAt <= recs[j].lastAttemptAt}

\* One critical section: the address's lockout, the comparison, the record.
CheckAddress(t) ==
  LET a == att[t]
  IN /\ a.pc = "address"
     /\ \/ /\ Locked(a.ip, a.now)
           /\ Done(t)
           /\ UNCHANGED <<failures, guesses>>
        \/ /\ ~Locked(a.ip, a.now)
           /\ a.right
           /\ failures' = Without(failures, {a.ip})
           /\ guesses' = [guesses EXCEPT ![a.ip] = <<>>]
           /\ Goto(t, "session")
        \/ /\ ~Locked(a.ip, a.now)
           /\ ~a.right
           /\ \E S \in Evicted(With(failures, a.ip, Failed(a.ip, a.now))) :
                /\ failures' = Without(With(failures, a.ip, Failed(a.ip, a.now)), S)
                /\ guesses' = [i \in Ip |-> IF i \in S THEN <<>>
                                            ELSE IF i = a.ip THEN Append(guesses[i], a.now)
                                            ELSE guesses[i]]
           /\ Goto(t, "tally")
     /\ UNCHANGED <<now, globalFailures, globalLockedUntil, attempts>>

\* A failure enters the log, which forgets old ones at its front; as many as
\* the threshold lock everybody out.
Tally(time) ==
  LET cutoff == time - GlobalFailureWindow
  IN \E n \in 0..Len(globalFailures) :
       /\ \A k \in 1..n : globalFailures[k] < cutoff
       /\ n < Len(globalFailures) => globalFailures[n + 1] >= cutoff
       /\ LET log == Append(SubSeq(globalFailures, n + 1, Len(globalFailures)), time)
          IN IF Len(log) >= GlobalFailureThreshold
             THEN /\ globalLockedUntil' = time + GlobalLockoutDuration
                  /\ globalFailures' = <<>>
             ELSE /\ globalFailures' = log
                  /\ UNCHANGED globalLockedUntil

\* Slip: a failure counts although the lockout is on.
RecordAlways(t) ==
  /\ att[t].pc = "tally"
  /\ Tally(att[t].now)
  /\ Done(t)
  /\ UNCHANGED <<now, failures, Histories>>

\* _record_global_failure
RecordGlobal(t) ==
  /\ att[t].pc = "tally"
  /\ IF att[t].now < globalLockedUntil
     THEN UNCHANGED <<globalFailures, globalLockedUntil>>
     ELSE Tally(att[t].now)
  /\ Done(t)
  /\ UNCHANGED <<now, failures, Histories>>

\* api_login goes on to create_session.
CreateSession(t) ==
  /\ att[t].pc = "session"
  /\ Done(t)
  /\ UNCHANGED <<now, failures, globalFailures, globalLockedUntil, Histories>>

Tick ==
  /\ now < MaxTime
  /\ now' = now + 1
  /\ UNCHANGED <<failures, globalFailures, globalLockedUntil, att, Histories>>

Next ==
  \/ \E t \in Thread : \/ Begin(t) \/ CheckGlobal(t) \/ CheckAddress(t)
                       \/ RecordGlobal(t) \/ CreateSession(t)
  \/ Tick

Spec == Init /\ [][Next]_vars

-----------------------------------------------------------------------------
Record == [count : Nat, lockedUntil : Nat, lastAttemptAt : Nat]

TypeOK ==
  /\ now \in Nat
  /\ DOMAIN failures \subseteq Ip /\ failures \in [DOMAIN failures -> Record]
  /\ globalFailures \in Seq(Nat)
  /\ globalLockedUntil \in Nat
  /\ att \in [Thread -> [pc : {"idle", "global", "address", "session", "tally"},
                        ip : Ip \cup {NULL}, right : BOOLEAN, now : Nat,
                        barred : BOOLEAN]]
  /\ \A t \in Thread : att[t].pc # "idle" => att[t].ip \in Ip
  /\ guesses \in [Ip -> Seq(Nat)]

\* "5 wrong attempts -> 10-min lockout": however attempts of one address are
\* interleaved, and whatever its earlier lockouts were, of any six wrong ones
\* in a row two have a lockout between them (unless the record is evicted, or
\* the right password drops it).
AddressLimit ==
  \A i \in Ip : \A n \in DOMAIN guesses[i] :
    n + LockoutThreshold <= Len(guesses[i]) =>
      \E k \in n..(n + LockoutThreshold - 1) :
        guesses[i][k + 1] >= guesses[i][k] + LockoutDuration

\* "10-min lockout for everyone", a "fixed window": while it lasts no attempt
\* still in flight moves its end, and no attempt that began in it, right or
\* wrong, gets as far as the comparison.
LockoutHolds ==
  [][/\ now < globalLockedUntil => globalLockedUntil' = globalLockedUntil
     /\ \A t \in Thread :
          att[t].pc = "address" /\ att'[t].pc \in {"tally", "session"} => ~att[t].barred]_vars

=============================================================================
