------------------------ MODULE AuthenticationProofs ------------------------
(***************************************************************************)
(* Theorems about Authentication, for any threads, addresses, thresholds   *)
(* and durations: types, the limit per address, and the global lockout.    *)
(***************************************************************************)
EXTENDS Authentication, TLAPS

Attempt ==
  [pc : {"idle", "global", "address", "session", "tally"},
   ip : Ip \cup {NULL}, right : BOOLEAN, now : Nat, barred : BOOLEAN]

\* Taking an attempt on, and ending it.
LEMMA AttemptMoves ==
  ASSUME TypeOK, NEW t \in Thread, NEW a \in Attempt,
         a.pc # "idle" => a.ip \in Ip, att' = [att EXCEPT ![t] = a]
  PROVE  /\ att' \in [Thread -> Attempt]
         /\ \A u \in Thread : att'[u].pc # "idle" => att'[u].ip \in Ip
         /\ att'[t] = a /\ \A u \in Thread \ {t} : att'[u] = att[u]
  BY DEF TypeOK, Attempt

LEMMA GotoOK ==
  ASSUME TypeOK, NEW t \in Thread, att[t].pc # "idle",
         NEW pc \in {"address", "session", "tally"}, Goto(t, pc)
  PROVE  /\ att' \in [Thread -> Attempt]
         /\ \A u \in Thread : att'[u].pc # "idle" => att'[u].ip \in Ip
         /\ att'[t] = [att[t] EXCEPT !.pc = pc]
         /\ \A u \in Thread \ {t} : att'[u] = att[u]
<1> DEFINE a == [att[t] EXCEPT !.pc = pc]
<1>1. a \in Attempt /\ (a.pc # "idle" => a.ip \in Ip)
  BY DEF TypeOK, Attempt
<1>2. att' = [att EXCEPT ![t] = a]
  BY DEF Goto, TypeOK
<1> HIDE DEF a
<1>3. /\ att' \in [Thread -> Attempt]
      /\ \A u \in Thread : att'[u].pc # "idle" => att'[u].ip \in Ip
      /\ att'[t] = a /\ \A u \in Thread \ {t} : att'[u] = att[u]
  BY <1>1, <1>2, AttemptMoves
<1> QED
  BY <1>3 DEF a

LEMMA DoneOK ==
  ASSUME TypeOK, NEW t \in Thread, Done(t)
  PROVE  /\ att' \in [Thread -> Attempt]
         /\ \A u \in Thread : att'[u].pc # "idle" => att'[u].ip \in Ip
         /\ att'[t] = NoAttempt /\ \A u \in Thread \ {t} : att'[u] = att[u]
<1>1. NoAttempt \in Attempt /\ NoAttempt.pc = "idle"
  BY DEF NoAttempt, Attempt
<1> QED
  BY <1>1, AttemptMoves DEF Done

\* Functions that lose keys, and gain one.
LEMMA WithoutOK ==
  ASSUME NEW f, NEW S, NEW R, f \in [DOMAIN f -> R]
  PROVE  /\ DOMAIN Without(f, S) = DOMAIN f \ S
         /\ Without(f, S) \in [DOMAIN Without(f, S) -> R]
         /\ \A x \in DOMAIN f \ S : Without(f, S)[x] = f[x]
  BY DEF Without

LEMMA WithOK ==
  ASSUME NEW f, NEW R, f \in [DOMAIN f -> R], NEW x, NEW v \in R
  PROVE  /\ DOMAIN With(f, x, v) = DOMAIN f \cup {x}
         /\ With(f, x, v) \in [DOMAIN With(f, x, v) -> R]
         /\ With(f, x, v)[x] = v
         /\ \A y \in DOMAIN f \ {x} : With(f, x, v)[y] = f[y]
  BY DEF With

LEMMA FailedOK ==
  ASSUME TypeOK, NEW i \in Ip, NEW time \in Nat
  PROVE  Failed(i, time) \in Record
<1>1. LockoutThreshold \in Nat /\ LockoutDuration \in Nat
  BY AuthAssumption
<1> DEFINE rec == IF i \in DOMAIN failures THEN failures[i] ELSE NoFailures
<1>2. rec \in Record
  BY DEF TypeOK, NoFailures, Record
<1>3. Failed(i, time) =
        IF rec.count + 1 >= LockoutThreshold
        THEN [count |-> 0, lockedUntil |-> time + LockoutDuration, lastAttemptAt |-> time]
        ELSE [rec EXCEPT !.count = @ + 1, !.lastAttemptAt = time]
  BY DEF Failed
<1> HIDE DEF rec
<1>4. CASE rec.count + 1 >= LockoutThreshold
  BY <1>1, <1>3, <1>4 DEF Record
<1>5. CASE ~(rec.count + 1 >= LockoutThreshold)
  <2>1. Failed(i, time) = [rec EXCEPT !.count = rec.count + 1, !.lastAttemptAt = time]
    BY <1>3, <1>5
  <2>2. rec.count + 1 \in Nat
    BY <1>2 DEF Record
  <2> QED
    BY <1>2, <2>1, <2>2 DEF Record
<1> QED
  BY <1>4, <1>5

-----------------------------------------------------------------------------
(* Types *)

LEMMA CheckAddressType ==
  ASSUME TypeOK, NEW t \in Thread, CheckAddress(t) PROVE TypeOK'
<1> DEFINE a == att[t]
<1>1. a \in Attempt /\ a.pc = "address" /\ a.ip \in Ip /\ a.now \in Nat
  BY DEF CheckAddress, TypeOK, Attempt
<1>2. UNCHANGED <<now, globalFailures, globalLockedUntil>>
  BY DEF CheckAddress
<1>3. CASE Done(t) /\ UNCHANGED <<failures, guesses>>
  BY <1>2, <1>3, DoneOK DEF TypeOK, Attempt
<1>4. CASE /\ failures' = Without(failures, {a.ip})
           /\ guesses' = [guesses EXCEPT ![a.ip] = <<>>]
           /\ Goto(t, "session")
  <2>1. DOMAIN failures' \subseteq Ip /\ failures' \in [DOMAIN failures' -> Record]
    <3>1. failures \in [DOMAIN failures -> Record] /\ DOMAIN failures \subseteq Ip
      BY DEF TypeOK
    <3> QED
      BY <1>4, <3>1 DEF Without
  <2>2. guesses' \in [Ip -> Seq(Nat)]
    <3>1. <<>> \in Seq(Nat)
      OBVIOUS
    <3> QED
      BY <1>1, <1>4, <3>1 DEF TypeOK
  <2> QED
    BY <1>1, <1>2, <1>4, <2>1, <2>2, GotoOK DEF TypeOK, Attempt
<1>5. ASSUME NEW S, S \in Evicted(With(failures, a.ip, Failed(a.ip, a.now))),
             failures' = Without(With(failures, a.ip, Failed(a.ip, a.now)), S),
             guesses' = [i \in Ip |-> IF i \in S THEN <<>>
                                      ELSE IF i = a.ip THEN Append(guesses[i], a.now)
                                      ELSE guesses[i]],
             Goto(t, "tally")
      PROVE  TypeOK'
  <2> DEFINE all == With(failures, a.ip, Failed(a.ip, a.now))
  <2>1. DOMAIN all = DOMAIN failures \cup {a.ip} /\ all \in [DOMAIN all -> Record]
    <3>1. Failed(a.ip, a.now) \in Record
      BY <1>1, FailedOK
    <3>2. failures \in [DOMAIN failures -> Record]
      BY DEF TypeOK
    <3> QED
      BY <3>1, <3>2 DEF With
  <2>2. DOMAIN failures' \subseteq Ip /\ failures' \in [DOMAIN failures' -> Record]
    <3> HIDE DEF all
    <3>1. DOMAIN all \subseteq Ip
      BY <1>1, <2>1 DEF TypeOK
    <3>2. failures' = Without(all, S)
      BY <1>5 DEF all
    <3> QED
      BY <2>1, <3>1, <3>2 DEF Without
  <2>3. guesses' \in [Ip -> Seq(Nat)]
    BY <1>1, <1>5 DEF TypeOK
  <2> QED
    BY <1>1, <1>2, <1>5, <2>2, <2>3, GotoOK DEF TypeOK, Attempt
<1> QED
  BY <1>3, <1>4, <1>5, Zenon DEF CheckAddress

LEMMA TallyType ==
  ASSUME TypeOK, NEW time \in Nat, Tally(time)
  PROVE  /\ globalFailures' \in Seq(Nat) /\ globalLockedUntil' \in Nat
         /\ globalLockedUntil' = globalLockedUntil \/ globalLockedUntil' >= time
<1>1. PICK n \in 0..Len(globalFailures) :
        \/ globalLockedUntil' = time + GlobalLockoutDuration /\ globalFailures' = <<>>
        \/ /\ globalFailures' =
                  Append(SubSeq(globalFailures, n + 1, Len(globalFailures)), time)
           /\ UNCHANGED globalLockedUntil
  BY Zenon DEF Tally
<1>2. globalFailures \in Seq(Nat) /\ globalLockedUntil \in Nat /\ GlobalLockoutDuration \in Nat
  BY AuthAssumption DEF TypeOK
<1>3. SubSeq(globalFailures, n + 1, Len(globalFailures)) \in Seq(Nat)
  BY <1>2
<1>4. CASE globalLockedUntil' = time + GlobalLockoutDuration /\ globalFailures' = <<>>
  BY <1>2, <1>4
<1>5. CASE /\ globalFailures' =
                 Append(SubSeq(globalFailures, n + 1, Len(globalFailures)), time)
           /\ UNCHANGED globalLockedUntil
  BY <1>2, <1>3, <1>5
<1> QED
  BY <1>1, <1>4, <1>5

LEMMA RecordGlobalType ==
  ASSUME TypeOK, NEW t \in Thread, RecordGlobal(t) PROVE TypeOK'
<1>1. att[t].now \in Nat
  BY DEF TypeOK
<1>2. globalFailures' \in Seq(Nat) /\ globalLockedUntil' \in Nat
  BY <1>1, TallyType DEF RecordGlobal, TypeOK
<1> QED
  BY <1>2, DoneOK DEF RecordGlobal, Histories, TypeOK, Attempt

LEMMA CreateSessionType ==
  ASSUME TypeOK, NEW t \in Thread, CreateSession(t) PROVE TypeOK'
BY DoneOK DEF CreateSession, Histories, TypeOK, Attempt

LEMMA BeginType == ASSUME TypeOK, NEW t \in Thread, Begin(t) PROVE TypeOK'
<1>1. PICK i \in Ip, right \in BOOLEAN :
        att' = [att EXCEPT ![t] = [pc |-> "global", ip |-> i, right |-> right, now |-> now,
                                   barred |-> now < globalLockedUntil]]
  BY Zenon DEF Begin
<1> DEFINE a == [pc |-> "global", ip |-> i, right |-> right, now |-> now,
                 barred |-> now < globalLockedUntil]
<1>2. a \in Attempt /\ a.ip \in Ip
  <2>1. (now < globalLockedUntil) \in BOOLEAN
    OBVIOUS
  <2> QED
    BY <2>1 DEF Attempt, TypeOK
<1> HIDE DEF a
<1>3. att' = [att EXCEPT ![t] = a]
  BY <1>1 DEF a
<1> QED
  BY <1>2, <1>3, AttemptMoves DEF Begin, TypeOK, Attempt

LEMMA TypeNext == ASSUME TypeOK, [Next]_vars PROVE TypeOK'
<1>1. ASSUME NEW t \in Thread, CheckGlobal(t) PROVE TypeOK'
  BY <1>1, DoneOK, GotoOK DEF CheckGlobal, Histories, TypeOK, Attempt
<1>2. ASSUME Tick \/ UNCHANGED vars PROVE TypeOK'
  BY <1>2 DEF Tick, Histories, vars, TypeOK
<1> QED
  BY <1>1, <1>2, BeginType, CheckAddressType, RecordGlobalType, CreateSessionType
     DEF Next

LEMMA TypeInit == Init => TypeOK
<1>1. ASSUME Init PROVE TypeOK
  <2>1. NoAttempt \in Attempt /\ NoAttempt.pc = "idle"
    BY DEF NoAttempt, Attempt
  <2>2. <<>> \in Seq(Nat)
    OBVIOUS
  <2> QED
    BY <1>1, <2>1, <2>2 DEF Init, TypeOK, Attempt
<1> QED
  BY <1>1

\* Every reachable state is well typed.
THEOREM TypeCorrect == Spec => []TypeOK
  BY TypeInit, TypeNext, PTL DEF Spec

-----------------------------------------------------------------------------
(* The global lockout *)

\* An attempt carries a time that has been, and one that began in a lockout
\* is still before the check that refuses it.
Times ==
  \A t \in Thread :
    /\ att[t].pc # "idle" => att[t].now <= now
    /\ att[t].barred => att[t].pc = "global" /\ att[t].now < globalLockedUntil

\* The end of the lockout only moves when it is over, and only forward.
LEMMA LockoutMoves ==
  ASSUME TypeOK, Times, [Next]_vars
  PROVE  /\ now' \in Nat /\ now' >= now
         /\ globalLockedUntil' \in Nat /\ globalLockedUntil' >= globalLockedUntil
         /\ now < globalLockedUntil => globalLockedUntil' = globalLockedUntil
<1>1. now \in Nat /\ globalLockedUntil \in Nat
  BY DEF TypeOK
<1>2. CASE \E t \in Thread : RecordGlobal(t)
  <2>1. PICK t \in Thread : RecordGlobal(t)
    BY <1>2
  <2>2. att[t].now \in Nat /\ att[t].now <= now /\ now' = now
    BY <2>1 DEF RecordGlobal, Times, TypeOK
  <2>3. CASE att[t].now < globalLockedUntil
    BY <1>1, <2>1, <2>2, <2>3 DEF RecordGlobal
  <2>4. CASE ~(att[t].now < globalLockedUntil)
    BY <1>1, <2>1, <2>2, <2>4, TallyType DEF RecordGlobal
  <2> QED
    BY <2>3, <2>4
<1>3. CASE Tick
  BY <1>1, <1>3 DEF Tick
<1>4. CASE \/ \E t \in Thread : Begin(t) \/ CheckGlobal(t) \/ CheckAddress(t) \/ CreateSession(t)
           \/ UNCHANGED vars
  <2>1. UNCHANGED <<now, globalLockedUntil>>
    BY <1>4, Zenon DEF Begin, CheckGlobal, CheckAddress, CreateSession, vars
  <2> QED
    BY <1>1, <2>1
<1> QED
  BY <1>2, <1>3, <1>4 DEF Next

\* A thread that goes on with its attempt, or ends it.
LEMMA TimesOnward ==
  ASSUME TypeOK, Times, [Next]_vars, NEW t \in Thread,
         \A u \in Thread \ {t} : att'[u] = att[u],
         \/ att'[t] = NoAttempt
         \/ att'[t].now <= now' /\ (att'[t].barred =>
              att'[t].pc = "global" /\ att'[t].now < globalLockedUntil')
  PROVE  Times'
<1>1. /\ now \in Nat /\ now' \in Nat /\ now' >= now /\ globalLockedUntil \in Nat
      /\ globalLockedUntil' \in Nat /\ globalLockedUntil' >= globalLockedUntil
  BY LockoutMoves DEF TypeOK
<1>2. ASSUME NEW u \in Thread \ {t}
      PROVE  /\ att'[u].pc # "idle" => att'[u].now <= now'
             /\ att'[u].barred => att'[u].pc = "global" /\ att'[u].now < globalLockedUntil'
  BY <1>1 DEF Times, TypeOK
<1>3. /\ att'[t].pc # "idle" => att'[t].now <= now'
      /\ att'[t].barred => att'[t].pc = "global" /\ att'[t].now < globalLockedUntil'
  BY DEF NoAttempt
<1> QED
  BY <1>2, <1>3 DEF Times

LEMMA TimesNext == ASSUME TypeOK, Times, [Next]_vars PROVE Times'
<1>1. /\ now \in Nat /\ now' \in Nat /\ now' >= now /\ globalLockedUntil \in Nat
      /\ globalLockedUntil' \in Nat /\ globalLockedUntil' >= globalLockedUntil
  BY LockoutMoves DEF TypeOK
<1>2. ASSUME NEW t \in Thread, Begin(t) PROVE Times'
  <2>1. PICK i \in Ip, right \in BOOLEAN :
          att' = [att EXCEPT ![t] = [pc |-> "global", ip |-> i, right |-> right, now |-> now,
                                     barred |-> now < globalLockedUntil]]
    BY <1>2, Zenon DEF Begin
  <2>2. UNCHANGED <<now, globalLockedUntil>>
    BY <1>2 DEF Begin
  <2> QED
    BY <1>1, <2>1, <2>2, TimesOnward DEF TypeOK
<1>3. ASSUME NEW t \in Thread, NEW pc \in {"address", "session", "tally"},
             Goto(t, pc), att[t].pc # "idle", ~att[t].barred
      PROVE  Times'
  <2>1. att'[t] = [att[t] EXCEPT !.pc = pc] /\ \A u \in Thread \ {t} : att'[u] = att[u]
    BY <1>3, GotoOK
  <2>2. att'[t].now = att[t].now /\ att'[t].barred = att[t].barred
    BY <2>1 DEF TypeOK
  <2>3. att[t].now <= now /\ att[t].now \in Nat
    BY <1>3 DEF Times, TypeOK
  <2>4. att'[t].now <= now' /\ ~att'[t].barred
    BY <1>1, <1>3, <2>2, <2>3
  <2> QED
    BY <2>1, <2>4, TimesOnward
<1>4. ASSUME NEW t \in Thread, Done(t) PROVE Times'
  BY <1>4, DoneOK, TimesOnward
<1>5. ASSUME NEW t \in Thread, CheckGlobal(t) PROVE Times'
  <2>1. CASE att[t].now < globalLockedUntil
    BY <1>4, <1>5, <2>1 DEF CheckGlobal
  <2>2. CASE ~(att[t].now < globalLockedUntil)
    BY <1>3, <1>5, <2>2 DEF CheckGlobal, Times
  <2> QED
    BY <2>1, <2>2
<1>6. ASSUME NEW t \in Thread, CheckAddress(t) PROVE Times'
  <2>1. att[t].pc = "address" /\ (Done(t) \/ Goto(t, "session") \/ Goto(t, "tally"))
    BY <1>6, Zenon DEF CheckAddress
  <2> QED
    BY <1>3, <1>4, <2>1 DEF Times
<1>7. ASSUME NEW t \in Thread, RecordGlobal(t) \/ CreateSession(t) PROVE Times'
  BY <1>4, <1>7 DEF RecordGlobal, CreateSession
<1>8. ASSUME Tick \/ UNCHANGED vars PROVE Times'
  <2>1. att' = att
    BY <1>8 DEF Tick, vars
  <2> QED
    BY <1>1, <2>1 DEF Times, TypeOK
<1> QED
  BY <1>2, <1>5, <1>6, <1>7, <1>8 DEF Next

\* While the global lockout lasts no attempt in flight moves its end, and no
\* attempt that began in it is compared with the password.
THEOREM LockoutKept == Spec => LockoutHolds
<1>1. Init => Times
  BY DEF Init, Times, NoAttempt
<1>2. ASSUME TypeOK, Times, [Next]_vars
      PROVE  /\ now < globalLockedUntil => globalLockedUntil' = globalLockedUntil
             /\ \A t \in Thread : att[t].pc = "address" => ~att[t].barred
  BY <1>2, LockoutMoves DEF Times
<1>3. TypeOK /\ Times /\ [Next]_vars =>
        [/\ now < globalLockedUntil => globalLockedUntil' = globalLockedUntil
         /\ \A t \in Thread :
              att[t].pc = "address" /\ att'[t].pc \in {"tally", "session"} => ~att[t].barred]_vars
  BY <1>2
<1> QED
  BY <1>1, <1>3, TypeInit, TypeNext, TimesNext, PTL DEF Spec, LockoutHolds

-----------------------------------------------------------------------------
(* The limit per address *)

\* Of any LockoutThreshold + 1 wrong attempts in a row two are a lockout apart.
Spaced(g) ==
  \A n \in DOMAIN g :
    n + LockoutThreshold <= Len(g) =>
      \E k \in n..(n + LockoutThreshold - 1) : g[k + 1] >= g[k] + LockoutDuration

\* The counter says how many wrong attempts came after the latest lockout.
Sound(g, count, until) ==
  /\ count < LockoutThreshold /\ count <= Len(g)
  /\ Len(g) > count => until = g[Len(g) - count] + LockoutDuration
  /\ Len(g) > count /\ count > 0 => g[Len(g) - count + 1] >= until
  /\ Spaced(g)

Counted ==
  \A i \in Ip :
    IF i \in DOMAIN failures
    THEN Sound(guesses[i], failures[i].count, failures[i].lockedUntil)
    ELSE guesses[i] = <<>>

LEMMA AtMostNext ==
  ASSUME NEW n \in Nat, NEW size \in Nat, NEW len \in Nat, n + size <= len + 1
  PROVE  n + size <= len \/ n + size = len + 1
  OBVIOUS

LEMMA Within ==
  ASSUME NEW n \in Nat, NEW size \in Nat, NEW len \in Nat, n >= 1, n + size <= len,
         NEW k \in n..(n + size - 1)
  PROVE  k \in 1..len /\ k + 1 \in 1..len
  OBVIOUS

\* One more wrong attempt, not before the lockout of the address is over.
LEMMA SpacedMore ==
  ASSUME NEW g \in Seq(Nat), NEW count \in Nat, NEW until \in Nat, NEW time \in Nat,
         Sound(g, count, until), time >= until
  PROVE  Spaced(Append(g, time))
<1> DEFINE h == Append(g, time)
<1>1. /\ LockoutThreshold \in Nat \ {0} /\ LockoutDuration \in Nat
      /\ count < LockoutThreshold /\ count <= Len(g) /\ Len(g) \in Nat
  BY AuthAssumption DEF Sound
<1>2. /\ h \in Seq(Nat) /\ Len(h) = Len(g) + 1 /\ DOMAIN h = 1..(Len(g) + 1)
      /\ h[Len(g) + 1] = time /\ \A k \in 1..Len(g) : h[k] = g[k]
  OBVIOUS
<1> HIDE DEF h
<1>3. SUFFICES ASSUME NEW n \in DOMAIN h, n + LockoutThreshold <= Len(h)
               PROVE  \E k \in n..(n + LockoutThreshold - 1) : h[k + 1] >= h[k] + LockoutDuration
  BY DEF Spaced, h
<1>4. n \in Nat /\ n >= 1 /\ n + LockoutThreshold <= Len(g) + 1
  BY <1>2, <1>3
<1>5. CASE n + LockoutThreshold <= Len(g)
  <2>1. n \in DOMAIN g
    BY <1>1, <1>4, <1>5
  <2>2. PICK k \in n..(n + LockoutThreshold - 1) : g[k + 1] >= g[k] + LockoutDuration
    BY <1>5, <2>1 DEF Sound, Spaced
  <2>3. k \in 1..Len(g) /\ k + 1 \in 1..Len(g)
    BY <1>1, <1>4, <1>5, Within
  <2> QED
    BY <1>2, <2>2, <2>3
<1>6. CASE n + LockoutThreshold = Len(g) + 1
  <2> DEFINE k == Len(g) - count
  <2>1. k \in n..(n + LockoutThreshold - 1) /\ k \in 1..Len(g) /\ k + 1 \in 1..(Len(g) + 1)
    BY <1>1, <1>4, <1>6, SMTT(30)
  <2>2. until = g[k] + LockoutDuration
    BY <1>1, <2>1 DEF Sound
  <2>3. h[k + 1] >= until
    <3>1. CASE count = 0
      BY <1>1, <1>2, <3>1
    <3>2. CASE count > 0
      <4>1. g[k + 1] >= until /\ k + 1 \in 1..Len(g)
        BY <1>1, <2>1, <3>2 DEF Sound
      <4> QED
        BY <1>2, <4>1
    <3> QED
      BY <1>1, <3>1, <3>2
  <2> QED
    BY <1>2, <2>1, <2>2, <2>3
<1>7. n + LockoutThreshold <= Len(g) \/ n + LockoutThreshold = Len(g) + 1
  BY <1>1, <1>4, AtMostNext
<1> QED
  BY <1>5, <1>6, <1>7

LEMMA SoundMore ==
  ASSUME NEW g \in Seq(Nat), NEW count \in Nat, NEW until \in Nat, NEW time \in Nat,
         Sound(g, count, until), time >= until
  PROVE  IF count + 1 >= LockoutThreshold
         THEN Sound(Append(g, time), 0, time + LockoutDuration)
         ELSE Sound(Append(g, time), count + 1, until)
<1> DEFINE h == Append(g, time)
<1>1. /\ LockoutThreshold \in Nat \ {0} /\ LockoutDuration \in Nat
      /\ count < LockoutThreshold /\ count <= Len(g) /\ Len(g) \in Nat
  BY AuthAssumption DEF Sound
<1>2. /\ h \in Seq(Nat) /\ Len(h) = Len(g) + 1
      /\ h[Len(g) + 1] = time /\ \A k \in 1..Len(g) : h[k] = g[k]
  OBVIOUS
<1>3. Spaced(h)
  BY SpacedMore
<1> HIDE DEF h
<1>4. CASE count + 1 >= LockoutThreshold
  <2>1. Sound(h, 0, time + LockoutDuration)
    BY <1>1, <1>2, <1>3 DEF Sound
  <2> QED
    BY <1>4, <2>1 DEF h
<1>5. CASE ~(count + 1 >= LockoutThreshold)
  <2>1. Len(h) > count + 1 => until = h[Len(h) - (count + 1)] + LockoutDuration
    <3>1. ASSUME Len(h) > count + 1 PROVE until = h[Len(h) - (count + 1)] + LockoutDuration
      <4>1. Len(g) > count /\ Len(h) - (count + 1) = Len(g) - count
            /\ Len(g) - count \in 1..Len(g)
        BY <1>1, <1>2, <3>1
      <4> QED
        BY <1>2, <4>1 DEF Sound
    <3> QED
      BY <3>1
  <2>2. Len(h) > count + 1 => h[Len(h) - (count + 1) + 1] >= until
    <3>1. ASSUME Len(h) > count + 1 PROVE h[Len(h) - (count + 1) + 1] >= until
      <4>1. Len(g) > count /\ Len(h) - (count + 1) + 1 = Len(g) - count + 1
        BY <1>1, <1>2, <3>1
      <4>2. CASE count = 0
        BY <1>1, <1>2, <4>1, <4>2
      <4>3. CASE count > 0
        <5>1. g[Len(g) - count + 1] >= until /\ Len(g) - count + 1 \in 1..Len(g)
          BY <1>1, <4>1, <4>3 DEF Sound
        <5> QED
          BY <1>2, <4>1, <5>1
      <4> QED
        BY <1>1, <4>2, <4>3
    <3> QED
      BY <3>1
  <2>3. Sound(h, count + 1, until)
    BY <1>1, <1>2, <1>3, <1>5, <2>1, <2>2 DEF Sound
  <2> QED
    BY <1>5, <2>3 DEF h
<1> QED
  BY <1>4, <1>5

\* An address without attempts.
LEMMA SoundEmpty == Sound(<<>>, 0, 0)
<1>1. LockoutThreshold \in Nat \ {0}
  BY AuthAssumption
<1> QED
  BY <1>1 DEF Sound, Spaced

LEMMA CountedCheck ==
  ASSUME TypeOK, Counted, NEW t \in Thread, CheckAddress(t) PROVE Counted'
<1> DEFINE i == att[t].ip
           time == att[t].now
           new == Failed(i, time)
           all == With(failures, i, new)
<1>1. i \in Ip /\ time \in Nat
  BY DEF CheckAddress, TypeOK
<1>2. CASE UNCHANGED <<failures, guesses>>
  BY <1>2 DEF Counted
<1>3. CASE /\ failures' = Without(failures, {i})
           /\ guesses' = [guesses EXCEPT ![i] = <<>>]
  <2>1. /\ guesses'[i] = <<>> /\ \A j \in Ip \ {i} : guesses'[j] = guesses[j]
        /\ DOMAIN failures' = DOMAIN failures \ {i}
        /\ \A j \in DOMAIN failures \ {i} : failures'[j] = failures[j]
    BY <1>1, <1>3 DEF TypeOK, Without
  <2> QED
    BY <2>1 DEF Counted
<1>4. ASSUME ~Locked(i, time), NEW S, failures' = Without(all, S),
             guesses' = [j \in Ip |-> IF j \in S THEN <<>>
                                      ELSE IF j = i THEN Append(guesses[j], time)
                                      ELSE guesses[j]]
      PROVE  Counted'
  <2>1. Sound(Append(guesses[i], time), new.count, new.lockedUntil)
    <3> DEFINE rec == IF i \in DOMAIN failures THEN failures[i] ELSE NoFailures
    <3>1. rec \in Record /\ rec.count \in Nat /\ rec.lockedUntil \in Nat /\ guesses[i] \in Seq(Nat)
      BY <1>1 DEF TypeOK, NoFailures, Record
    <3>2. Sound(guesses[i], rec.count, rec.lockedUntil)
      BY <1>1, SoundEmpty DEF Counted, NoFailures
    <3>3. time >= rec.lockedUntil
      BY <1>1, <1>4, <3>1 DEF Locked, NoFailures
    <3>4. /\ rec.count + 1 >= LockoutThreshold =>
               new.count = 0 /\ new.lockedUntil = time + LockoutDuration
          /\ ~(rec.count + 1 >= LockoutThreshold) =>
               new.count = rec.count + 1 /\ new.lockedUntil = rec.lockedUntil
      <4>1. new = IF rec.count + 1 >= LockoutThreshold
                  THEN [count |-> 0, lockedUntil |-> time + LockoutDuration, lastAttemptAt |-> time]
                  ELSE [rec EXCEPT !.count = @ + 1, !.lastAttemptAt = time]
        BY DEF Failed
      <4> HIDE DEF new, rec
      <4> QED
        BY <3>1, <4>1 DEF Record
    <3> HIDE DEF new, rec
    <3> QED
      BY <1>1, <3>1, <3>2, <3>3, <3>4, SoundMore
  <2> HIDE DEF new
  <2>2. /\ DOMAIN failures' = (DOMAIN failures \cup {i}) \ S
        /\ \A j \in DOMAIN failures' : failures'[j] = IF j = i THEN new ELSE failures[j]
    BY <1>4 DEF Without, With
  <2>3. ASSUME NEW j \in Ip
        PROVE  IF j \in DOMAIN failures'
               THEN Sound(guesses'[j], failures'[j].count, failures'[j].lockedUntil)
               ELSE guesses'[j] = <<>>
    <3>1. guesses'[j] = IF j \in S THEN <<>>
                        ELSE IF j = i THEN Append(guesses[j], time) ELSE guesses[j]
      BY <1>4
    <3>2. CASE j = i
      BY <2>1, <2>2, <3>1, <3>2
    <3>3. CASE j # i
      BY <2>2, <3>1, <3>3 DEF Counted
    <3> QED
      BY <3>2, <3>3
  <2> QED
    BY <2>3 DEF Counted
<1> QED
  BY <1>2, <1>3, <1>4, Zenon DEF CheckAddress

LEMMA CountedNext == ASSUME TypeOK, Counted, [Next]_vars PROVE Counted'
<1>1. ASSUME NEW t \in Thread,
             Begin(t) \/ CheckGlobal(t) \/ RecordGlobal(t) \/ CreateSession(t)
      PROVE  UNCHANGED <<failures, guesses>>
  BY <1>1, Zenon DEF Begin, CheckGlobal, RecordGlobal, CreateSession, Histories
<1>2. ASSUME Tick \/ UNCHANGED vars
      PROVE  UNCHANGED <<failures, guesses>>
  BY <1>2, Zenon DEF Tick, Histories, vars
<1>3. UNCHANGED <<failures, guesses>> => Counted'
  BY DEF Counted
<1> QED
  BY <1>1, <1>2, <1>3, CountedCheck DEF Next

\* However its attempts are interleaved, an address has a lockout between any
\* LockoutThreshold + 1 wrong attempts in a row.
THEOREM AddressLimited == Spec => []AddressLimit
<1>1. Init => Counted
  BY DEF Init, Counted
<1>2. ASSUME TypeOK, Counted PROVE AddressLimit
  <2>1. ASSUME NEW i \in Ip PROVE Spaced(guesses[i])
    <3>1. CASE i \in DOMAIN failures
      BY <1>2, <3>1 DEF Counted, Sound
    <3>2. CASE i \notin DOMAIN failures
      BY <1>2, <3>2, SoundEmpty DEF Counted, Sound
    <3> QED
      BY <3>1, <3>2
  <2> QED
    BY <2>1 DEF AddressLimit, Spaced
<1> QED
  BY <1>1, <1>2, TypeInit, TypeNext, CountedNext, PTL DEF Spec
=============================================================================
