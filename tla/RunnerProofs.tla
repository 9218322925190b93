---------------------------- MODULE RunnerProofs ----------------------------
(***************************************************************************)
(* Theorems about Runner, for any durations, any number of request threads *)
(* and workers, any readings, failures and restarts, and without a bound   *)
(* on the clock: types, mutual exclusion, what a burn window guarantees,   *)
(* that no wake-up is lost, what is in the queue of slots, that none is    *)
(* slept through, how long a next_session gate lasts, that a dead anchor   *)
(* is replaced in bounded time, and that no T+5 check ever sets one.       *)
(***************************************************************************)
EXTENDS Runner, TLAPS

-----------------------------------------------------------------------------
(* Types *)

LoopPc == {"load", "top", "snap", "slots", "checking", "requeue", "hourly",
           "burn", "wantExec", "select", "execute", "sleep", "wait"}

\* The loop: what it has popped is a slot while it may be put back, and it
\* is on its way to a task only with a burning snapshot.
LoopOK ==
  /\ loop \in [pc : LoopPc, t : Nat, snap : StateRecord, entry : {loop.entry},
               until : {loop.until}, onTrue : {"top"},
               onFalse : {"top", "requeue", "burn"}]
  /\ loop.snap.state = "burning" <=> loop.snap.burnUntil # NULL
  /\ "requeue" \in {loop.pc, loop.onFalse} =>
       loop.entry[1] \in Nat /\ loop.entry[2] \in Slot
  /\ loop.pc \in {"wantExec", "select"} => loop.snap.state = "burning"

CheckRecord ==
  [pc : {"idle", "try", "fetch", "apply"}, kind : Kind, since : Nat,
   reset : Time, proposed : Time, action : {"skip", "reanchor", "clamp"},
   effective : Kind \cup {"fallback", "cold_start"}, crashed : BOOLEAN,
   burn : {"keep", "burning", "chilling"}, burnUntil : Time]

\* A check that re-anchors has a reset time, one that opens a burn has a
\* deadline, and only one that has decided does either.
CheckOK(c) ==
  /\ c \in CheckRecord
  /\ c.action # "skip" => c.proposed # NULL
  /\ c.burn # "keep" => (c.burn = "burning" <=> c.burnUntil # NULL)
  /\ c.pc # "apply" => c.burn = "keep" /\ c.action = "skip" /\ c.proposed = NULL

TypeInv ==
  /\ TypeOK
  /\ LoopOK
  /\ chk \in [Checker -> CheckRecord]
  /\ \A a \in Checker : CheckOK(chk[a])

\* Times are not the missing value.
LEMMA NullIsNoTime == NULL \notin Nat /\ NULL \in Time /\ Nat \subseteq Time
  BY RunnerAssumption DEF Time

\* A call begins as a check that is nothing yet.
LEMMA FreshCheck ==
  /\ CheckOK(NoCheck)
  /\ \A k \in Kind : CheckOK([NoCheck EXCEPT !.pc = "try", !.kind = k])
  BY NullIsNoTime DEF CheckOK, CheckRecord, NoCheck, Kind

\* Replacing one check by a check.
LEMMA OneCheck ==
  ASSUME chk \in [Checker -> CheckRecord], \A b \in Checker : CheckOK(chk[b]),
         NEW a \in Checker, NEW c, CheckOK(c), chk' = [chk EXCEPT ![a] = c]
  PROVE  /\ chk' \in [Checker -> CheckRecord]
         /\ \A b \in Checker : CheckOK(chk'[b])
  BY DEF CheckOK

\* Going on in the same round of the loop.
LEMMA GotoOK ==
  ASSUME LoopOK, NEW l \in LoopPc, LoopGoto(l),
         l = "requeue" => loop.entry[1] \in Nat /\ loop.entry[2] \in Slot,
         l \in {"wantExec", "select"} => loop.snap.state = "burning"
  PROVE  LoopOK' /\ loop'.snap \in StateRecord
<1>1. CASE l = "top"
  <2>1. loop' = [pc |-> "top", t |-> 0, snap |-> ColdState, entry |-> NULL,
                 until |-> 0, onTrue |-> "top", onFalse |-> "top"]
    BY <1>1 DEF LoopGoto, NewLoop
  <2>2. ColdState \in StateRecord /\ ColdState.state # "burning" /\ ColdState.burnUntil = NULL
    BY NullIsNoTime DEF ColdState, StateRecord
  <2> QED
    BY <2>1, <2>2 DEF LoopOK, LoopPc
<1>2. CASE l # "top"
  <2>1. loop' = [loop EXCEPT !.pc = l]
    BY <1>2 DEF LoopGoto
  <2>2. /\ loop'.pc = l /\ loop'.t = loop.t /\ loop'.snap = loop.snap
        /\ loop'.entry = loop.entry /\ loop'.until = loop.until
        /\ loop'.onTrue = loop.onTrue /\ loop'.onFalse = loop.onFalse
    BY <2>1 DEF LoopOK
  <2> QED
    BY <2>1, <2>2 DEF LoopOK
<1> QED
  BY <1>1, <1>2

\* Calling a check from the loop.
LEMMA LoopCheckOK ==
  ASSUME TypeInv, NEW k \in Kind, NEW e, NEW f \in {"top", "requeue", "burn"},
         LoopCheck(k, e, "top", f),
         f = "requeue" => e[1] \in Nat /\ e[2] \in Slot
  PROVE  /\ LoopOK' /\ loop'.snap \in StateRecord
         /\ chk' \in [Checker -> CheckRecord]
         /\ \A a \in Checker : CheckOK(chk'[a])
<1>1. loop' = [pc |-> "checking", t |-> loop.t, snap |-> loop.snap, entry |-> e,
               until |-> loop.until, onTrue |-> "top", onFalse |-> f]
  BY DEF LoopCheck, TypeInv, LoopOK
<1>2. LoopOK' /\ loop'.snap \in StateRecord
  BY <1>1 DEF TypeInv, LoopOK, LoopPc
<1>3. "loop" \in Checker
  BY DEF Checker
<1> QED
  BY <1>2, <1>3, FreshCheck, OneCheck DEF LoopCheck, TypeInv

\* What is armed is ahead.
LEMMA ArmedType ==
  ASSUME now \in Nat, NEW anchor \in Nat
  PROVE  \A e \in Armed(anchor) : e[1] \in Nat /\ e[2] \in Slot
<1>1. {TMinus60, TMinus10, TPlus5, Floor} \subseteq Nat
  BY RunnerAssumption
<1> QED
  BY <1>1 DEF Armed, Slot

LEMMA AnchorActionType ==
  ASSUME NEW snap, NEW kind \in Kind, NEW proposed
  PROVE  /\ AnchorAction(snap, kind, proposed)[1] \in {"skip", "reanchor", "clamp"}
         /\ AnchorAction(snap, kind, proposed)[2] \in Kind \cup {"fallback", "cold_start"}
         /\ proposed = NULL => AnchorAction(snap, kind, proposed)[1] = "skip"
<1>1. Effective(snap, kind) \in Kind \cup {"fallback"}
  BY DEF Effective
<1> QED
  BY <1>1 DEF AnchorAction

\* The burn has a deadline, in the future or now.
LEMMA BurnMinutesType ==
  ASSUME now \in Nat, NEW reset \in Time, NEW anchor \in Time
  PROVE  BurnMinutes(reset, anchor) \in Time
<1> DEFINE left == IF anchor # NULL /\ anchor > now THEN {anchor - now} ELSE {}
           own == IF reset = NULL THEN {} ELSE {reset}
<1>1. own \cup left \subseteq Nat
  BY DEF Time
<1>2. ASSUME own \cup left # {}
      PROVE  Least(own \cup left) \in own \cup left
  <2>1. \E x \in own \cup left : \A y \in own \cup left : x <= y
    <3>1. CASE own = {}
      BY <1>1, <1>2, <3>1
    <3>2. CASE left = {}
      BY <1>1, <1>2, <3>2
    <3>3. CASE own = {reset} /\ left = {anchor - now}
      BY <1>1, <3>3
    <3> QED
      BY <3>1, <3>2, <3>3
  <2> QED
    BY <2>1 DEF Least
<1>3. BurnMinutes(reset, anchor) =
        IF own \cup left = {} THEN NULL ELSE Least(own \cup left)
  BY DEF BurnMinutes
<1> HIDE DEF own, left
<1> QED
  BY <1>1, <1>2, <1>3, NullIsNoTime

-----------------------------------------------------------------------------
(* Types: the usage check *)

\* Reloading the persisted anchor, by a start or by run-once.
LEMMA LoadPersistedType ==
  ASSUME TypeOK, LoadPersisted
  PROVE  /\ rs' \in StateRecord
         /\ rs'.state = rs.state /\ rs'.burnUntil = rs.burnUntil
         /\ \A e \in sched' : e[1] \in Nat /\ e[2] \in Slot
<1>1. disk.nextResetAt \in Time /\ disk.postResetDone \in BOOLEAN
  BY DEF TypeOK
<1>2. rs' = [rs EXCEPT !.nextResetAt = disk.nextResetAt,
                       !.postResetDone = disk.postResetDone]
  BY DEF LoadPersisted
<1>3. rs' \in StateRecord /\ rs'.state = rs.state /\ rs'.burnUntil = rs.burnUntil
  BY <1>1, <1>2 DEF TypeOK, StateRecord
<1>4. disk.nextResetAt # NULL => disk.nextResetAt \in Nat
  BY <1>1 DEF Time
<1>5. sched' = IF disk.nextResetAt = NULL THEN sched ELSE Armed(disk.nextResetAt)
  BY DEF LoadPersisted
<1> QED
  BY <1>3, <1>4, <1>5, ArmedType DEF TypeOK

\* The loop goes on by the result; every other caller is left alone.
LEMMA ReturnType ==
  ASSUME TypeInv, NEW a \in Checker, NEW result \in BOOLEAN, Return(a, result)
  PROVE  /\ LoopOK' /\ loop'.snap \in StateRecord
         /\ chk' \in [Checker -> CheckRecord]
         /\ \A b \in Checker : CheckOK(chk'[b])
<1>1. chk' = [chk EXCEPT ![a] = NoCheck]
  BY DEF Return
<1>2. CASE a = "loop"
  <2> DEFINE l == IF result THEN loop.onTrue ELSE loop.onFalse
  <2>1. l \in {"top", "requeue", "burn"} /\ LoopGoto(l)
    BY <1>2 DEF Return, TypeInv, LoopOK
  <2>2. l = "requeue" => loop.entry[1] \in Nat /\ loop.entry[2] \in Slot
    BY DEF TypeInv, LoopOK
  <2>3. l \in LoopPc /\ l \notin {"wantExec", "select"}
    BY <2>1 DEF LoopPc
  <2> HIDE DEF l
  <2>4. LoopOK' /\ loop'.snap \in StateRecord
    BY <2>1, <2>2, <2>3, GotoOK DEF TypeInv
  <2> QED
    BY <1>1, <2>4, FreshCheck, OneCheck DEF TypeInv
<1>3. CASE a # "loop"
  <2>1. UNCHANGED loop
    BY <1>3 DEF Return
  <2>2. LoopOK' /\ loop'.snap \in StateRecord
    BY <2>1 DEF TypeInv, TypeOK, LoopOK
  <2> QED
    BY <1>1, <2>2, FreshCheck, OneCheck DEF TypeInv
<1> QED
  BY <1>2, <1>3

\* TypeOK without what the loop and the checks change.
LEMMA TypesFrom ==
  ASSUME now' \in Nat, rs' \in StateRecord,
         rs'.state = "burning" <=> rs'.burnUntil # NULL,
         \A e \in sched' : e[1] \in Nat /\ e[2] \in Slot,
         wake' \in BOOLEAN, checkLock' \in Checker \cup {NULL},
         execLock' \in WebRun \cup {"loop", NULL},
         disk' \in [nextResetAt : Time, postResetDone : BOOLEAN],
         LoopOK', loop'.snap \in StateRecord,
         chk' \in [Checker -> CheckRecord], \A a \in Checker : CheckOK(chk'[a]),
         web' \in [WebRun -> {"idle", "running"}], ready' \in Nat, session' \in Nat
  PROVE  TypeInv'
<1>1. \A a \in Checker : chk'[a].kind \in Kind /\ chk'[a].proposed \in Time
  BY DEF CheckRecord
<1> QED
  BY <1>1 DEF TypeInv, TypeOK

LEMMA TryType == ASSUME TypeInv, NEW a \in Checker, Try(a) PROVE TypeInv'
<1>1. CASE checkLock = NULL
  <2> DEFINE c == [chk[a] EXCEPT !.pc = "fetch", !.since = now]
  <2>1. chk' = [chk EXCEPT ![a] = c] /\ UNCHANGED loop /\ checkLock' = a
    BY <1>1 DEF Try, TypeInv
  <2>2. chk[a] \in CheckRecord /\ CheckOK(chk[a]) /\ chk[a].pc = "try" /\ now \in Nat
    BY DEF TypeInv, TypeOK, Try
  <2>3. CheckOK(c)
    BY <2>2 DEF CheckOK, CheckRecord
  <2> HIDE DEF c
  <2>4. chk' \in [Checker -> CheckRecord] /\ \A b \in Checker : CheckOK(chk'[b])
    BY <2>1, <2>3, OneCheck DEF TypeInv
  <2>5. LoopOK' /\ loop'.snap \in StateRecord
    BY <2>1 DEF TypeInv, TypeOK, LoopOK
  <2> QED
    BY <2>1, <2>4, <2>5, TypesFrom DEF Try, TypeInv, TypeOK
<1>2. CASE checkLock # NULL
  <2>1. Return(a, FALSE) /\ UNCHANGED checkLock
    BY <1>2 DEF Try
  <2> QED
    BY <2>1, ReturnType, TypesFrom DEF Try, TypeInv, TypeOK
<1> QED
  BY <1>1, <1>2

LEMMA CrashedType == ASSUME TypeInv, NEW a \in Checker, Crashed(a) PROVE TypeInv'
<1> DEFINE c == [chk[a] EXCEPT !.pc = "apply", !.crashed = TRUE]
<1>1. chk' = [chk EXCEPT ![a] = c]
  BY DEF Crashed, TypeInv
<1>2. chk[a] \in CheckRecord /\ CheckOK(chk[a]) /\ chk[a].pc = "fetch"
  BY DEF TypeInv, Crashed
<1>3. CheckOK(c)
  BY <1>2 DEF CheckOK, CheckRecord
<1> HIDE DEF c
<1>4. chk' \in [Checker -> CheckRecord] /\ \A b \in Checker : CheckOK(chk'[b])
  BY <1>1, <1>3, OneCheck DEF TypeInv
<1>5. LoopOK' /\ loop'.snap \in StateRecord
  BY DEF Crashed, TypeInv, TypeOK, LoopOK
<1> QED
  BY <1>4, <1>5, TypesFrom DEF Crashed, TypeInv, TypeOK

\* A decision is a well-formed check, and leaves an active burn alone.
LEMMA DecidedOK ==
  ASSUME TypeInv, NEW kind \in Kind, NEW reset \in Time, NEW plenty \in BOOLEAN
  PROVE  /\ CheckOK(Decided(kind, reset, plenty))
         /\ InActiveBurn(rs) => Decided(kind, reset, plenty).burn = "keep"
<1> DEFINE proposed == IF reset = NULL THEN NULL ELSE now + reset
           act == AnchorAction(rs, kind, proposed)
           eff == BurnMinutes(reset, IF act[1] = "clamp" THEN NULL
                                     ELSE rs.nextResetAt)
           burns == eff # NULL /\ reset # NULL /\ plenty /\ eff < BurnWindow
           verdict == BurnVerdict(rs, burns)
           until == IF burns THEN now + eff ELSE NULL
           c == [pc |-> "apply", kind |-> kind, since |-> 0, reset |-> reset,
                 proposed |-> proposed, action |-> act[1], effective |-> act[2],
                 crashed |-> FALSE, burn |-> verdict, burnUntil |-> until]
<1>1. Decided(kind, reset, plenty) = c
  BY DEF Decided
<1>2. now \in Nat
  BY DEF TypeInv, TypeOK
<1>3. proposed \in Time
  BY <1>2, NullIsNoTime DEF Time
<1>4. /\ act[1] \in {"skip", "reanchor", "clamp"}
      /\ act[2] \in Kind \cup {"fallback", "cold_start"}
      /\ proposed = NULL => act[1] = "skip"
  BY AnchorActionType
<1>5. eff \in Time
  <2>1. rs.nextResetAt \in Time
    BY DEF TypeInv, TypeOK, StateRecord
  <2> HIDE DEF act
  <2> QED
    BY <1>2, <2>1, BurnMinutesType, NullIsNoTime
<1>6. /\ verdict \in {"keep", "burning", "chilling"}
      /\ verdict # "keep" => (verdict = "burning" <=> burns)
      /\ InActiveBurn(rs) => verdict = "keep"
  BY DEF BurnVerdict
<1> HIDE DEF act, eff, proposed
<1>7. until \in Time /\ (burns <=> until # NULL)
  BY <1>2, <1>5, NullIsNoTime DEF Time
<1> HIDE DEF burns, verdict, until
<1>8. CheckOK(c)
  BY <1>2, <1>3, <1>4, <1>6, <1>7 DEF CheckOK, CheckRecord
<1> QED
  BY <1>1, <1>6, <1>8

LEMMA DecideType == ASSUME TypeInv, NEW a \in Checker, Decide(a) PROVE TypeInv'
<1>1. Cycle \in Nat
  BY RunnerAssumption
<1>2. PICK reset \in {NULL} \cup 0..(Cycle + Cycle), plenty \in BOOLEAN :
        /\ Fetched(reset)
        /\ chk' = [chk EXCEPT ![a] = Decided(chk[a].kind, reset, plenty)]
        /\ UNCHANGED <<now, rs, sched, wake, checkLock, execLock, disk, loop, web, ready>>
  BY Zenon DEF Decide
<1>3. CheckOK(Decided(chk[a].kind, reset, plenty))
  <2>1. chk[a].kind \in Kind /\ reset \in Time
    BY <1>1, NullIsNoTime DEF TypeInv, CheckRecord, Time
  <2> QED
    BY <2>1, DecidedOK
<1>4. chk' \in [Checker -> CheckRecord] /\ \A b \in Checker : CheckOK(chk'[b])
  BY <1>2, <1>3, OneCheck DEF TypeInv
<1>5. LoopOK' /\ loop'.snap \in StateRecord
  BY <1>2 DEF TypeInv, TypeOK, LoopOK
<1>6. session' \in Nat
  BY <1>1, <1>2 DEF Fetched, TypeInv, TypeOK
<1> QED
  BY <1>2, <1>4, <1>5, <1>6, TypesFrom DEF TypeInv, TypeOK

LEMMA ApplyType == ASSUME TypeInv, NEW a \in Checker, Apply(a) PROVE TypeInv'
<1> DEFINE c == chk[a]
           fields == [rs EXCEPT !.lastCheckAt = now,
                        !.resetIn = IF c.crashed THEN @ ELSE c.reset,
                        !.failed = c.crashed,
                        !.state = IF c.burn = "keep" THEN @ ELSE c.burn,
                        !.burnUntil = IF c.burn = "keep" THEN @ ELSE c.burnUntil]
<1>1. /\ \/ rs' = fields /\ UNCHANGED <<sched, disk>>
         \/ c.action # "skip" /\ SetAnchor(fields, c.proposed, c.effective)
      /\ wake' = TRUE /\ checkLock' = NULL /\ Return(a, TRUE)
      /\ UNCHANGED <<now, execLock, web, ready, session>>
  BY Zenon DEF Apply, Counters
<1>2. CheckOK(c) /\ c \in CheckRecord /\ rs \in StateRecord /\ now \in Nat
  BY DEF TypeInv, TypeOK
<1>3. /\ fields \in StateRecord
      /\ fields.state = "burning" <=> fields.burnUntil # NULL
  <2>1. rs.state = "burning" <=> rs.burnUntil # NULL
    BY DEF TypeInv, TypeOK
  <2> DEFINE reset == IF c.crashed THEN rs.resetIn ELSE c.reset
  <2>4. reset \in Time /\ c.crashed \in BOOLEAN
    BY <1>2 DEF StateRecord, CheckRecord
  <2>5. fields = [rs EXCEPT !.lastCheckAt = now, !.resetIn = reset, !.failed = c.crashed,
                    !.state = IF c.burn = "keep" THEN @ ELSE c.burn,
                    !.burnUntil = IF c.burn = "keep" THEN @ ELSE c.burnUntil]
    OBVIOUS
  <2> HIDE DEF reset, fields
  <2>2. CASE c.burn = "keep"
    BY <1>2, <2>1, <2>2, <2>4, <2>5, NullIsNoTime DEF StateRecord
  <2>3. CASE c.burn # "keep"
    BY <1>2, <2>3, <2>4, <2>5, NullIsNoTime DEF StateRecord, CheckOK, CheckRecord
  <2> QED
    BY <2>2, <2>3
<1> HIDE DEF fields
<1>4. CASE rs' = fields /\ UNCHANGED <<sched, disk>>
  BY <1>1, <1>3, <1>4, ReturnType, TypesFrom DEF TypeInv, TypeOK
<1>5. CASE c.action # "skip" /\ SetAnchor(fields, c.proposed, c.effective)
  <2>1. c.proposed \in Nat
    BY <1>2, <1>5 DEF CheckOK, CheckRecord, Time
  <2>2. \A e \in sched' : e[1] \in Nat /\ e[2] \in Slot
    BY <1>2, <1>5, <2>1, ArmedType DEF SetAnchor
  <2>3. (c.effective = "post_reset") \in BOOLEAN
    OBVIOUS
  <2>4. disk' \in [nextResetAt : Time, postResetDone : BOOLEAN]
    BY <1>5, <2>1, <2>3, NullIsNoTime DEF SetAnchor
  <2>5. /\ rs' \in StateRecord
        /\ rs'.state = "burning" <=> rs'.burnUntil # NULL
    BY <1>3, <1>5, <2>1, <2>3, NullIsNoTime DEF SetAnchor, StateRecord
  <2> QED
    BY <1>1, <2>2, <2>4, <2>5, ReturnType, TypesFrom DEF TypeInv, TypeOK
<1> QED
  BY <1>1, <1>4, <1>5

-----------------------------------------------------------------------------
(* Types: the loop and everybody else *)

\* A step that leaves the checks alone and moves the loop.
LEMMA LoopMoves ==
  ASSUME TypeInv, LoopOK', loop'.snap \in StateRecord, UNCHANGED <<now, disk, chk, web, session>>,
         rs' \in StateRecord, rs'.state = "burning" <=> rs'.burnUntil # NULL,
         \A e \in sched' : e[1] \in Nat /\ e[2] \in Slot,
         wake' \in BOOLEAN, UNCHANGED checkLock,
         execLock' \in WebRun \cup {"loop", NULL}, ready' \in Nat
  PROVE  TypeInv'
  BY TypesFrom DEF TypeInv, TypeOK

LEMMA LoopLoadType == ASSUME TypeInv, LoopLoad PROVE TypeInv'
<1>1. LoopCheck("hourly", NULL, "top", "top") /\ LoadPersisted
  BY DEF LoopLoad
<1>2. "hourly" \in Kind
  BY DEF Kind
<1>3. /\ LoopOK' /\ loop'.snap \in StateRecord
      /\ chk' \in [Checker -> CheckRecord]
      /\ \A a \in Checker : CheckOK(chk'[a])
  BY <1>1, <1>2, LoopCheckOK
<1>4. rs'.state = "burning" <=> rs'.burnUntil # NULL
  BY <1>1, LoadPersistedType DEF TypeInv, TypeOK
<1> QED
  BY <1>1, <1>3, <1>4, LoadPersistedType, TypesFrom DEF LoopLoad, TypeInv, TypeOK

LEMMA LoopTopType == ASSUME TypeInv, LoopTop PROVE TypeInv'
<1>1. LoopOK' /\ loop'.snap \in StateRecord
  BY GotoOK DEF LoopTop, TypeInv, LoopPc
<1> QED
  BY <1>1, LoopMoves DEF LoopTop, TypeInv, TypeOK

LEMMA LoopSnapType == ASSUME TypeInv, LoopSnap PROVE TypeInv'
<1>1. loop' = [pc |-> "slots", t |-> now, snap |-> rs, entry |-> loop.entry,
               until |-> loop.until, onTrue |-> loop.onTrue, onFalse |-> loop.onFalse]
  BY DEF LoopSnap, TypeInv, LoopOK
<1>2. LoopOK' /\ loop'.snap \in StateRecord
  BY <1>1 DEF TypeInv, TypeOK, LoopOK, LoopPc
<1> QED
  BY <1>2, LoopMoves DEF LoopSnap, TypeInv, TypeOK

LEMMA LoopSlotsType == ASSUME TypeInv, LoopSlots PROVE TypeInv'
<1>1. ASSUME NEW e \in sched, sched' = sched \ {e},
             LoopCheck(e[2], e, "top", "requeue")
      PROVE  TypeInv'
  <2>1. e[1] \in Nat /\ e[2] \in Slot /\ e[2] \in Kind
    BY DEF TypeInv, TypeOK, Kind
  <2>2. /\ LoopOK' /\ loop'.snap \in StateRecord
        /\ chk' \in [Checker -> CheckRecord]
        /\ \A a \in Checker : CheckOK(chk'[a])
    BY <1>1, <2>1, LoopCheckOK
  <2> QED
    BY <1>1, <2>2, TypesFrom DEF LoopSlots, TypeInv, TypeOK
<1>2. CASE LoopGoto("hourly") /\ UNCHANGED <<sched, chk>>
  <2>1. LoopOK' /\ loop'.snap \in StateRecord
    BY <1>2, GotoOK DEF TypeInv, LoopPc
  <2> QED
    BY <1>2, <2>1, LoopMoves DEF LoopSlots, TypeInv, TypeOK
<1> QED
  BY <1>1, <1>2 DEF LoopSlots

LEMMA LoopRequeueType == ASSUME TypeInv, LoopRequeue PROVE TypeInv'
<1>1. loop.pc = "requeue" /\ LoopGoto("top")
  BY DEF LoopRequeue
<1>2. loop.entry[1] \in Nat /\ loop.entry[2] \in Slot
  BY <1>1 DEF TypeInv, LoopOK
<1>3. Floor \in Nat /\ now \in Nat
  BY RunnerAssumption DEF TypeInv, TypeOK
<1>4. AtLeast(now + Floor, loop.entry[1]) \in Nat
  BY <1>2, <1>3 DEF AtLeast
<1>5. \A e \in sched' : e[1] \in Nat /\ e[2] \in Slot
  BY <1>2, <1>4 DEF LoopRequeue, TypeInv, TypeOK
<1>6. LoopOK' /\ loop'.snap \in StateRecord
  BY <1>1, GotoOK DEF TypeInv, LoopPc
<1> QED
  BY <1>5, <1>6, LoopMoves DEF LoopRequeue, TypeInv, TypeOK

LEMMA LoopHourlyType == ASSUME TypeInv, LoopHourly PROVE TypeInv'
<1>1. CASE /\ rs' = [rs EXCEPT !.lastCheckAt = loop.t] /\ wake' = TRUE
           /\ LoopGoto("top") /\ UNCHANGED chk
  <2>1. loop.t \in Time
    BY NullIsNoTime DEF TypeInv, LoopOK
  <2>2. /\ rs' \in StateRecord
        /\ rs'.state = "burning" <=> rs'.burnUntil # NULL
    BY <1>1, <2>1 DEF TypeInv, TypeOK, StateRecord
  <2>3. LoopOK' /\ loop'.snap \in StateRecord
    BY <1>1, GotoOK DEF TypeInv, LoopPc
  <2> QED
    BY <1>1, <2>2, <2>3, LoopMoves DEF LoopHourly, TypeInv, TypeOK
<1>2. CASE LoopCheck("hourly", NULL, "top", "burn") /\ UNCHANGED <<rs, wake>>
  <2>1. "hourly" \in Kind
    BY DEF Kind
  <2>2. /\ LoopOK' /\ loop'.snap \in StateRecord
        /\ chk' \in [Checker -> CheckRecord]
        /\ \A a \in Checker : CheckOK(chk'[a])
    BY <1>2, <2>1, LoopCheckOK
  <2> QED
    BY <1>2, <2>2, TypesFrom DEF LoopHourly, TypeInv, TypeOK
<1>3. CASE LoopGoto("burn") /\ UNCHANGED <<rs, wake, chk>>
  <2>1. LoopOK' /\ loop'.snap \in StateRecord
    BY <1>3, GotoOK DEF TypeInv, LoopPc
  <2> QED
    BY <1>3, <2>1, LoopMoves DEF LoopHourly, TypeInv, TypeOK
<1> QED
  BY <1>1, <1>2, <1>3 DEF LoopHourly

LEMMA LoopBurnType == ASSUME TypeInv, LoopBurn PROVE TypeInv'
<1>1. CASE LoopGoto("sleep") /\ UNCHANGED <<rs, wake>>
  <2>1. LoopOK' /\ loop'.snap \in StateRecord
    BY <1>1, GotoOK DEF TypeInv, LoopPc
  <2> QED
    BY <1>1, <2>1, LoopMoves DEF LoopBurn, TypeInv, TypeOK
<1>2. CASE /\ rs' = [rs EXCEPT !.state = "chilling", !.burnUntil = NULL]
           /\ wake' = TRUE /\ LoopGoto("top")
  <2>1. /\ rs' \in StateRecord
        /\ rs'.state = "burning" <=> rs'.burnUntil # NULL
    BY <1>2, NullIsNoTime DEF TypeInv, TypeOK, StateRecord
  <2>2. LoopOK' /\ loop'.snap \in StateRecord
    BY <1>2, GotoOK DEF TypeInv, LoopPc
  <2> QED
    BY <1>2, <2>1, <2>2, LoopMoves DEF LoopBurn, TypeInv, TypeOK
<1>3. CASE /\ loop.snap.state = "burning" /\ LoopGoto("wantExec")
           /\ UNCHANGED <<rs, wake>>
  <2>1. LoopOK' /\ loop'.snap \in StateRecord
    BY <1>3, GotoOK DEF TypeInv, LoopPc
  <2> QED
    BY <1>3, <2>1, LoopMoves DEF LoopBurn, TypeInv, TypeOK
<1> QED
  BY <1>1, <1>2, <1>3 DEF LoopBurn

LEMMA LoopAcquireType == ASSUME TypeInv, LoopAcquire PROVE TypeInv'
<1>1. loop.pc = "wantExec" /\ LoopGoto("select")
  BY DEF LoopAcquire
<1>2. LoopOK' /\ loop'.snap \in StateRecord
  BY <1>1, GotoOK DEF TypeInv, LoopPc, LoopOK
<1> QED
  BY <1>2, LoopMoves DEF LoopAcquire, TypeInv, TypeOK

LEMMA LoopSelectType == ASSUME TypeInv, LoopSelect PROVE TypeInv'
<1>1. LoopGoto("sleep") \/ LoopGoto("execute")
  BY DEF LoopSelect
<1>2. LoopOK' /\ loop'.snap \in StateRecord
  BY <1>1, GotoOK DEF TypeInv, LoopPc
<1>3. execLock' \in {execLock, NULL} /\ ready' \in {ready, ready - 1}
      /\ (ready' # ready => ready # 0)
  BY DEF LoopSelect, TypeInv, TypeOK
<1>4. ready' \in Nat /\ execLock' \in WebRun \cup {"loop", NULL}
  BY <1>3 DEF TypeInv, TypeOK
<1> QED
  BY <1>2, <1>4, LoopMoves DEF LoopSelect, TypeInv, TypeOK

LEMMA LoopFinishType == ASSUME TypeInv, LoopFinish PROVE TypeInv'
<1>1. CASE LoopCheck("hourly", NULL, "top", "top")
  <2>1. "hourly" \in Kind
    BY DEF Kind
  <2>2. /\ LoopOK' /\ loop'.snap \in StateRecord
        /\ chk' \in [Checker -> CheckRecord]
        /\ \A a \in Checker : CheckOK(chk'[a])
    BY <1>1, <2>1, LoopCheckOK
  <2> QED
    BY <2>2, TypesFrom DEF LoopFinish, TypeInv, TypeOK
<1>2. CASE LoopGoto("top") /\ UNCHANGED chk
  <2>1. LoopOK' /\ loop'.snap \in StateRecord
    BY <1>2, GotoOK DEF TypeInv, LoopPc
  <2> QED
    BY <1>2, <2>1, LoopMoves DEF LoopFinish, TypeInv, TypeOK
<1> QED
  BY <1>1, <1>2 DEF LoopFinish

LEMMA LoopSleepType == ASSUME TypeInv, LoopSleep PROVE TypeInv'
<1> DEFINE until == NextWakeup(loop)
<1>1. loop' = [loop EXCEPT !.pc = "wait", !.until = until]
  BY DEF LoopSleep
<1> HIDE DEF until
<1>2. loop' = [pc |-> "wait", t |-> loop.t, snap |-> loop.snap, entry |-> loop.entry,
               until |-> until, onTrue |-> loop.onTrue, onFalse |-> loop.onFalse]
  BY <1>1 DEF TypeInv, LoopOK
<1>3. LoopOK' /\ loop'.snap \in StateRecord
  BY <1>2 DEF TypeInv, LoopOK, LoopPc
<1> QED
  BY <1>3, LoopMoves DEF LoopSleep, TypeInv, TypeOK

LEMMA LoopWakeType == ASSUME TypeInv, LoopWake PROVE TypeInv'
<1>1. LoopGoto("top")
  BY DEF LoopWake
<1>2. LoopOK' /\ loop'.snap \in StateRecord
  BY <1>1, GotoOK DEF TypeInv, LoopPc
<1> QED
  BY <1>2, LoopMoves DEF LoopWake, TypeInv, TypeOK

LEMMA LoopStepType == ASSUME TypeInv, LoopStep PROVE TypeInv'
  BY LoopLoadType, LoopTopType, LoopSnapType, LoopSlotsType, LoopRequeueType,
     LoopHourlyType, LoopBurnType, LoopAcquireType, LoopSelectType, LoopFinishType,
     LoopSleepType, LoopWakeType
  DEF LoopStep

\* A step of somebody else leaves the loop and the checks alone.
LEMMA OthersMove ==
  ASSUME TypeInv, UNCHANGED <<loop, chk, checkLock, disk>>,
         now' \in Nat, rs' \in StateRecord,
         rs'.state = "burning" <=> rs'.burnUntil # NULL,
         \A e \in sched' : e[1] \in Nat /\ e[2] \in Slot,
         wake' \in BOOLEAN, execLock' \in WebRun \cup {"loop", NULL},
         web' \in [WebRun -> {"idle", "running"}], ready' \in Nat, session' \in Nat
  PROVE  TypeInv'
<1>1. LoopOK' /\ loop'.snap \in StateRecord
  BY DEF TypeInv, TypeOK, LoopOK
<1> QED
  BY <1>1, TypesFrom DEF TypeInv, TypeOK

LEMMA ManualCheckType ==
  ASSUME TypeInv, NEW a \in WebCheck, ManualCheck(a)
  PROVE  TypeInv'
<1> DEFINE c == [NoCheck EXCEPT !.pc = "try", !.kind = "manual"]
<1>1. chk' = [chk EXCEPT ![a] = c] /\ a \in Checker
  BY DEF ManualCheck, Checker
<1>2. CheckOK(c)
  <2>1. "manual" \in Kind
    BY DEF Kind
  <2> QED
    BY <2>1, FreshCheck
<1> HIDE DEF c
<1>3. chk' \in [Checker -> CheckRecord] /\ \A b \in Checker : CheckOK(chk'[b])
  BY <1>1, <1>2, OneCheck DEF TypeInv
<1>4. LoopOK' /\ loop'.snap \in StateRecord
  BY DEF ManualCheck, TypeInv, TypeOK, LoopOK
<1> QED
  BY <1>3, <1>4, TypesFrom DEF ManualCheck, TypeInv, TypeOK

LEMMA WebType ==
  ASSUME TypeInv, NEW w \in WebRun, WebStart(w) \/ WebFinish(w)
  PROVE  TypeInv'
<1>1. CASE WebStart(w)
  <2>1. /\ rs' \in StateRecord
        /\ rs'.state = "burning" <=> rs'.burnUntil # NULL
        /\ \A e \in sched' : e[1] \in Nat /\ e[2] \in Slot
    <3>1. CASE LoadPersisted
      BY <3>1, LoadPersistedType DEF TypeInv, TypeOK
    <3>2. CASE UNCHANGED <<rs, sched>>
      BY <3>2 DEF TypeInv, TypeOK
    <3> QED
      BY <1>1, <3>1, <3>2 DEF WebStart
  <2>3. ready' \in Nat
    BY <1>1 DEF WebStart
  <2> QED
    BY <1>1, <2>1, <2>3, OthersMove DEF WebStart, TypeInv, TypeOK
<1>2. CASE WebFinish(w)
  BY <1>2, OthersMove DEF WebFinish, TypeInv, TypeOK
<1> QED
  BY <1>1, <1>2

LEMMA WorldType ==
  ASSUME TypeInv, AddTask \/ QueueChanges \/ UseClaude \/ Tick
  PROVE  TypeInv'
<1>1. Cycle \in Nat
  BY RunnerAssumption
<1>2. CASE AddTask \/ QueueChanges
  <2>1. MaxReady \in Nat
    BY RunnerAssumption
  <2>2. ready' \in Nat
    BY <1>2, <2>1 DEF AddTask, QueueChanges, TypeInv, TypeOK
  <2>3. /\ UNCHANGED <<now, rs, sched, checkLock, execLock, disk, loop, chk, web, session>>
        /\ wake' \in {wake, TRUE}
    BY <1>2, Zenon DEF AddTask, QueueChanges
  <2> QED
    BY <2>2, <2>3, OthersMove DEF TypeInv, TypeOK
<1>3. CASE UseClaude
  BY <1>1, <1>3, OthersMove DEF UseClaude, TypeInv, TypeOK
<1>4. CASE Tick
  BY <1>4, OthersMove DEF Tick, TypeInv, TypeOK
<1> QED
  BY <1>2, <1>3, <1>4

LEMMA RestartType == ASSUME TypeInv, Restart PROVE TypeInv'
<1>1. /\ ColdState \in StateRecord
      /\ ColdState.state # "burning" /\ ColdState.burnUntil = NULL
  BY NullIsNoTime DEF ColdState, StateRecord
<1>2. LoopOK' /\ loop'.snap \in StateRecord
  BY <1>1 DEF Restart, LoopOK, NewLoop, LoopPc
<1>3. chk' \in [Checker -> CheckRecord] /\ \A a \in Checker : CheckOK(chk'[a])
  <2>1. CheckOK(NoCheck) /\ NoCheck \in CheckRecord
    BY FreshCheck DEF CheckOK
  <2> QED
    BY <2>1 DEF Restart
<1> QED
  BY <1>1, <1>2, <1>3, TypesFrom DEF Restart, TypeInv, TypeOK

LEMMA TypeNext == ASSUME TypeInv, [Next]_vars PROVE TypeInv'
<1>1. CASE UNCHANGED vars
  BY <1>1, OthersMove DEF vars, TypeInv, TypeOK
<1>2. ASSUME NEW a \in Checker, CheckStep(a) PROVE TypeInv'
  BY <1>2, TryType, DecideType, CrashedType, ApplyType DEF CheckStep
<1> QED
  BY <1>1, <1>2, LoopStepType, ManualCheckType, WebType, WorldType, RestartType
  DEF Next

LEMMA TypeInit == ASSUME Init PROVE TypeInv
<1>1. /\ ColdState \in StateRecord
      /\ ColdState.state # "burning" /\ ColdState.burnUntil = NULL
  BY NullIsNoTime DEF ColdState, StateRecord
<1>2. LoopOK /\ loop.snap \in StateRecord
  BY <1>1 DEF Init, LoopOK, NewLoop, LoopPc
<1>3. CheckOK(NoCheck) /\ NoCheck \in CheckRecord
  BY FreshCheck DEF CheckOK
<1>4. chk \in [Checker -> CheckRecord] /\ \A a \in Checker : CheckOK(chk[a])
  BY <1>3 DEF Init
<1>5. disk \in [nextResetAt : Time, postResetDone : BOOLEAN] /\ session \in Nat
      /\ ready \in Nat
  BY NullIsNoTime, RunnerAssumption DEF Init
<1>6. \A a \in Checker : chk[a].kind \in Kind /\ chk[a].proposed \in Time
  BY <1>4 DEF CheckRecord
<1> QED
  BY <1>1, <1>2, <1>4, <1>5, <1>6 DEF Init, TypeInv, TypeOK

\* Every variable of the runner keeps its type: the persisted anchor and the
\* armed slots are times, a check that re-anchors has one, a burn a deadline.
THEOREM TypeCorrect == Spec => []TypeOK
<1>1. Spec => []TypeInv
  BY TypeInit, TypeNext, PTL DEF Spec
<1> QED
  BY <1>1, PTL DEF TypeInv

-----------------------------------------------------------------------------
(* Locks: whoever executes or checks holds the lock for it. *)

Owners ==
  /\ loop.pc \in {"select", "execute"} => execLock = "loop"
  /\ \A w \in WebRun : web[w] = "running" => execLock = w
  /\ \A a \in Checker : chk[a].pc \in {"fetch", "apply"} => checkLock = a

\* The names of the holders are different.
LEMMA Names ==
  /\ NULL \notin WebRun \cup Checker /\ "loop" \notin WebRun /\ "loop" \in Checker
  /\ NULL # "loop"
  BY RunnerAssumption DEF Checker

\* Where a loop step goes.
LEMMA GotoPc ==
  ASSUME LoopOK, NEW l, LoopGoto(l)
  PROVE  loop'.pc = l
  BY DEF LoopGoto, NewLoop, LoopOK

\* The loop's call to a check is no fetch yet.
LEMMA LoopCheckPc ==
  ASSUME TypeInv, NEW k, NEW e, NEW f, LoopCheck(k, e, "top", f)
  PROVE  /\ loop'.pc = "checking"
         /\ chk'["loop"].pc = "try"
         /\ \A a \in Checker \ {"loop"} : chk'[a] = chk[a]
<1>1. chk' = [chk EXCEPT !["loop"] = [NoCheck EXCEPT !.pc = "try", !.kind = k]]
  BY DEF LoopCheck
<1>2. [NoCheck EXCEPT !.pc = "try", !.kind = k].pc = "try"
  BY DEF NoCheck
<1>3. loop'.pc = "checking"
  BY DEF LoopCheck, TypeInv, LoopOK
<1> QED
  BY <1>1, <1>2, <1>3, Names DEF TypeInv

\* A check that returns: its caller is idle, and the loop runs no task.
LEMMA ReturnPc ==
  ASSUME TypeInv, NEW a \in Checker, NEW result \in BOOLEAN, Return(a, result)
  PROVE  /\ chk'[a].pc = "idle"
         /\ \A b \in Checker \ {a} : chk'[b] = chk[b]
         /\ loop' = loop \/ loop'.pc \in {"top", "requeue", "burn"}
<1>1. chk'[a].pc = "idle" /\ \A b \in Checker \ {a} : chk'[b] = chk[b]
  BY DEF Return, TypeInv, NoCheck
<1>2. CASE a = "loop"
  <2> DEFINE l == IF result THEN loop.onTrue ELSE loop.onFalse
  <2>1. l \in {"top", "requeue", "burn"} /\ LoopGoto(l)
    BY <1>2 DEF Return, TypeInv, LoopOK
  <2> HIDE DEF l
  <2> QED
    BY <1>1, <2>1, GotoPc DEF TypeInv
<1>3. CASE a # "loop"
  BY <1>1, <1>3 DEF Return
<1> QED
  BY <1>2, <1>3

LEMMA LoopStepOwners == ASSUME TypeInv, Owners, LoopStep PROVE Owners'
<1>1. ASSUME NEW k, NEW e, NEW f, LoopCheck(k, e, "top", f),
             UNCHANGED <<web, checkLock>>,
             execLock' = execLock \/ loop.pc = "execute"
      PROVE  Owners'
  BY <1>1, LoopCheckPc, Names DEF Owners
<1>2. ASSUME UNCHANGED <<chk, web, checkLock, execLock>>,
             loop'.pc \notin {"select", "execute"}
      PROVE  Owners'
  BY <1>2 DEF Owners
<1>3. CASE LoopLoad
  BY <1>1, <1>3 DEF LoopLoad
<1>4. CASE LoopTop \/ LoopRequeue \/ LoopBurn \/ LoopWake
  <2>1. loop'.pc \in {"snap", "top", "sleep", "wantExec"}
    BY <1>4, GotoPc DEF LoopTop, LoopRequeue, LoopBurn, LoopWake, TypeInv
  <2> QED
    BY <1>2, <1>4, <2>1 DEF LoopTop, LoopRequeue, LoopBurn, LoopWake
<1>5. CASE LoopSnap \/ LoopSleep
  <2>1. loop'.pc \in {"slots", "wait"}
    BY <1>5 DEF LoopSnap, LoopSleep, TypeInv, LoopOK
  <2> QED
    BY <1>2, <1>5, <2>1 DEF LoopSnap, LoopSleep
<1>6. CASE LoopSlots \/ LoopHourly
  <2>1. ASSUME NEW l \in {"hourly", "top", "burn"}, LoopGoto(l), UNCHANGED chk
        PROVE  Owners'
    <3>1. loop'.pc = l
      BY <2>1, GotoPc DEF TypeInv
    <3> QED
      BY <1>2, <1>6, <2>1, <3>1 DEF LoopSlots, LoopHourly
  <2> QED
    BY <1>1, <1>6, <2>1 DEF LoopSlots, LoopHourly
<1>7. CASE LoopAcquire
  <2>1. loop'.pc = "select" /\ execLock = NULL /\ execLock' = "loop"
    BY <1>7, GotoPc DEF LoopAcquire, TypeInv
  <2> QED
    BY <1>7, <2>1, Names DEF LoopAcquire, Owners
<1>8. CASE LoopSelect
  <2>1. \/ loop'.pc = "sleep" /\ execLock' = NULL
        \/ loop'.pc = "execute" /\ execLock' = execLock
    BY <1>8, GotoPc DEF LoopSelect, TypeInv
  <2>2. execLock = "loop"
    BY <1>8 DEF LoopSelect, Owners
  <2> QED
    BY <1>8, <2>1, <2>2, Names DEF LoopSelect, Owners
<1>9. CASE LoopFinish
  <2>1. execLock = "loop"
    BY <1>9 DEF LoopFinish, Owners
  <2>2. CASE LoopCheck("hourly", NULL, "top", "top")
    BY <1>1, <1>9, <2>2 DEF LoopFinish
  <2>3. CASE LoopGoto("top") /\ UNCHANGED chk
    <3>1. loop'.pc = "top"
      BY <2>3, GotoPc DEF TypeInv
    <3> QED
      BY <1>9, <2>1, <2>3, <3>1, Names DEF LoopFinish, Owners
  <2> QED
    BY <1>9, <2>2, <2>3 DEF LoopFinish
<1> QED
  BY <1>3, <1>4, <1>5, <1>6, <1>7, <1>8, <1>9 DEF LoopStep

LEMMA CheckStepOwners ==
  ASSUME TypeInv, Owners, NEW a \in Checker, CheckStep(a)
  PROVE  Owners'
<1>1. CASE Try(a) /\ checkLock = NULL
  <2>1. \A b \in Checker \ {a} : chk'[b] = chk[b]
    BY <1>1 DEF Try, TypeInv
  <2>2. checkLock' = a /\ UNCHANGED <<loop, web, execLock>>
    BY <1>1 DEF Try
  <2> QED
    BY <1>1, <2>1, <2>2, Names DEF Owners
<1>2. CASE Try(a) /\ checkLock # NULL
  <2>1. Return(a, FALSE) /\ UNCHANGED <<checkLock, web, execLock>>
    BY <1>2 DEF Try
  <2>2. /\ chk'[a].pc = "idle" /\ \A b \in Checker \ {a} : chk'[b] = chk[b]
        /\ loop' = loop \/ loop'.pc \in {"top", "requeue", "burn"}
    BY <2>1, ReturnPc
  <2> QED
    BY <2>1, <2>2 DEF Owners
<1>3. CASE Decide(a) \/ Crashed(a)
  <2>1. /\ \A b \in Checker \ {a} : chk'[b] = chk[b]
        /\ chk[a].pc = "fetch"
    <3>1. CASE Decide(a)
      BY <3>1, Zenon DEF Decide, TypeInv
    <3>2. CASE Crashed(a)
      BY <3>2 DEF Crashed, TypeInv
    <3> QED
      BY <1>3, <3>1, <3>2
  <2>2. UNCHANGED <<loop, web, execLock, checkLock>>
    BY <1>3, Zenon DEF Decide, Crashed
  <2> QED
    BY <2>1, <2>2 DEF Owners
<1>4. CASE Apply(a)
  <2>1. /\ Return(a, TRUE) /\ chk[a].pc = "apply" /\ checkLock' = NULL
        /\ UNCHANGED <<web, execLock>>
    BY <1>4, Zenon DEF Apply
  <2>2. /\ chk'[a].pc = "idle" /\ \A b \in Checker \ {a} : chk'[b] = chk[b]
        /\ loop' = loop \/ loop'.pc \in {"top", "requeue", "burn"}
    BY <2>1, ReturnPc
  <2>3. \A b \in Checker \ {a} : chk[b].pc \notin {"fetch", "apply"}
    BY <2>1 DEF Owners
  <2> QED
    BY <2>1, <2>2, <2>3, Names DEF Owners
<1> QED
  BY <1>1, <1>2, <1>3, <1>4 DEF CheckStep

LEMMA OwnersNext == ASSUME TypeInv, Owners, [Next]_vars PROVE Owners'
<1>1. CASE AddTask \/ QueueChanges \/ UseClaude \/ Tick \/ UNCHANGED vars
  BY <1>1 DEF AddTask, QueueChanges, UseClaude, Tick, vars, Owners
<1>2. ASSUME NEW a \in WebCheck, ManualCheck(a) PROVE Owners'
  <2>1. /\ chk'[a].pc = "try"
        /\ \A b \in Checker \ {a} : chk'[b] = chk[b]
    BY <1>2 DEF ManualCheck, TypeInv, Checker, NoCheck
  <2> QED
    BY <1>2, <2>1 DEF ManualCheck, Owners
<1>3. ASSUME NEW w \in WebRun, WebStart(w) PROVE Owners'
  <2>1. execLock = NULL /\ execLock' = w /\ UNCHANGED <<loop, chk, checkLock>>
    BY <1>3 DEF WebStart
  <2>2. \A v \in WebRun \ {w} : web'[v] = web[v]
    BY <1>3 DEF WebStart, TypeInv, TypeOK
  <2> QED
    BY <2>1, <2>2, Names DEF Owners
<1>4. ASSUME NEW w \in WebRun, WebFinish(w) PROVE Owners'
  <2>1. web[w] = "running" /\ UNCHANGED <<loop, chk, checkLock>>
    BY <1>4 DEF WebFinish
  <2>2. web'[w] = "idle" /\ \A v \in WebRun \ {w} : web'[v] = web[v]
    BY <1>4 DEF WebFinish, TypeInv, TypeOK
  <2> QED
    BY <2>1, <2>2, Names DEF Owners
<1>5. CASE Restart
  BY <1>5 DEF Restart, Owners, NewLoop, NoCheck
<1> QED
  BY <1>1, <1>2, <1>3, <1>4, <1>5, LoopStepOwners, CheckStepOwners DEF Next

LEMMA OwnersInit == Init => Owners
  BY DEF Init, Owners, NewLoop, NoCheck

\* "One task at a time": a queue task is executed by the loop or by one
\* dashboard worker, never by two of them (_execute_lock).
THEOREM TasksExclusive == Spec => []OneTaskAtATime
<1>1. Owners => OneTaskAtATime
  BY DEF Owners, OneTaskAtATime, Executing
<1> QED
  BY <1>1, TypeInit, TypeNext, OwnersInit, OwnersNext, PTL DEF Spec

\* "Concurrent checks coalesced": the loop and request threads never fetch,
\* kick or apply at the same time (_usage_check_lock).
THEOREM ChecksExclusive == Spec => []OneCheckAtATime
<1>1. Owners => OneCheckAtATime
  BY DEF Owners, OneCheckAtATime, Checking
<1> QED
  BY <1>1, TypeInit, TypeNext, OwnersInit, OwnersNext, PTL DEF Spec

-----------------------------------------------------------------------------
(* The burn window: what a check or the loop has seen of a burn holds when *)
(* it acts on it.                                                          *)

Window ==
  \* a check that has decided to change the state found no active burn, and
  \* there is none yet
  /\ \A a \in Checker : chk[a].burn # "keep" => ~InActiveBurn(rs)
  \* a burn the loop saw, and whose deadline is ahead, is the one in force
  /\ InActiveBurn(loop.snap) =>
       rs.state = "burning" /\ rs.burnUntil = loop.snap.burnUntil

\* Nobody opens a burn, closes one, or takes a new look.
LEMMA NothingDecided ==
  ASSUME Window, now' = now, rs'.state = rs.state, rs'.burnUntil = rs.burnUntil,
         \A a \in Checker : chk'[a].burn \in {"keep", chk[a].burn},
         loop'.snap \in {loop.snap, ColdState}
  PROVE  Window'
<1>1. ~InActiveBurn(ColdState)'
  BY DEF InActiveBurn, ColdState
<1>2. InActiveBurn(rs)' <=> InActiveBurn(rs)
  BY DEF InActiveBurn
<1>3. CASE loop'.snap = loop.snap
  BY <1>2, <1>3 DEF Window, InActiveBurn
<1>4. CASE loop'.snap = ColdState
  BY <1>2, <1>4 DEF Window, InActiveBurn, ColdState
<1> QED
  BY <1>3, <1>4

LEMMA GotoSnap ==
  ASSUME LoopOK, NEW l, LoopGoto(l)
  PROVE  loop'.snap \in {loop.snap, ColdState}
  BY DEF LoopGoto, NewLoop, LoopOK

LEMMA LoopCheckSnap ==
  ASSUME TypeInv, NEW k, NEW e, NEW f, LoopCheck(k, e, "top", f)
  PROVE  /\ loop'.snap = loop.snap
         /\ \A a \in Checker : chk'[a].burn \in {"keep", chk[a].burn}
<1>1. chk' = [chk EXCEPT !["loop"] = [NoCheck EXCEPT !.pc = "try", !.kind = k]]
  BY DEF LoopCheck
<1>2. [NoCheck EXCEPT !.pc = "try", !.kind = k].burn = "keep"
  BY DEF NoCheck
<1>3. loop'.snap = loop.snap
  BY DEF LoopCheck, TypeInv, LoopOK
<1> QED
  BY <1>1, <1>2, <1>3, Names DEF TypeInv

LEMMA ReturnSnap ==
  ASSUME TypeInv, NEW a \in Checker, NEW result \in BOOLEAN, Return(a, result)
  PROVE  /\ loop'.snap \in {loop.snap, ColdState}
         /\ chk'[a].burn = "keep"
         /\ \A b \in Checker \ {a} : chk'[b] = chk[b]
<1>1. chk'[a].burn = "keep" /\ \A b \in Checker \ {a} : chk'[b] = chk[b]
  BY DEF Return, TypeInv, NoCheck
<1>2. loop'.snap \in {loop.snap, ColdState}
  BY GotoSnap DEF Return, TypeInv
<1> QED
  BY <1>1, <1>2

LEMMA LoopStepWindow == ASSUME TypeInv, Window, LoopStep PROVE Window'
<1>1. ASSUME NEW l, LoopGoto(l), UNCHANGED <<now, chk>>,
             rs'.state = rs.state, rs'.burnUntil = rs.burnUntil
      PROVE  Window'
  BY <1>1, GotoSnap, NothingDecided DEF TypeInv
<1>2. ASSUME NEW k, NEW e, NEW f, LoopCheck(k, e, "top", f), now' = now,
             rs'.state = rs.state, rs'.burnUntil = rs.burnUntil
      PROVE  Window'
  BY <1>2, LoopCheckSnap, NothingDecided
<1>3. CASE LoopLoad
  <2>1. rs'.state = rs.state /\ rs'.burnUntil = rs.burnUntil
    BY <1>3, LoadPersistedType DEF LoopLoad, TypeInv
  <2> QED
    BY <1>2, <1>3, <2>1 DEF LoopLoad
<1>4. CASE LoopTop \/ LoopRequeue \/ LoopAcquire \/ LoopWake \/ LoopSelect
  BY <1>1, <1>4 DEF LoopTop, LoopRequeue, LoopAcquire, LoopWake, LoopSelect
<1>5. CASE LoopSnap
  <2>1. loop'.snap = rs /\ UNCHANGED <<now, rs, chk>>
    BY <1>5 DEF LoopSnap, TypeInv, LoopOK
  <2> QED
    BY <2>1 DEF Window, InActiveBurn
<1>6. CASE LoopSlots \/ LoopFinish
  BY <1>1, <1>2, <1>6 DEF LoopSlots, LoopFinish
<1>7. CASE LoopHourly
  <2>1. rs'.state = rs.state /\ rs'.burnUntil = rs.burnUntil
    BY <1>7 DEF LoopHourly, TypeInv, TypeOK, StateRecord
  <2> QED
    BY <1>1, <1>2, <1>7, <2>1 DEF LoopHourly
<1>8. CASE LoopBurn
  <2>1. CASE UNCHANGED rs
    BY <1>1, <1>8, <2>1 DEF LoopBurn
  <2>2. CASE /\ rs' = [rs EXCEPT !.state = "chilling", !.burnUntil = NULL]
             /\ LoopGoto("top")
    <3>1. rs'.state = "chilling"
      BY <2>2 DEF TypeInv, TypeOK, StateRecord
    <3>2. loop'.snap = ColdState
      BY <2>2 DEF LoopGoto, NewLoop
    <3> QED
      BY <3>1, <3>2 DEF Window, InActiveBurn, ColdState
  <2> QED
    BY <1>8, <2>1, <2>2 DEF LoopBurn
<1>9. CASE LoopSleep
  <2>1. loop'.snap = loop.snap /\ UNCHANGED <<now, rs, chk>>
    BY <1>9 DEF LoopSleep, TypeInv, LoopOK
  <2> QED
    BY <2>1, NothingDecided
<1> QED
  BY <1>3, <1>4, <1>5, <1>6, <1>7, <1>8, <1>9 DEF LoopStep

\* What Apply does to the burn.
LEMMA ApplyBurn ==
  ASSUME TypeInv, NEW a \in Checker, Apply(a)
  PROVE  /\ Return(a, TRUE) /\ chk[a].pc = "apply" /\ now' = now
         /\ chk[a].burn = "keep" =>
              rs'.state = rs.state /\ rs'.burnUntil = rs.burnUntil
         /\ chk[a].burn # "keep" =>
              rs'.state = chk[a].burn /\ rs'.burnUntil = chk[a].burnUntil
<1> DEFINE c == chk[a]
           fields == [rs EXCEPT !.lastCheckAt = now,
                        !.resetIn = IF c.crashed THEN @ ELSE c.reset,
                        !.failed = c.crashed,
                        !.state = IF c.burn = "keep" THEN @ ELSE c.burn,
                        !.burnUntil = IF c.burn = "keep" THEN @ ELSE c.burnUntil]
<1>1. /\ rs' = fields \/ SetAnchor(fields, c.proposed, c.effective)
      /\ Return(a, TRUE) /\ chk[a].pc = "apply" /\ now' = now
  BY Zenon DEF Apply
<1>2. rs \in StateRecord
  BY DEF TypeInv, TypeOK
<1>3. /\ c.burn = "keep" => fields.state = rs.state /\ fields.burnUntil = rs.burnUntil
      /\ c.burn # "keep" => fields.state = c.burn /\ fields.burnUntil = c.burnUntil
      /\ DOMAIN fields = {"state", "burnUntil", "lastCheckAt", "resetIn",
                            "failed", "nextResetAt", "postResetDone"}
  BY <1>2 DEF StateRecord
<1> HIDE DEF fields
<1>4. rs'.state = fields.state /\ rs'.burnUntil = fields.burnUntil
  BY <1>1, <1>3 DEF SetAnchor
<1> QED
  BY <1>1, <1>3, <1>4

LEMMA CheckStepWindow ==
  ASSUME TypeInv, Owners, Window, NEW a \in Checker, CheckStep(a)
  PROVE  Window'
<1>1. CASE Try(a)
  <2>1. UNCHANGED <<now, rs>>
    BY <1>1 DEF Try
  <2>2. \A b \in Checker : chk'[b].burn \in {"keep", chk[b].burn}
    <3>1. CASE checkLock = NULL
      <4>1. chk[a] \in CheckRecord
        BY DEF TypeInv
      <4>2. chk'[a].burn = chk[a].burn /\ \A b \in Checker \ {a} : chk'[b] = chk[b]
        BY <1>1, <3>1, <4>1 DEF Try, TypeInv, CheckRecord
      <4> QED
        BY <4>2
    <3>2. CASE checkLock # NULL
      BY <1>1, <3>2, ReturnSnap DEF Try
    <3> QED
      BY <3>1, <3>2
  <2>3. loop'.snap \in {loop.snap, ColdState}
    BY <1>1, ReturnSnap DEF Try
  <2> QED
    BY <2>1, <2>2, <2>3, NothingDecided
<1>2. CASE Decide(a)
  <2>1. /\ UNCHANGED <<now, rs, loop>>
        /\ \A b \in Checker \ {a} : chk'[b] = chk[b]
    BY <1>2, Zenon DEF Decide, TypeInv
  <2>2. chk'[a].burn # "keep" => ~InActiveBurn(rs)
    <3>1. PICK reset \in {NULL} \cup 0..(Cycle + Cycle), plenty \in BOOLEAN :
            chk' = [chk EXCEPT ![a] = Decided(chk[a].kind, reset, plenty)]
      BY <1>2, Zenon DEF Decide
    <3>2. chk[a].kind \in Kind /\ reset \in Time
      <4>1. Cycle \in Nat
        BY RunnerAssumption
      <4> QED
        BY <4>1, NullIsNoTime DEF TypeInv, CheckRecord, Time
    <3>3. chk'[a] = Decided(chk[a].kind, reset, plenty)
      BY <3>1 DEF TypeInv
    <3> QED
      BY <3>2, <3>3, DecidedOK
  <2> QED
    BY <2>1, <2>2 DEF Window, InActiveBurn
<1>3. CASE Crashed(a)
  <2>1. UNCHANGED <<now, rs, loop>>
    BY <1>3 DEF Crashed
  <2>2. \A b \in Checker : chk'[b].burn = chk[b].burn
    <3>1. chk[a] \in CheckRecord
      BY DEF TypeInv
    <3> QED
      BY <1>3, <3>1 DEF Crashed, TypeInv, CheckRecord
  <2> QED
    BY <2>1, <2>2, NothingDecided
<1>4. CASE Apply(a)
  <2>1. /\ Return(a, TRUE) /\ chk[a].pc = "apply" /\ now' = now
        /\ chk[a].burn = "keep" =>
             rs'.state = rs.state /\ rs'.burnUntil = rs.burnUntil
    BY <1>4, ApplyBurn
  <2>2. \A b \in Checker : chk'[b].burn = "keep"
    <3>1. \A b \in Checker \ {a} : chk[b].pc # "apply"
      BY <2>1 DEF Owners
    <3>2. \A b \in Checker \ {a} : chk[b].burn = "keep"
      BY <3>1 DEF TypeInv, CheckOK
    <3> QED
      BY <2>1, <3>2, ReturnSnap
  <2>3. loop'.snap \in {loop.snap, ColdState}
    BY <2>1, ReturnSnap
  <2>4. CASE chk[a].burn = "keep"
    BY <2>1, <2>2, <2>3, <2>4, NothingDecided
  <2>5. CASE chk[a].burn # "keep"
    <3>1. ~InActiveBurn(rs)
      BY <2>5 DEF Window
    <3>2. ~InActiveBurn(loop.snap)
      BY <3>1 DEF Window, InActiveBurn
    <3>3. ~InActiveBurn(loop.snap)'
      BY <2>1, <2>3, <3>2 DEF InActiveBurn, ColdState
    <3> QED
      BY <2>2, <3>3 DEF Window
  <2> QED
    BY <2>4, <2>5
<1> QED
  BY <1>1, <1>2, <1>3, <1>4 DEF CheckStep

LEMMA TickWindow == ASSUME TypeInv, Window, Tick PROVE Window'
<1>1. now \in Nat /\ rs \in StateRecord /\ loop.snap \in StateRecord
  BY DEF TypeInv, TypeOK
<1>2. UNCHANGED <<rs, loop, chk>> /\ now' = now + 1
  BY DEF Tick
<1>3. ASSUME NEW s \in StateRecord, s.burnUntil # NULL, now + 1 < s.burnUntil
      PROVE  now < s.burnUntil
  BY <1>1, <1>3 DEF StateRecord, Time
<1>4. /\ InActiveBurn(rs)' => InActiveBurn(rs)
      /\ InActiveBurn(loop.snap)' => InActiveBurn(loop.snap)
  BY <1>1, <1>2, <1>3 DEF InActiveBurn
<1> QED
  BY <1>2, <1>4 DEF Window

LEMMA WindowNext == ASSUME TypeInv, Owners, Window, [Next]_vars PROVE Window'
<1>1. CASE AddTask \/ QueueChanges \/ UseClaude \/ UNCHANGED vars
  BY <1>1, NothingDecided DEF AddTask, QueueChanges, UseClaude, vars
<1>2. ASSUME NEW a \in WebCheck, ManualCheck(a) PROVE Window'
  <2>1. UNCHANGED <<now, rs, loop>>
    BY <1>2 DEF ManualCheck
  <2>2. \A b \in Checker : chk'[b].burn \in {"keep", chk[b].burn}
    BY <1>2 DEF ManualCheck, TypeInv, NoCheck, Checker
  <2> QED
    BY <2>1, <2>2, NothingDecided
<1>3. ASSUME NEW w \in WebRun, WebStart(w) \/ WebFinish(w) PROVE Window'
  <2>1. UNCHANGED <<now, loop, chk>>
    BY <1>3 DEF WebStart, WebFinish
  <2>2. rs'.state = rs.state /\ rs'.burnUntil = rs.burnUntil
    BY <1>3, LoadPersistedType DEF WebStart, WebFinish, TypeInv
  <2> QED
    BY <2>1, <2>2, NothingDecided
<1>4. CASE Restart
  BY <1>4 DEF Restart, Window, InActiveBurn, NewLoop, ColdState, NoCheck
<1> QED
  BY <1>1, <1>2, <1>3, <1>4, LoopStepWindow, CheckStepWindow, TickWindow DEF Next

LEMMA WindowInit == Init => Window
  BY DEF Init, Window, InActiveBurn, NewLoop, ColdState, NoCheck

\* What the burn window rests on; restarts are counted.
IInv == TypeInv /\ Owners /\ Window /\ restarts \in Nat

LEMMA CountNext == ASSUME restarts \in Nat, [Next]_vars PROVE restarts' \in Nat
<1>1. restarts' = restarts \/ restarts' = restarts + 1
  BY Zenon DEF Next, LoopStep, LoopLoad, LoopTop, LoopSnap, LoopSlots, LoopRequeue,
     LoopHourly, LoopBurn, LoopAcquire, LoopSelect, LoopFinish, LoopSleep, LoopWake,
     CheckStep, Try, Decide, Crashed, Apply, ManualCheck, WebStart, WebFinish,
     AddTask, QueueChanges, UseClaude, Restart, Tick, vars, Ghosts, Counters
<1> QED
  BY <1>1

\* The lemmas above in one invariant of the runner.
THEOREM Invariance == Spec => []IInv
<1>1. Init => IInv
  <2>1. Init => restarts \in Nat
    BY DEF Init
  <2> QED
    BY <2>1, TypeInit, OwnersInit, WindowInit DEF IInv
<1>2. IInv /\ [Next]_vars => IInv'
  BY TypeNext, OwnersNext, WindowNext, CountNext DEF IInv
<1> QED
  BY <1>1, <1>2, PTL DEF Spec

\* Of all steps, only the loop's own selection starts a task.
LEMMA OnlySelectStarts ==
  ASSUME TypeInv, [Next]_vars, loop.pc = "select", loop'.pc = "execute"
  PROVE  LoopSelect
<1>1. loop' # loop
  OBVIOUS
<1>2. ASSUME NEW a \in Checker, CheckStep(a) PROVE FALSE
  <2>1. UNCHANGED loop \/ \E r \in BOOLEAN : Return(a, r)
    BY <1>2, Zenon DEF CheckStep, Try, Decide, Crashed, Apply
  <2> QED
    BY <1>1, <2>1, ReturnPc
<1>3. LoopStep => LoopSelect
  BY DEF LoopStep, LoopLoad, LoopTop, LoopSnap, LoopSlots, LoopRequeue, LoopHourly,
     LoopBurn, LoopAcquire, LoopFinish, LoopSleep, LoopWake
<1>4. ~Restart
  BY DEF Restart, NewLoop
<1> QED
  BY <1>1, <1>2, <1>3, <1>4
  DEF Next, ManualCheck, WebStart, WebFinish, AddTask, QueueChanges, UseClaude, Tick, vars

\* The loop starts a task only inside the burn window that is in force then,
\* although it decided on a snapshot and waited for the execution lock.
THEOREM TasksStartInBurn == Spec => StartsOnlyInBurn
<1>1. ASSUME IInv, [Next]_vars, loop.pc = "select", loop'.pc = "execute"
      PROVE  InActiveBurn(rs)
  <2>1. LoopSelect
    BY <1>1, OnlySelectStarts DEF IInv
  <2>2. now < loop.snap.burnUntil
    <3>1. loop'.pc = "sleep" \/ now < loop.snap.burnUntil
      BY <2>1, GotoPc, <1>1 DEF LoopSelect, IInv, TypeInv
    <3> QED
      BY <1>1, <3>1
  <2>3. /\ loop.snap.state = "burning" /\ loop.snap.burnUntil # NULL
        /\ loop.snap \in StateRecord /\ now \in Nat
    BY <1>1 DEF IInv, TypeInv, TypeOK, LoopOK
  <2>4. InActiveBurn(loop.snap)
    BY <2>2, <2>3 DEF InActiveBurn
  <2> QED
    BY <1>1, <2>2, <2>3, <2>4 DEF IInv, Window, InActiveBurn
<1>2. IInv /\ [Next]_vars =>
        [loop.pc = "select" /\ loop'.pc = "execute" => InActiveBurn(rs)]_vars
  BY <1>1
<1> QED
  BY <1>2, Invariance, PTL DEF Spec, StartsOnlyInBurn

\* A check that is applied leaves an active burn alone; the other steps of a
\* check do not touch the state.
LEMMA CheckStepKeeps ==
  ASSUME IInv, NEW a \in Checker, CheckStep(a), InActiveBurn(rs)
  PROVE  rs'.state = "burning" /\ rs'.burnUntil = rs.burnUntil
<1>1. CASE Apply(a)
  <2>1. chk[a].burn = "keep"
    BY <1>1 DEF IInv, Window, Apply
  <2> QED
    BY <1>1, <2>1, ApplyBurn DEF IInv, InActiveBurn
<1>2. CASE Try(a) \/ Decide(a) \/ Crashed(a)
  <2>1. rs' = rs
    BY <1>2, Zenon DEF Try, Decide, Crashed
  <2> QED
    BY <2>1 DEF InActiveBurn
<1> QED
  BY <1>1, <1>2 DEF CheckStep

\* Reloading the durable fields leaves the rest of the state alone.
LEMMA LoopStepKeeps ==
  ASSUME IInv, LoopStep, InActiveBurn(rs), ~ClosesBurn
  PROVE  rs'.state = "burning" /\ rs'.burnUntil = rs.burnUntil
<1>1. rs \in StateRecord /\ loop.snap \in StateRecord /\ loop.t \in Nat
  BY DEF IInv, TypeInv, TypeOK, LoopOK
<1>2. CASE LoopLoad
  BY <1>1, <1>2, LoadPersistedType DEF LoopLoad, IInv, TypeInv, InActiveBurn
<1>3. CASE LoopHourly
  BY <1>1, <1>3 DEF LoopHourly, InActiveBurn, StateRecord
<1>4. CASE LoopBurn
  <2>1. rs' = rs
    BY <1>1, <1>4 DEF LoopBurn, ClosesBurn, StateRecord, Time
  <2> QED
    BY <2>1 DEF InActiveBurn
<1>5. ASSUME \/ LoopTop \/ LoopSnap \/ LoopSlots \/ LoopRequeue \/ LoopAcquire
             \/ LoopSelect \/ LoopFinish \/ LoopSleep \/ LoopWake
      PROVE  rs' = rs
  BY <1>5, Zenon DEF LoopTop, LoopSnap, LoopSlots, LoopRequeue, LoopAcquire,
     LoopSelect, LoopFinish, LoopSleep, LoopWake
<1> QED
  BY <1>2, <1>3, <1>4, <1>5 DEF LoopStep, InActiveBurn

\* Whatever happens between the decision of a check and its critical section,
\* a burn whose deadline is ahead is ended only by a restart or by the loop
\* that closes an earlier one it saw expire.
THEOREM BurnsPreserved == Spec => BurnsKept
<1>1. ASSUME IInv, [Next]_vars, Lives, InActiveBurn(rs), ~ClosesBurn
      PROVE  rs'.state = "burning" /\ rs'.burnUntil = rs.burnUntil
  <2>1. ASSUME NEW w \in WebRun, WebStart(w)
        PROVE  rs'.state = "burning" /\ rs'.burnUntil = rs.burnUntil
    BY <1>1, <2>1, LoadPersistedType DEF WebStart, IInv, TypeInv, InActiveBurn
  <2>2. ~Restart
    BY <1>1 DEF Restart, Lives, IInv
  <2> QED
    BY <1>1, <2>1, <2>2, CheckStepKeeps, LoopStepKeeps
    DEF Next, ManualCheck, WebFinish, AddTask, QueueChanges, UseClaude, Tick, vars, InActiveBurn
<1>2. IInv /\ [Next]_vars =>
        [Lives /\ InActiveBurn(rs) /\ ~ClosesBurn
           => rs'.state = "burning" /\ rs'.burnUntil = rs.burnUntil]_vars
  BY <1>1
<1> QED
  BY <1>2, Invariance, PTL DEF Spec, BurnsKept

-----------------------------------------------------------------------------
(* A burn ends with the session: the deadline comes from a reading.        *)

Within(until) == \E j \in Jitter : until <= session + j

Budget ==
  /\ rs.state = "burning" => Within(rs.burnUntil)
  /\ \A a \in Checker : chk[a].burn = "burning" => Within(chk[a].burnUntil)

\* A session is followed by a later one.
LEMMA SessionsFollow == ASSUME TypeInv, [Next]_vars PROVE session' \in Nat /\ session' >= session
<1>1. session \in Nat /\ now \in Nat /\ Cycle \in Nat
  BY RunnerAssumption DEF TypeInv, TypeOK
<1>2. \/ session' = session
      \/ session <= now /\ session' = now + Cycle
  <2>1. ASSUME NEW a \in Checker, CheckStep(a)
        PROVE  session' = session \/ (session <= now /\ session' = now + Cycle)
    <3>1. CASE Decide(a)
      BY <3>1, Zenon DEF Decide, Fetched
    <3> QED
      BY <2>1, <3>1 DEF CheckStep, Try, Crashed, Apply
  <2> QED
    BY <2>1, Zenon DEF Next, LoopStep, LoopLoad, LoopTop, LoopSnap, LoopSlots,
       LoopRequeue, LoopHourly, LoopBurn, LoopAcquire, LoopSelect, LoopFinish,
       LoopSleep, LoopWake, ManualCheck, WebStart, WebFinish, AddTask, QueueChanges, UseClaude,
       Restart, Tick, vars
<1> QED
  BY <1>1, <1>2

\* Arithmetic of deadlines.
LEMMA Later ==
  ASSUME NEW u \in Int, NEW s \in Int, NEW t \in Int, NEW j \in Int, u <= s + j, s <= t
  PROVE  u <= t + j
  OBVIOUS

LEMMA ReadingBound ==
  ASSUME NEW n \in Int, NEW s \in Int, NEW j \in Int, NEW r \in Int, NEW e \in Int,
         r = AtLeast(0, s - n + j), n <= s, e <= r
  PROVE  n + e <= s + j \/ n + e <= s + 0
  BY DEF AtLeast

\* The burn's deadline is no later than the reset that was read.
LEMMA DeadlineFromReading ==
  ASSUME now \in Nat, NEW reset \in Nat, NEW anchor \in Time
  PROVE  BurnMinutes(reset, anchor) \in Nat /\ BurnMinutes(reset, anchor) <= reset
<1> DEFINE left == IF anchor # NULL /\ anchor > now THEN {anchor - now} ELSE {}
<1>1. {reset} \cup left \subseteq Nat
  BY DEF Time
<1>2. \E x \in {reset} \cup left : \A y \in {reset} \cup left : x <= y
  <2>1. CASE left = {}
    BY <2>1
  <2>2. CASE left = {anchor - now}
    BY <1>1, <2>2
  <2> QED
    BY <2>1, <2>2
<1>3. BurnMinutes(reset, anchor) = Least({reset} \cup left)
  BY NullIsNoTime DEF BurnMinutes
<1> HIDE DEF left
<1> QED
  BY <1>1, <1>2, <1>3 DEF Least

LEMMA DecidedWithin ==
  ASSUME TypeInv, NEW kind, NEW reset \in Time, NEW plenty, Fetched(reset),
         Decided(kind, reset, plenty).burn = "burning"
  PROVE  \E j \in Jitter : Decided(kind, reset, plenty).burnUntil <= session' + j
<1> DEFINE act == AnchorAction(rs, kind, IF reset = NULL THEN NULL ELSE now + reset)
           anchor == IF act[1] = "clamp" THEN NULL ELSE rs.nextResetAt
           eff == BurnMinutes(reset, anchor)
           burns == eff # NULL /\ reset # NULL /\ plenty /\ eff < BurnWindow
<1>1. /\ Decided(kind, reset, plenty).burn = BurnVerdict(rs, burns)
      /\ Decided(kind, reset, plenty).burnUntil = IF burns THEN now + eff ELSE NULL
  BY DEF Decided
<1>2. now \in Nat /\ session \in Nat /\ anchor \in Time /\ Cycle \in Nat
  BY NullIsNoTime, RunnerAssumption DEF TypeInv, TypeOK, StateRecord
<1> HIDE DEF anchor
<1>3. burns
  BY <1>1 DEF BurnVerdict
<1>4. reset \in Nat /\ eff \in Nat /\ eff <= reset
  BY <1>2, <1>3, DeadlineFromReading DEF Time
<1> HIDE DEF eff
<1>5. PICK j \in Jitter : reset = AtLeast(0, session' - now + j)
  BY <1>3, Zenon DEF Fetched
<1>6. session' \in Nat /\ session' >= now
  BY <1>2, <1>3 DEF Fetched
<1>7. j \in Int /\ 0 \in Jitter
  BY RunnerAssumption
<1>8. now + eff <= session' + j \/ now + eff <= session' + 0
  <2>1. session' \in Int /\ now <= session' /\ now \in Int
    BY <1>2, <1>6
  <2>2. reset \in Int /\ eff \in Int /\ eff <= reset
    BY <1>4
  <2> QED
    BY <1>5, <1>7, <2>1, <2>2, ReadingBound
<1> QED
  BY <1>1, <1>3, <1>7, <1>8

\* What is within a session is within a later one.
LEMMA WithinFollows ==
  ASSUME TypeInv, session' \in Nat, session' >= session, NEW u \in Nat, Within(u)
  PROVE  \E j \in Jitter : u <= session' + j
<1>1. PICK j \in Jitter : u <= session + j
  BY DEF Within
<1>2. j \in Int /\ session \in Int /\ u \in Int
  BY RunnerAssumption DEF TypeInv, TypeOK
<1>3. session' \in Int /\ session <= session'
  BY <1>2
<1>4. u <= session' + j
  BY <1>1, <1>2, <1>3, Later
<1> QED
  BY <1>4

\* Steps that open no burn and decide none.
LEMMA BudgetKept ==
  ASSUME TypeInv, Budget, session' \in Nat, session' >= session,
         rs'.state = "burning" => rs.state = "burning" /\ rs'.burnUntil = rs.burnUntil,
         \A a \in Checker : chk'[a].burn = "burning" =>
             chk[a].burn = "burning" /\ chk'[a].burnUntil = chk[a].burnUntil
  PROVE  Budget'
<1>1. ASSUME rs'.state = "burning" PROVE Within(rs.burnUntil)'
  <2>1. rs.burnUntil \in Nat /\ Within(rs.burnUntil) /\ rs'.burnUntil = rs.burnUntil
    BY <1>1 DEF TypeInv, TypeOK, StateRecord, Time, Budget
  <2> QED
    BY <2>1, WithinFollows DEF Within
<1>2. ASSUME NEW a \in Checker, chk'[a].burn = "burning"
      PROVE  Within(chk[a].burnUntil)'
  <2>1. /\ chk[a].burnUntil \in Nat /\ Within(chk[a].burnUntil)
        /\ chk'[a].burnUntil = chk[a].burnUntil
    <3>1. chk[a].burn = "burning" /\ chk'[a].burnUntil = chk[a].burnUntil
      BY <1>2
    <3>2. CheckOK(chk[a])
      BY DEF TypeInv
    <3> QED
      BY <3>1, <3>2 DEF CheckOK, CheckRecord, Time, Budget
  <2> QED
    BY <2>1, WithinFollows DEF Within
<1> QED
  BY <1>1, <1>2 DEF Budget

\* No burn is opened, and whoever has just called or returned decides none.
LEMMA NoBurnOpened ==
  ASSUME TypeInv, TypeInv', Budget, session' \in Nat, session' >= session,
         rs'.state = "burning" => rs.state = "burning" /\ rs'.burnUntil = rs.burnUntil,
         \A a \in Checker : chk'[a] = chk[a] \/ chk'[a].pc # "apply"
  PROVE  Budget'
<1>1. \A a \in Checker : chk'[a].pc # "apply" => chk'[a].burn = "keep"
  BY DEF TypeInv, CheckOK
<1> QED
  BY <1>1, BudgetKept

LEMMA LoopStepBudget ==
  ASSUME TypeInv, TypeInv', Budget, LoopStep, session' \in Nat, session' >= session
  PROVE  Budget'
<1>1. rs'.state = "burning" => rs.state = "burning" /\ rs'.burnUntil = rs.burnUntil
  <2>1. CASE LoopLoad
    BY <2>1, LoadPersistedType DEF LoopLoad, TypeInv
  <2>2. CASE LoopHourly
    BY <2>2 DEF LoopHourly, TypeInv, TypeOK, StateRecord
  <2>3. CASE LoopBurn
    BY <2>3 DEF LoopBurn, TypeInv, TypeOK, StateRecord
  <2> QED
    BY <2>1, <2>2, <2>3 DEF LoopStep, LoopTop, LoopSnap, LoopSlots, LoopRequeue,
       LoopAcquire, LoopSelect, LoopFinish, LoopSleep, LoopWake
<1>2. UNCHANGED chk \/ \E k, e, f : LoopCheck(k, e, "top", f)
  BY Zenon DEF LoopStep, LoopLoad, LoopTop, LoopSnap, LoopSlots, LoopRequeue, LoopHourly,
     LoopBurn, LoopAcquire, LoopSelect, LoopFinish, LoopSleep, LoopWake
<1>3. \A a \in Checker : chk'[a] = chk[a] \/ chk'[a].pc # "apply"
  BY <1>2, LoopCheckPc
<1> QED
  BY <1>1, <1>3, NoBurnOpened

LEMMA CheckStepBudget ==
  ASSUME TypeInv, TypeInv', Budget, NEW a \in Checker, CheckStep(a),
         session' \in Nat, session' >= session
  PROVE  Budget'
<1>1. CASE Try(a)
  <2>1. UNCHANGED rs
    BY <1>1 DEF Try
  <2>2. \A b \in Checker : chk'[b] = chk[b] \/ chk'[b].pc # "apply"
    <3>1. CASE checkLock = NULL
      BY <1>1, <3>1 DEF Try, TypeInv, CheckRecord
    <3>2. CASE checkLock # NULL
      BY <1>1, <3>2, ReturnPc DEF Try
    <3> QED
      BY <3>1, <3>2
  <2> QED
    BY <2>1, <2>2, NoBurnOpened
<1>2. CASE Decide(a)
  <2>1. Cycle \in Nat
    BY RunnerAssumption
  <2>2. PICK reset \in {NULL} \cup 0..(Cycle + Cycle), plenty \in BOOLEAN :
          /\ Fetched(reset)
          /\ chk' = [chk EXCEPT ![a] = Decided(chk[a].kind, reset, plenty)]
          /\ UNCHANGED rs
    BY <1>2, Zenon DEF Decide
  <2>3. reset \in Time
    BY <2>1, NullIsNoTime DEF Time
  <2>4. /\ chk'[a] = Decided(chk[a].kind, reset, plenty)
        /\ \A b \in Checker \ {a} : chk'[b] = chk[b]
    BY <2>2 DEF TypeInv
  <2>5. chk'[a].burn = "burning" => Within(chk[a].burnUntil)'
    BY <2>2, <2>3, <2>4, DecidedWithin DEF Within
  <2>6. ASSUME rs'.state = "burning" PROVE Within(rs.burnUntil)'
    <3>1. rs.burnUntil \in Nat /\ Within(rs.burnUntil) /\ rs' = rs
      BY <2>2, <2>6 DEF TypeInv, TypeOK, StateRecord, Time, Budget
    <3> QED
      BY <3>1, WithinFollows DEF Within
  <2>7. ASSUME NEW b \in Checker \ {a}, chk'[b].burn = "burning"
        PROVE  Within(chk[b].burnUntil)'
    <3>1. chk[b].burn = "burning" /\ chk'[b] = chk[b]
      BY <2>4, <2>7
    <3>2. chk[b].burnUntil \in Nat /\ Within(chk[b].burnUntil)
      BY <3>1 DEF TypeInv, CheckOK, CheckRecord, Time, Budget
    <3> QED
      BY <3>1, <3>2, WithinFollows DEF Within
  <2> QED
    BY <2>5, <2>6, <2>7 DEF Budget
<1>3. CASE Crashed(a)
  <2>1. chk[a] \in CheckRecord /\ UNCHANGED rs
    BY <1>3 DEF Crashed, TypeInv
  <2>2. \A b \in Checker : /\ chk'[b].burn = chk[b].burn
                           /\ chk'[b].burnUntil = chk[b].burnUntil
    BY <1>3, <2>1 DEF Crashed, TypeInv, CheckRecord
  <2> QED
    BY <2>1, <2>2, BudgetKept
<1>4. CASE Apply(a)
  <2>1. \A b \in Checker : chk'[b] = chk[b] \/ chk'[b].pc # "apply"
    BY <1>4, ApplyBurn, ReturnPc
  <2>2. CASE chk[a].burn # "burning"
    <3>1. rs'.state = "burning" => rs.state = "burning" /\ rs'.burnUntil = rs.burnUntil
      BY <1>4, <2>2, ApplyBurn
    <3> QED
      BY <2>1, <3>1, NoBurnOpened
  <2>3. CASE chk[a].burn = "burning"
    <3>1. rs'.burnUntil = chk[a].burnUntil
      BY <1>4, <2>3, ApplyBurn
    <3>2. chk[a].burnUntil \in Nat /\ Within(chk[a].burnUntil)
      BY <2>3 DEF TypeInv, CheckOK, CheckRecord, Time, Budget
    <3>3. Within(rs.burnUntil)'
      BY <3>1, <3>2, WithinFollows DEF Within
    <3>4. ASSUME NEW b \in Checker, chk'[b].burn = "burning"
          PROVE  Within(chk[b].burnUntil)'
      <4>1. chk'[b].pc = "apply"
        BY <3>4 DEF TypeInv, CheckOK
      <4>2. chk'[b] = chk[b]
        BY <2>1, <4>1
      <4>3. chk[b].burnUntil \in Nat /\ Within(chk[b].burnUntil)
        BY <3>4, <4>2 DEF TypeInv, CheckOK, CheckRecord, Time, Budget
      <4> QED
        BY <4>2, <4>3, WithinFollows DEF Within
    <3> QED
      BY <3>3, <3>4 DEF Budget
  <2> QED
    BY <2>2, <2>3
<1> QED
  BY <1>1, <1>2, <1>3, <1>4 DEF CheckStep

LEMMA BudgetNext == ASSUME TypeInv, Budget, [Next]_vars PROVE Budget'
<1>1. TypeInv' /\ session' \in Nat /\ session' >= session
  BY TypeNext, SessionsFollow
<1>2. CASE AddTask \/ QueueChanges \/ UseClaude \/ Tick \/ UNCHANGED vars
  <2>1. UNCHANGED <<rs, chk>>
    BY <1>2 DEF AddTask, QueueChanges, UseClaude, Tick, vars
  <2> QED
    BY <1>1, <2>1, NoBurnOpened
<1>3. ASSUME NEW a \in WebCheck, ManualCheck(a) PROVE Budget'
  <2>1. /\ UNCHANGED rs
        /\ \A b \in Checker : chk'[b] = chk[b] \/ chk'[b].pc = "try"
    BY <1>3 DEF ManualCheck, TypeInv, Checker, NoCheck
  <2> QED
    BY <1>1, <2>1, NoBurnOpened
<1>4. ASSUME NEW w \in WebRun, WebStart(w) \/ WebFinish(w) PROVE Budget'
  <2>1. UNCHANGED chk
    BY <1>4 DEF WebStart, WebFinish
  <2>2. rs'.state = rs.state /\ rs'.burnUntil = rs.burnUntil
    BY <1>4, LoadPersistedType DEF WebStart, WebFinish, TypeInv
  <2> QED
    BY <1>1, <2>1, <2>2, NoBurnOpened
<1>5. CASE Restart
  BY <1>5 DEF Restart, Budget, ColdState, NoCheck
<1> QED
  BY <1>1, <1>2, <1>3, <1>4, <1>5, LoopStepBudget, CheckStepBudget DEF Next

\* A burn never outlasts the session whose leftover it is to use, by more
\* than a reading errs: its deadline comes from a reading of this session, or
\* an earlier one, and no step moves it.
THEOREM BurnsEndWithSession == Spec => []BurnWithinSession
<1>1. Init => Budget
  BY DEF Init, Budget, ColdState, NoCheck
<1>2. Budget => BurnWithinSession
  BY DEF Budget, Within, BurnWithinSession
<1> QED
  BY <1>1, <1>2, TypeInit, TypeNext, BudgetNext, PTL DEF Spec

-----------------------------------------------------------------------------
(* Wake-ups: the event is cleared before the loop looks, so until it is set *)
(* the loop knows what there is to know.                                    *)

Alert ==
  /\ chk["loop"].pc # "idle" => loop.pc = "checking"
  /\ loop.pc \notin {"top", "snap"} /\ ~wake =>
       loop.snap.state = rs.state /\ loop.snap.burnUntil = rs.burnUntil
  /\ loop.pc \in {"sleep", "wait"} /\ ~wake /\ InActiveBurn(rs) =>
       ready = 0 \/ unsaid

\* The loop moves on with its snapshot; it may not yet sleep.
LEMMA AlertOnward ==
  ASSUME TypeInv, Alert, loop.pc \notin {"top", "snap"},
         loop'.snap = loop.snap, loop'.pc \notin {"sleep", "wait"}, wake' = wake,
         rs'.state = rs.state, rs'.burnUntil = rs.burnUntil,
         chk'["loop"].pc # "idle" => loop'.pc = "checking"
  PROVE  Alert'
  BY DEF Alert

\* It starts over, or a wake-up is due.
LEMMA AlertAnew ==
  ASSUME loop'.pc \in {"top", "snap"} \/ wake',
         chk'["loop"].pc # "idle" => loop'.pc = "checking"
  PROVE  Alert'
  BY DEF Alert

\* Nothing the loop looks at changes, and there are no more tasks.
LEMMA AlertStill ==
  ASSUME TypeInv, Alert, loop' = loop, wake' = wake, chk'["loop"].pc = chk["loop"].pc,
         rs'.state = rs.state, rs'.burnUntil = rs.burnUntil,
         InActiveBurn(rs)' => InActiveBurn(rs),
         (ready = 0 \/ unsaid) => (ready' = 0 \/ unsaid')
  PROVE  Alert'
  BY DEF Alert

LEMMA GotoKeeps ==
  ASSUME LoopOK, NEW l, l # "top", LoopGoto(l)
  PROVE  loop'.pc = l /\ loop'.snap = loop.snap
  BY DEF LoopGoto, LoopOK

LEMMA LoopStepAlert == ASSUME TypeInv, Alert, LoopStep PROVE Alert'
<1>1. ASSUME NEW k, NEW e, NEW f, LoopCheck(k, e, "top", f),
             loop.pc \notin {"top", "snap"}, wake' = wake,
             rs'.state = rs.state, rs'.burnUntil = rs.burnUntil
      PROVE  Alert'
  <2>1. loop'.pc = "checking" /\ loop'.snap = loop.snap
    BY <1>1, LoopCheckPc, LoopCheckSnap
  <2> QED
    BY <1>1, <2>1, AlertOnward
<1>2. ASSUME LoopGoto("top"), UNCHANGED chk, loop.pc # "checking"
      PROVE  Alert'
  <2>1. loop'.pc = "top" /\ chk'["loop"].pc = "idle"
    BY <1>2, GotoPc DEF TypeInv, Alert
  <2> QED
    BY <2>1, AlertAnew
<1>3. ASSUME NEW l \in {"hourly", "burn", "wantExec", "select", "execute"},
             LoopGoto(l), UNCHANGED <<chk, rs, wake>>,
             loop.pc \notin {"top", "snap", "checking"}
      PROVE  Alert'
  <2>1. loop'.pc = l /\ loop'.snap = loop.snap /\ chk'["loop"].pc = "idle"
    BY <1>3, GotoKeeps DEF TypeInv, Alert
  <2> QED
    BY <1>3, <2>1, AlertOnward
<1>4. CASE LoopLoad
  <2>1. rs'.state = rs.state /\ rs'.burnUntil = rs.burnUntil
    BY <1>4, LoadPersistedType DEF LoopLoad, TypeInv
  <2> QED
    BY <1>1, <1>4, <2>1 DEF LoopLoad
<1>5. CASE LoopTop \/ LoopAcquire \/ LoopRequeue \/ LoopWake
  <2>1. CASE LoopTop \/ LoopAcquire
    <3>1. CASE LoopTop
      <4>1. loop'.pc = "snap" /\ chk'["loop"].pc = "idle"
        BY <3>1, GotoPc DEF LoopTop, TypeInv, Alert
      <4> QED
        BY <4>1, AlertAnew
    <3>2. CASE LoopAcquire
      <4>1. /\ LoopGoto("select") /\ UNCHANGED <<chk, rs, wake>>
            /\ loop.pc = "wantExec"
        BY <3>2 DEF LoopAcquire
      <4> QED
        BY <1>3, <4>1
    <3> QED
      BY <2>1, <3>1, <3>2
  <2>2. CASE LoopRequeue \/ LoopWake
    BY <1>2, <2>2 DEF LoopRequeue, LoopWake
  <2> QED
    BY <1>5, <2>1, <2>2
<1>6. CASE LoopSnap
  <2>1. loop'.pc = "slots" /\ loop'.snap = rs
    BY <1>6 DEF LoopSnap, TypeInv, LoopOK
  <2>2. UNCHANGED <<rs, chk, wake>> /\ chk["loop"].pc = "idle"
    BY <1>6 DEF LoopSnap, Alert
  <2> QED
    BY <2>1, <2>2 DEF Alert
<1>7. CASE LoopSlots
  BY <1>1, <1>3, <1>7 DEF LoopSlots
<1>8. CASE LoopHourly
  BY <1>1, <1>2, <1>3, <1>8 DEF LoopHourly
<1>9. CASE LoopBurn
  <2>1. CASE loop.snap.state = "chilling" /\ LoopGoto("sleep") /\ UNCHANGED <<rs, wake>>
    <3>1. loop'.pc = "sleep" /\ loop'.snap = loop.snap
      BY <2>1, GotoKeeps DEF TypeInv
    <3>2. UNCHANGED chk /\ chk["loop"].pc = "idle" /\ loop.pc = "burn"
      BY <1>9 DEF LoopBurn, Alert
    <3> QED
      BY <2>1, <3>1, <3>2 DEF Alert, InActiveBurn
  <2>2. CASE LoopGoto("top")
    BY <1>2, <1>9, <2>2 DEF LoopBurn
  <2>3. CASE LoopGoto("wantExec") /\ UNCHANGED <<rs, wake>>
    BY <1>3, <1>9, <2>3 DEF LoopBurn
  <2> QED
    BY <1>9, <2>1, <2>2, <2>3 DEF LoopBurn
<1>10. CASE LoopSelect
  <2>1. CASE LoopGoto("execute")
    BY <1>3, <1>10, <2>1 DEF LoopSelect
  <2>2. CASE /\ LoopGoto("sleep")
             /\ \/ (now >= loop.snap.burnUntil \/ ready = 0) /\ UNCHANGED ready
                \/ unsaid'
    <3>1. loop'.pc = "sleep" /\ loop'.snap = loop.snap
      BY <2>2, GotoKeeps DEF TypeInv
    <3>2. UNCHANGED <<chk, rs, wake, now>> /\ chk["loop"].pc = "idle" /\ loop.pc = "select"
      BY <1>10 DEF LoopSelect, Alert
    <3>4. InActiveBurn(loop.snap) => ready' = 0 \/ unsaid'
      <4>1. now \in Nat /\ loop.snap.burnUntil \in Time
        BY DEF TypeInv, TypeOK, StateRecord
      <4> QED
        BY <2>2, <4>1 DEF InActiveBurn, Time
    <3>5. ~wake => (InActiveBurn(rs) <=> InActiveBurn(loop.snap))
      BY <3>2 DEF Alert, InActiveBurn
    <3> QED
      BY <3>1, <3>2, <3>4, <3>5 DEF Alert, InActiveBurn
  <2> QED
    BY <1>10, <2>1, <2>2 DEF LoopSelect
<1>11. CASE LoopFinish
  BY <1>1, <1>2, <1>11 DEF LoopFinish
<1>12. CASE LoopSleep
  <2>1. loop'.pc = "wait" /\ loop'.snap = loop.snap
    BY <1>12 DEF LoopSleep, TypeInv, LoopOK
  <2>2. UNCHANGED <<rs, chk, wake, now, ready, unsaid>> /\ loop.pc = "sleep"
    BY <1>12 DEF LoopSleep, Ghosts
  <2> QED
    BY <2>1, <2>2 DEF Alert, InActiveBurn
<1> QED
  BY <1>4, <1>5, <1>6, <1>7, <1>8, <1>9, <1>10, <1>11, <1>12 DEF LoopStep

LEMMA CheckStepAlert ==
  ASSUME TypeInv, Alert, NEW a \in Checker, CheckStep(a)
  PROVE  Alert'
<1>1. ASSUME UNCHANGED <<loop, rs, wake, now, ready, unsaid>>, chk[a].pc # "idle",
             \A b \in Checker \ {a} : chk'[b] = chk[b]
      PROVE  Alert'
  <2>1. chk'["loop"].pc # "idle" => loop.pc = "checking"
    BY <1>1, Names DEF Alert
  <2> QED
    BY <1>1, <2>1 DEF Alert, InActiveBurn
<1>2. CASE Decide(a) \/ Crashed(a) \/ (Try(a) /\ checkLock = NULL)
  <2>1. \A b \in Checker \ {a} : chk'[b] = chk[b]
    <3>1. CASE Decide(a)
      BY <3>1, Zenon DEF Decide, TypeInv
    <3>2. CASE Crashed(a) \/ (Try(a) /\ checkLock = NULL)
      BY <3>2 DEF Crashed, Try, TypeInv
    <3> QED
      BY <1>2, <3>1, <3>2
  <2>2. UNCHANGED <<loop, rs, wake, now, ready, unsaid>> /\ chk[a].pc # "idle"
    BY <1>2 DEF Decide, Crashed, Try, Ghosts
  <2> QED
    BY <1>1, <2>1, <2>2
<1>3. CASE Try(a) /\ checkLock # NULL
  <2>1. Return(a, FALSE) /\ UNCHANGED <<rs, wake, now, ready, unsaid>>
    BY <1>3 DEF Try, Ghosts
  <2>2. CASE a # "loop"
    <3>1. loop' = loop /\ chk'["loop"] = chk["loop"]
      BY <2>1, <2>2, ReturnPc, Names DEF Return
    <3> QED
      BY <2>1, <3>1, AlertStill DEF InActiveBurn
  <2>3. CASE a = "loop"
    <3>1. chk'["loop"].pc = "idle" /\ loop.pc = "checking"
      BY <1>3, <2>1, <2>3, ReturnPc DEF Try, Alert
    <3>2. LoopGoto(loop.onFalse) /\ loop.onFalse \in {"top", "requeue", "burn"}
      BY <2>1, <2>3 DEF Return, TypeInv, LoopOK
    <3>3. CASE loop.onFalse = "top"
      BY <3>1, <3>2, <3>3, GotoPc, AlertAnew DEF TypeInv
    <3>4. CASE loop.onFalse # "top"
      <4>1. loop'.pc \in {"requeue", "burn"} /\ loop'.snap = loop.snap
        BY <3>2, <3>4, GotoKeeps DEF TypeInv
      <4> QED
        BY <2>1, <3>1, <4>1, AlertOnward
    <3> QED
      BY <3>3, <3>4
  <2> QED
    BY <2>2, <2>3
<1>4. CASE Apply(a)
  <2>1. Return(a, TRUE) /\ wake' = TRUE
    BY <1>4, Zenon DEF Apply
  <2>2. chk'["loop"].pc # "idle" => loop'.pc = "checking"
    <3>1. CASE a = "loop"
      BY <2>1, <3>1, ReturnPc
    <3>2. CASE a # "loop"
      BY <2>1, <3>2, ReturnPc, Names DEF Return, Alert
    <3> QED
      BY <3>1, <3>2
  <2> QED
    BY <2>1, <2>2, AlertAnew
<1> QED
  BY <1>2, <1>3, <1>4 DEF CheckStep

LEMMA AlertNext == ASSUME TypeInv, Alert, [Next]_vars PROVE Alert'
<1>1. CASE UseClaude \/ UNCHANGED vars
  BY <1>1, AlertStill DEF UseClaude, vars, InActiveBurn, Ghosts
<1>2. CASE Tick
  <2>1. rs.burnUntil # NULL => rs.burnUntil \in Nat
    BY DEF TypeInv, TypeOK, StateRecord, Time
  <2>2. InActiveBurn(rs)' => InActiveBurn(rs)
    BY <1>2, <2>1 DEF Tick, InActiveBurn, TypeInv, TypeOK
  <2> QED
    BY <1>2, <2>2, AlertStill DEF Tick, Ghosts
<1>3. CASE AddTask
  BY <1>3, AlertAnew DEF AddTask, Alert
<1>8. CASE QueueChanges
  <2>1. (unsaid => unsaid') /\ (ready' > ready => unsaid') /\ ready' \in 0..MaxReady
    BY <1>8, Zenon DEF QueueChanges
  <2>2. ready = 0 => ready' = 0 \/ ready' > ready
    BY <2>1, RunnerAssumption
  <2>3. (ready = 0 \/ unsaid) => (ready' = 0 \/ unsaid')
    BY <2>1, <2>2
  <2> QED
    BY <1>8, <2>3, AlertStill DEF QueueChanges, InActiveBurn
<1>4. ASSUME NEW a \in WebCheck, ManualCheck(a) PROVE Alert'
  <2>1. chk'["loop"] = chk["loop"]
    BY <1>4, Names, RunnerAssumption DEF ManualCheck, TypeInv
  <2> QED
    BY <1>4, <2>1, AlertStill DEF ManualCheck, InActiveBurn
<1>5. ASSUME NEW w \in WebRun, WebStart(w) PROVE Alert'
  <2>1. rs'.state = rs.state /\ rs'.burnUntil = rs.burnUntil
    BY <1>5, LoadPersistedType DEF WebStart, TypeInv
  <2>2. ready = 0 \/ unsaid => ready' = 0 \/ unsaid'
    BY <1>5 DEF WebStart, Ghosts
  <2> QED
    BY <1>5, <2>1, <2>2, AlertStill DEF WebStart, InActiveBurn
<1>6. ASSUME NEW w \in WebRun, WebFinish(w) PROVE Alert'
  BY <1>6, AlertAnew DEF WebFinish, Alert
<1>7. CASE Restart
  BY <1>7, Names DEF Restart, Alert, NewLoop, NoCheck, ColdState, InActiveBurn
<1> QED
  BY <1>1, <1>2, <1>3, <1>4, <1>5, <1>6, <1>7, <1>8, LoopStepAlert, CheckStepAlert
  DEF Next

-----------------------------------------------------------------------------
(* The queue of slots.                                                      *)

Queue ==
  /\ loop.pc = "load" => chk["loop"].pc = "idle"
  /\ loop.pc # "load" => disk.nextResetAt = rs.nextResetAt
  /\ loop.t <= now
  /\ PostResetQueued
  /\ SlotsDistinct

\* Where and with which time the loop goes on.
LEMMA GotoTime ==
  ASSUME LoopOK, NEW l, LoopGoto(l)
  PROVE  loop'.pc = l /\ loop'.t \in {0, loop.t}
  BY DEF LoopGoto, NewLoop, LoopOK

LEMMA LoopCheckTime ==
  ASSUME TypeInv, NEW k, NEW e, NEW f, LoopCheck(k, e, "top", f)
  PROVE  loop'.pc = "checking" /\ loop'.t = loop.t
  BY DEF LoopCheck, TypeInv, LoopOK

LEMMA ReturnTime ==
  ASSUME TypeInv, NEW a \in Checker, NEW result \in BOOLEAN, Return(a, result)
  PROVE  /\ loop'.t \in {0, loop.t}
         /\ IF a = "loop" THEN loop'.pc # "load"
            ELSE loop' = loop /\ chk'["loop"] = chk["loop"]
<1>1. CASE a = "loop"
  <2> DEFINE l == IF result THEN loop.onTrue ELSE loop.onFalse
  <2>1. l # "load" /\ LoopGoto(l)
    BY <1>1 DEF Return, TypeInv, LoopOK
  <2> HIDE DEF l
  <2> QED
    BY <1>1, <2>1, GotoTime DEF TypeInv
<1>2. CASE a # "loop"
  BY <1>2, Names DEF Return, TypeInv
<1> QED
  BY <1>1, <1>2

\* Steps that leave the anchor and the slots alone.
LEMMA QueueStays ==
  ASSUME TypeInv, Queue, UNCHANGED <<sched, disk>>,
         rs'.nextResetAt = rs.nextResetAt, now' \in Nat, now' >= now,
         \/ loop.pc # "load" /\ loop'.pc # "load"
         \/ loop'.pc = loop.pc /\ chk'["loop"] = chk["loop"],
         loop'.t <= now'
  PROVE  Queue'
<1>1. now \in Nat /\ rs.nextResetAt \in Time /\ TPlus5 \in Nat /\ Floor \in Nat
  BY RunnerAssumption DEF TypeInv, TypeOK, StateRecord
<1>2. PostResetQueued'
  BY <1>1 DEF Queue, PostResetQueued, Time
<1> QED
  BY <1>2 DEF Queue, SlotsDistinct

\* What is armed holds T+5 while it is ahead, and every kind once.
LEMMA ArmedSlots ==
  ASSUME NEW anchor, now + Floor < anchor + TPlus5
  PROVE  <<anchor + TPlus5, "post_reset">> \in Armed(anchor)
<1>1. PICK e : e = <<anchor + TPlus5, "post_reset">>
  OBVIOUS
<1>2. e[1] > now + Floor
  BY <1>1
<1> QED
  BY <1>1, <1>2 DEF Armed

LEMMA ArmedDistinct ==
  ASSUME NEW anchor, NEW e \in Armed(anchor), NEW f \in Armed(anchor), e[2] = f[2]
  PROVE  e = f
  BY DEF Armed

\* A new anchor re-arms, and so does a reload.
LEMMA QueueRearmed ==
  ASSUME TypeInv, NEW anchor \in Nat, sched' = Armed(anchor), now' = now,
         rs'.nextResetAt = anchor, disk'.nextResetAt = anchor, loop'.t <= now,
         loop'.pc = "load" => chk'["loop"].pc = "idle"
  PROVE  Queue'
<1>1. PostResetQueued'
  BY ArmedSlots DEF PostResetQueued
<1>2. SlotsDistinct'
  BY ArmedDistinct DEF SlotsDistinct
<1> QED
  BY <1>1, <1>2 DEF Queue

LEMMA QueueLoaded ==
  ASSUME TypeInv, Queue, LoadPersisted, UNCHANGED <<disk, now>>, loop'.t <= now,
         loop'.pc = "load" => chk'["loop"].pc = "idle"
  PROVE  Queue'
<1>1. rs'.nextResetAt = disk.nextResetAt /\ disk.nextResetAt \in Time
  BY DEF LoadPersisted, TypeInv, TypeOK, StateRecord
<1>2. CASE disk.nextResetAt = NULL
  BY <1>1, <1>2 DEF LoadPersisted, Queue, PostResetQueued, SlotsDistinct
<1>3. CASE disk.nextResetAt # NULL
  BY <1>1, <1>3, QueueRearmed DEF LoadPersisted, Time
<1> QED
  BY <1>2, <1>3

LEMMA LoopStepQueue == ASSUME TypeInv, Queue, LoopStep PROVE Queue'
<1>1. /\ now \in Nat /\ loop.t \in Nat /\ rs \in StateRecord /\ loop.t <= now
      /\ Floor \in Nat /\ TPlus5 \in Nat
  BY RunnerAssumption DEF TypeInv, TypeOK, LoopOK, Queue
<1>2. ASSUME NEW l, LoopGoto(l), l # "load", loop.pc # "load", UNCHANGED <<now, sched, disk>>,
             rs'.nextResetAt = rs.nextResetAt
      PROVE  Queue'
  BY <1>1, <1>2, GotoTime, QueueStays DEF TypeInv
<1>3. ASSUME NEW k, NEW e, NEW f, LoopCheck(k, e, "top", f), loop.pc # "load",
             UNCHANGED <<now, rs, sched, disk>>
      PROVE  Queue'
  BY <1>1, <1>3, LoopCheckTime, QueueStays
<1>4. CASE LoopLoad
  <2>1. loop'.t = loop.t /\ loop'.pc = "checking"
    BY <1>4, LoopCheckTime DEF LoopLoad
  <2> QED
    BY <1>1, <1>4, <2>1, QueueLoaded DEF LoopLoad
<1>5. CASE LoopTop
  BY <1>2, <1>5 DEF LoopTop
<1>6. CASE LoopSnap
  <2>1. loop'.t = now /\ loop'.pc = "slots" /\ loop.pc = "snap"
    BY <1>6 DEF LoopSnap, TypeInv, LoopOK
  <2> QED
    BY <1>1, <1>6, <2>1, QueueStays DEF LoopSnap
<1>7. CASE LoopSlots
  <2>1. CASE UNCHANGED <<sched, chk>> /\ LoopGoto("hourly")
    BY <1>2, <1>7, <2>1 DEF LoopSlots
  <2>2. ASSUME NEW e \in sched, e[1] <= loop.t, sched' = sched \ {e},
               LoopCheck(e[2], e, "top", "requeue")
        PROVE  Queue'
    <3>1. loop'.pc = "checking" /\ loop'.t = loop.t
      BY <2>2, LoopCheckTime
    <3>2. UNCHANGED <<now, rs, disk>> /\ loop.pc = "slots"
      BY <1>7 DEF LoopSlots
    <3>3. e[1] \in Nat
      BY DEF TypeInv, TypeOK
    <3>4. PostResetQueued'
      <4>1. SUFFICES ASSUME rs.nextResetAt # NULL, now + Floor < rs.nextResetAt + TPlus5
                     PROVE  <<rs.nextResetAt + TPlus5, "post_reset">> \in sched \ {e}
        BY <2>2, <3>2 DEF PostResetQueued
      <4>2. <<rs.nextResetAt + TPlus5, "post_reset">> \in sched
        BY <3>2, <4>1 DEF Queue, PostResetQueued
      <4>3. rs.nextResetAt \in Nat
        BY <1>1, <4>1 DEF StateRecord, Time
      <4>4. e[1] < rs.nextResetAt + TPlus5
        BY <1>1, <2>2, <3>3, <4>1, <4>3
      <4>5. e # <<rs.nextResetAt + TPlus5, "post_reset">>
        BY <3>3, <4>3, <4>4, <1>1
      <4> QED
        BY <4>2, <4>5
    <3>5. SlotsDistinct'
      BY <2>2 DEF Queue, SlotsDistinct
    <3> QED
      BY <1>1, <3>1, <3>2, <3>4, <3>5 DEF Queue
  <2> QED
    BY <1>7, <2>1, <2>2, Zenon DEF LoopSlots
<1>8. CASE LoopRequeue
  <2>1. /\ loop'.pc = "top" /\ loop'.t \in {0, loop.t}
        /\ UNCHANGED <<now, rs, disk>> /\ sched \subseteq sched' /\ loop.pc = "requeue"
    BY <1>8, GotoTime DEF LoopRequeue, TypeInv
  <2>2. PostResetQueued'
    BY <2>1 DEF Queue, PostResetQueued
  <2>3. SlotsDistinct'
    <3>1. CASE sched' = sched
      BY <3>1 DEF Queue, SlotsDistinct
    <3>2. CASE ~\E e \in sched : e[2] = loop.entry[2]
      <4> DEFINE new == <<AtLeast(now + Floor, loop.entry[1]), loop.entry[2]>>
      <4>1. sched' = sched \cup {new} /\ new[2] = loop.entry[2]
        BY <1>8, <3>2 DEF LoopRequeue
      <4> HIDE DEF new
      <4> QED
        BY <3>2, <4>1 DEF Queue, SlotsDistinct
    <3> QED
      BY <1>8, <3>1, <3>2 DEF LoopRequeue
  <2> QED
    BY <1>1, <2>1, <2>2, <2>3 DEF Queue
<1>9. CASE LoopHourly
  <2>1. UNCHANGED <<now, sched, disk>> /\ rs'.nextResetAt = rs.nextResetAt
    BY <1>1, <1>9 DEF LoopHourly, StateRecord
  <2>2. loop.pc = "hourly" /\ loop'.pc # "load" /\ loop'.t \in {0, loop.t}
    <3>1. \/ LoopGoto("top") \/ LoopGoto("burn") \/ LoopCheck("hourly", NULL, "top", "burn")
      BY <1>9, Zenon DEF LoopHourly
    <3> QED
      BY <1>9, <3>1, GotoTime, LoopCheckTime DEF TypeInv, LoopHourly
  <2> QED
    BY <1>1, <2>1, <2>2, QueueStays
<1>10. CASE LoopBurn
  <2>1. rs'.nextResetAt = rs.nextResetAt
    BY <1>1, <1>10 DEF LoopBurn, StateRecord
  <2>2. \/ LoopGoto("top") \/ LoopGoto("sleep") \/ LoopGoto("wantExec")
    BY <1>10, Zenon DEF LoopBurn
  <2> QED
    BY <1>2, <1>10, <2>1, <2>2 DEF LoopBurn
<1>11. CASE LoopAcquire
  BY <1>2, <1>11 DEF LoopAcquire
<1>12. CASE LoopSelect
  BY <1>2, <1>12 DEF LoopSelect
<1>13. CASE LoopFinish
  BY <1>2, <1>3, <1>13 DEF LoopFinish
<1>14. CASE LoopSleep
  <2>1. loop'.t = loop.t /\ loop'.pc = "wait" /\ loop.pc = "sleep"
    BY <1>14 DEF LoopSleep, TypeInv, LoopOK
  <2> QED
    BY <1>1, <1>14, <2>1, QueueStays DEF LoopSleep
<1>15. CASE LoopWake
  BY <1>2, <1>15 DEF LoopWake
<1> QED
  BY <1>4, <1>5, <1>6, <1>7, <1>8, <1>9, <1>10, <1>11, <1>12, <1>13, <1>14, <1>15
  DEF LoopStep

LEMMA CheckStepQueue ==
  ASSUME TypeInv, Queue, NEW a \in Checker, CheckStep(a) PROVE Queue'
<1>1. now \in Nat /\ loop.t \in Nat /\ rs \in StateRecord /\ loop.t <= now
  BY DEF TypeInv, TypeOK, LoopOK, Queue
<1>2. CASE Try(a)
  <2>1. CASE checkLock = NULL
    <3>1. loop' = loop /\ (a # "loop" => chk'["loop"] = chk["loop"])
      BY <1>2, <2>1, Names DEF Try, TypeInv
    <3>2. a = "loop" => loop.pc # "load"
      BY <1>2 DEF Try, Queue
    <3> QED
      BY <1>1, <1>2, <3>1, <3>2, QueueStays DEF Try
  <2>2. CASE checkLock # NULL
    <3>1. Return(a, FALSE)
      BY <1>2, <2>2 DEF Try
    <3>2. a = "loop" => loop.pc # "load"
      BY <1>2 DEF Try, Queue
    <3>3. /\ \/ loop.pc # "load" /\ loop'.pc # "load"
             \/ loop'.pc = loop.pc /\ chk'["loop"] = chk["loop"]
          /\ loop'.t \in {0, loop.t}
      BY <3>1, <3>2, ReturnTime
    <3>4. UNCHANGED <<now, rs, sched, disk>>
      BY <1>2 DEF Try
    <3>5. loop'.t <= now
      BY <1>1, <3>3
    <3> QED
      BY <1>1, <3>3, <3>4, <3>5, QueueStays
  <2> QED
    BY <2>1, <2>2
<1>3. CASE Decide(a) \/ Crashed(a)
  <2>1. UNCHANGED <<now, rs, sched, disk, loop>> /\ chk[a].pc = "fetch"
    BY <1>3, Zenon DEF Decide, Crashed
  <2>2. chk'["loop"] = chk["loop"] \/ loop.pc # "load"
    <3>1. CASE a = "loop"
      BY <2>1, <3>1 DEF Queue
    <3>2. CASE a # "loop"
      BY <1>3, <3>2, Names DEF Decide, Crashed, TypeInv
    <3> QED
      BY <3>1, <3>2
  <2> QED
    BY <1>1, <2>1, <2>2, QueueStays
<1>4. CASE Apply(a)
  <2> DEFINE c == chk[a]
             fields == [rs EXCEPT !.lastCheckAt = now,
                          !.resetIn = IF c.crashed THEN @ ELSE c.reset,
                          !.failed = c.crashed,
                          !.state = IF c.burn = "keep" THEN @ ELSE c.burn,
                          !.burnUntil = IF c.burn = "keep" THEN @ ELSE c.burnUntil]
  <2>1. /\ \/ rs' = fields /\ UNCHANGED <<sched, disk>>
           \/ c.action # "skip" /\ SetAnchor(fields, c.proposed, c.effective)
        /\ Return(a, TRUE) /\ now' = now
    BY <1>4, Zenon DEF Apply
  <2>2. /\ \/ loop.pc # "load" /\ loop'.pc # "load"
           \/ loop'.pc = loop.pc /\ chk'["loop"] = chk["loop"]
        /\ loop'.pc = "load" => chk'["loop"].pc = "idle"
        /\ loop'.t \in {0, loop.t}
    <3>1. chk[a].pc = "apply"
      BY <1>4 DEF Apply
    <3> QED
      BY <2>1, <3>1, ReturnTime DEF Queue
  <2>3. /\ fields.nextResetAt = rs.nextResetAt
        /\ DOMAIN fields = {"state", "burnUntil", "lastCheckAt", "resetIn",
                            "failed", "nextResetAt", "postResetDone"}
    BY <1>1 DEF StateRecord
  <2> HIDE DEF fields
  <2>4. CASE rs' = fields /\ UNCHANGED <<sched, disk>>
    BY <1>1, <2>1, <2>2, <2>3, <2>4, QueueStays
  <2>5. CASE c.action # "skip" /\ SetAnchor(fields, c.proposed, c.effective)
    <3>1. c.proposed \in Nat
      BY <2>5 DEF TypeInv, CheckOK, CheckRecord, Time
    <3>2. rs'.nextResetAt = c.proposed /\ disk'.nextResetAt = c.proposed
      BY <2>3, <2>5 DEF SetAnchor
    <3> QED
      BY <1>1, <2>1, <2>2, <2>5, <3>1, <3>2, QueueRearmed DEF SetAnchor
  <2> QED
    BY <2>1, <2>4, <2>5
<1> QED
  BY <1>2, <1>3, <1>4 DEF CheckStep

LEMMA QueueNext == ASSUME TypeInv, Queue, [Next]_vars PROVE Queue'
<1>1. now \in Nat /\ loop.t \in Nat /\ rs \in StateRecord /\ loop.t <= now
  BY DEF TypeInv, TypeOK, LoopOK, Queue
<1>2. ASSUME NEW w \in WebRun, WebStart(w) PROVE Queue'
  <2>1. UNCHANGED <<now, disk, loop, chk>> /\ (LoadPersisted \/ UNCHANGED <<rs, sched>>)
    BY <1>2, Zenon DEF WebStart
  <2> QED
    BY <1>1, <2>1, QueueLoaded, QueueStays DEF Queue
<1>3. ASSUME \/ \E a \in WebCheck : ManualCheck(a)
             \/ \E w \in WebRun : WebFinish(w)
             \/ AddTask \/ QueueChanges \/ UseClaude \/ UNCHANGED vars
      PROVE  Queue'
  <2>1. UNCHANGED <<now, rs, sched, disk, loop>>
    BY <1>3, Zenon DEF ManualCheck, WebFinish, AddTask, QueueChanges, UseClaude, vars
  <2>2. chk'["loop"] = chk["loop"]
    <3>1. "loop" \notin WebCheck
      BY RunnerAssumption
    <3> QED
      BY <1>3, <3>1, Names DEF ManualCheck, WebFinish, AddTask, QueueChanges, UseClaude, vars, TypeInv
  <2> QED
    BY <1>1, <2>1, <2>2, QueueStays
<1>4. CASE Restart
  BY <1>1, <1>4, Names DEF NoCheck, Restart, NewLoop, Queue, PostResetQueued, SlotsDistinct
<1>5. CASE Tick
  BY <1>1, <1>5, QueueStays DEF Tick
<1> QED
  BY <1>2, <1>3, <1>4, <1>5, LoopStepQueue, CheckStepQueue DEF Next

LEMMA QueueInit == Init => Queue
  BY Names DEF Init, NewLoop, NoCheck, Queue, PostResetQueued, SlotsDistinct

\* Until it is due, the T+5 check of the current anchor is queued: re-anchors,
\* requeued slots, reloads by run-once and restarts included.
THEOREM PostResetKept == Spec => []PostResetQueued
<1>1. Queue => PostResetQueued
  BY DEF Queue
<1> QED
  BY <1>1, TypeInit, TypeNext, QueueInit, QueueNext, PTL DEF Spec

\* No slot is queued twice.
THEOREM SlotsNeverDoubled == Spec => []SlotsDistinct
<1>1. Queue => SlotsDistinct
  BY DEF Queue
<1> QED
  BY <1>1, TypeInit, TypeNext, QueueInit, QueueNext, PTL DEF Spec
-----------------------------------------------------------------------------
(* Sleep: how long the loop sleeps is computed from the time it took at its *)
(* last look, which is still the time, or a wake-up is due.                 *)

OnTime ==
  /\ loop.pc \in {"slots", "hourly", "burn", "select", "sleep"} /\ ~wake => loop.t = now
  /\ loop.pc = "wantExec" /\ execLock = NULL /\ ~wake => loop.t = now
  /\ /\ loop.pc = "checking" /\ loop.onFalse = "burn" /\ ~wake
     /\ chk["loop"].pc = "try"
     => loop.t = now

\* Whatever is still ahead of the slots of the anchor is queued, so that a
\* reload by run-once adds none.
Filled == loop.pc # "load" /\ rs.nextResetAt # NULL => Armed(rs.nextResetAt) \subseteq sched

Rests ==
  loop.pc = "wait" /\ ~wake =>
    /\ loop.until \in Int
    /\ loop.until <= now \/ \A e \in sched : loop.until <= e[1]

LEMMA GotoOnward ==
  ASSUME LoopOK, NEW l, LoopGoto(l)
  PROVE  loop'.pc = l /\ (l # "top" => loop'.t = loop.t)
  BY DEF LoopGoto, NewLoop, LoopOK

LEMMA LoopStepOnTime == ASSUME TypeInv, Alert, OnTime, LoopStep PROVE OnTime'
<1>1. ASSUME LoopGoto("top") \/ LoopGoto("snap") \/ LoopGoto("execute") PROVE OnTime'
  BY <1>1, GotoOnward DEF OnTime, TypeInv
<1>2. ASSUME NEW l \in {"hourly", "burn", "wantExec", "select", "sleep"}, LoopGoto(l),
             loop.pc \in {"slots", "hourly", "burn", "select"}, UNCHANGED <<now, wake>>
      PROVE  OnTime'
  <2>1. loop'.pc = l /\ loop'.t = loop.t
    BY <1>2, GotoOnward DEF TypeInv
  <2> QED
    BY <1>2, <2>1 DEF OnTime
<1>3. ASSUME NEW k, NEW e, NEW f, LoopCheck(k, e, "top", f),
             f # "burn" \/ (loop.pc = "hourly" /\ UNCHANGED <<now, wake>>)
      PROVE  OnTime'
  <2>1. loop'.pc = "checking" /\ loop'.t = loop.t /\ loop'.onFalse = f
    BY <1>3 DEF LoopCheck, TypeInv, LoopOK
  <2> QED
    BY <1>3, <2>1 DEF OnTime
<1>4. CASE LoopLoad \/ LoopTop \/ LoopRequeue \/ LoopFinish \/ LoopWake
  BY <1>1, <1>3, <1>4 DEF LoopLoad, LoopTop, LoopRequeue, LoopFinish, LoopWake
<1>5. CASE LoopSnap
  <2>1. loop'.pc = "slots" /\ loop'.t = now /\ now' = now
    BY <1>5 DEF LoopSnap, TypeInv, LoopOK
  <2> QED
    BY <2>1 DEF OnTime
<1>6. CASE LoopSlots
  BY <1>2, <1>3, <1>6 DEF LoopSlots
<1>7. CASE LoopHourly
  BY <1>1, <1>2, <1>3, <1>7 DEF LoopHourly
<1>8. CASE LoopBurn
  BY <1>1, <1>2, <1>8 DEF LoopBurn
<1>9. CASE LoopAcquire
  <2>1. loop'.pc = "select" /\ loop'.t = loop.t
    BY <1>9, GotoOnward DEF LoopAcquire, TypeInv
  <2> QED
    BY <1>9, <2>1 DEF LoopAcquire, OnTime
<1>10. CASE LoopSelect
  BY <1>1, <1>2, <1>10 DEF LoopSelect
<1>11. CASE LoopSleep
  <2>1. loop'.pc = "wait"
    BY <1>11 DEF LoopSleep, TypeInv, LoopOK
  <2> QED
    BY <2>1 DEF OnTime
<1> QED
  BY <1>4, <1>5, <1>6, <1>7, <1>8, <1>9, <1>10, <1>11 DEF LoopStep

LEMMA CheckStepOnTime ==
  ASSUME TypeInv, Alert, OnTime, NEW a \in Checker, CheckStep(a)
  PROVE  OnTime'
<1>1. CASE Apply(a)
  BY <1>1, Zenon DEF Apply, OnTime
<1>2. ASSUME loop' = loop, UNCHANGED <<now, wake, execLock>>,
             chk'["loop"].pc = "try" => chk["loop"].pc = "try"
      PROVE  OnTime'
  BY <1>2 DEF OnTime
<1>3. CASE Decide(a) \/ Crashed(a) \/ (Try(a) /\ checkLock = NULL)
  <2>1. UNCHANGED <<loop, now, wake, execLock>>
    BY <1>3 DEF Decide, Crashed, Try
  <2>2. chk'["loop"].pc = "try" => chk["loop"].pc = "try"
    <3>1. CASE Decide(a)
      <4>1. PICK k, r, p : chk' = [chk EXCEPT ![a] = Decided(k, r, p)]
        BY <3>1, Zenon DEF Decide
      <4>2. Decided(k, r, p).pc = "apply"
        BY DEF Decided
      <4> QED
        BY <4>1, <4>2, Names DEF TypeInv
    <3>2. CASE Crashed(a) \/ (Try(a) /\ checkLock = NULL)
      <4>1. \A b \in Checker \ {a} : chk'[b] = chk[b]
        BY <3>2 DEF Crashed, Try, TypeInv
      <4>2. chk[a] \in CheckRecord
        BY DEF TypeInv, CheckOK
      <4>3. \/ chk'[a] = [chk[a] EXCEPT !.pc = "fetch", !.since = now]
            \/ chk'[a] = [chk[a] EXCEPT !.pc = "apply", !.crashed = TRUE]
        BY <3>2 DEF Crashed, Try, TypeInv
      <4>4. chk'[a].pc # "try"
        BY <4>2, <4>3 DEF CheckRecord
      <4> QED
        BY <4>1, <4>4, Names
    <3> QED
      BY <1>3, <3>1, <3>2
  <2> QED
    BY <1>2, <2>1, <2>2
<1>4. CASE Try(a) /\ checkLock # NULL
  <2>1. Return(a, FALSE) /\ UNCHANGED <<now, wake, execLock>> /\ chk[a].pc = "try"
    BY <1>4 DEF Try
  <2>2. CASE a # "loop"
    <3>1. loop' = loop /\ chk'["loop"] = chk["loop"]
      BY <2>1, <2>2, ReturnPc, Names DEF Return
    <3> QED
      BY <1>2, <2>1, <3>1
  <2>3. CASE a = "loop"
    <3>1. LoopGoto(loop.onFalse) /\ loop.onFalse \in {"top", "requeue", "burn"}
      BY <2>1, <2>3 DEF Return, TypeInv, LoopOK
    <3>2. loop'.pc = loop.onFalse /\ (loop.onFalse # "top" => loop'.t = loop.t)
      BY <3>1, GotoOnward DEF TypeInv
    <3>3. loop.pc = "checking"
      BY <2>1, <2>3 DEF Alert
    <3> QED
      BY <2>1, <2>3, <3>1, <3>2, <3>3 DEF OnTime
  <2> QED
    BY <2>2, <2>3
<1> QED
  BY <1>1, <1>3, <1>4 DEF CheckStep

LEMMA OnTimeNext == ASSUME TypeInv, Alert, OnTime, [Next]_vars PROVE OnTime'
<1>1. CASE UNCHANGED vars \/ AddTask \/ QueueChanges \/ UseClaude
  BY <1>1 DEF vars, AddTask, QueueChanges, UseClaude, OnTime
<1>2. CASE Tick
  <2>1. chk["loop"].pc \in {"idle", "fetch"}
    BY <1>2, Names DEF Tick
  <2> QED
    BY <1>2, <2>1 DEF Tick, OnTime
<1>3. ASSUME NEW a \in WebCheck, ManualCheck(a) PROVE OnTime'
  <2>1. chk'["loop"] = chk["loop"]
    BY <1>3, RunnerAssumption, Names DEF ManualCheck, TypeInv
  <2> QED
    BY <1>3, <2>1 DEF ManualCheck, OnTime
<1>4. ASSUME NEW w \in WebRun, WebStart(w) \/ WebFinish(w) PROVE OnTime'
  BY <1>4, Zenon DEF WebStart, WebFinish, OnTime
<1>5. CASE Restart
  BY <1>5 DEF Restart, NewLoop, OnTime
<1> QED
  BY <1>1, <1>2, <1>3, <1>4, <1>5, LoopStepOnTime, CheckStepOnTime DEF Next

\* What is ahead of an anchor's slots gets less as time passes.
LEMMA FilledStays ==
  ASSUME TypeInv, Filled, sched \subseteq sched', rs'.nextResetAt = rs.nextResetAt,
         now' \in Nat, now' >= now, loop'.pc # "load" => loop.pc # "load"
  PROVE  Filled'
<1> SUFFICES ASSUME loop'.pc # "load", rs'.nextResetAt # NULL,
                    NEW e \in Armed(rs.nextResetAt)'
             PROVE  e \in sched'
  BY DEF Filled
<1>1. /\ now \in Nat /\ rs.nextResetAt \in Nat
      /\ {TMinus60, TMinus10, TPlus5, Floor} \subseteq Nat
  BY RunnerAssumption DEF TypeInv, TypeOK, StateRecord, Time
<1>2. /\ e \in {<<rs.nextResetAt - TMinus60, "t_minus_60">>,
                <<rs.nextResetAt - TMinus10, "pre_reset">>,
                <<rs.nextResetAt + TPlus5, "post_reset">>}
      /\ e[1] > now' + Floor
  BY DEF Armed
<1>3. e[1] > now + Floor
  BY <1>1, <1>2
<1>4. e \in Armed(rs.nextResetAt)
  BY <1>2, <1>3 DEF Armed
<1> QED
  BY <1>4 DEF Filled

\* A reload of the running loop's own anchor adds no slot.
LEMMA FilledLoaded ==
  ASSUME TypeInv, Queue, Filled, LoadPersisted, UNCHANGED <<disk, now>>
  PROVE  Filled' /\ (loop.pc # "load" => sched' \subseteq sched)
<1>1. rs'.nextResetAt = disk.nextResetAt
  BY DEF LoadPersisted, TypeInv, TypeOK, StateRecord
<1>2. Armed(disk.nextResetAt)' = Armed(disk.nextResetAt)
  BY DEF Armed
<1>3. Filled'
  BY <1>1, <1>2 DEF LoadPersisted, Filled
<1>4. loop.pc # "load" => sched' \subseteq sched
  BY DEF LoadPersisted, Filled, Queue
<1> QED
  BY <1>3, <1>4

\* The slot the loop pops is due, and so not ahead.
LEMMA FilledPopped ==
  ASSUME TypeInv, Queue, Filled, UNCHANGED <<rs, now>>, loop.pc # "load",
         NEW e \in sched, e[1] <= loop.t, sched' = sched \ {e}
  PROVE  Filled'
<1>1. now \in Nat /\ Floor \in Nat /\ loop.t \in Nat /\ loop.t <= now /\ e[1] \in Nat
  BY RunnerAssumption DEF TypeInv, TypeOK, LoopOK, Queue
<1>2. ~(e[1] > now + Floor)
  BY <1>1
<1>3. e \notin Armed(rs.nextResetAt)
  BY <1>2 DEF Armed
<1>4. Armed(rs.nextResetAt)' = Armed(rs.nextResetAt)
  BY DEF Armed
<1> QED
  BY <1>3, <1>4 DEF Filled

LEMMA LoopStepFilled == ASSUME TypeInv, Queue, Filled, LoopStep PROVE Filled'
<1>1. now \in Nat /\ rs \in StateRecord
  BY DEF TypeInv, TypeOK
<1>2. ASSUME loop.pc # "load", now' = now, sched \subseteq sched',
             rs'.nextResetAt = rs.nextResetAt
      PROVE  Filled'
  BY <1>1, <1>2, FilledStays
<1>3. CASE LoopLoad
  BY <1>3, FilledLoaded DEF LoopLoad
<1>4. CASE LoopTop \/ LoopSnap \/ LoopAcquire \/ LoopSelect \/ LoopFinish \/ LoopSleep
           \/ LoopWake
  BY <1>2, <1>4 DEF LoopTop, LoopSnap, LoopAcquire, LoopSelect, LoopFinish, LoopSleep,
     LoopWake
<1>5. CASE LoopSlots
  BY <1>2, <1>5, FilledPopped DEF LoopSlots
<1>6. CASE LoopRequeue
  BY <1>2, <1>6 DEF LoopRequeue
<1>7. CASE LoopHourly
  BY <1>1, <1>2, <1>7 DEF LoopHourly, StateRecord
<1>8. CASE LoopBurn
  BY <1>1, <1>2, <1>8 DEF LoopBurn, StateRecord
<1> QED
  BY <1>3, <1>4, <1>5, <1>6, <1>7, <1>8 DEF LoopStep

LEMMA ApplyFilled ==
  ASSUME TypeInv, Queue, Filled, NEW a \in Checker, Apply(a) PROVE Filled'
<1> DEFINE c == chk[a]
           fields == [rs EXCEPT !.lastCheckAt = now,
                        !.resetIn = IF c.crashed THEN @ ELSE c.reset,
                        !.failed = c.crashed,
                        !.state = IF c.burn = "keep" THEN @ ELSE c.burn,
                        !.burnUntil = IF c.burn = "keep" THEN @ ELSE c.burnUntil]
<1>1. /\ \/ rs' = fields /\ UNCHANGED <<sched, disk>>
         \/ SetAnchor(fields, c.proposed, c.effective)
      /\ Return(a, TRUE) /\ now' = now /\ c.pc = "apply"
  BY Zenon DEF Apply
<1>2. /\ fields.nextResetAt = rs.nextResetAt
      /\ DOMAIN fields = {"state", "burnUntil", "lastCheckAt", "resetIn",
                          "failed", "nextResetAt", "postResetDone"}
  BY DEF StateRecord, TypeInv, TypeOK
<1>3. loop'.pc # "load" => loop.pc # "load"
  BY <1>1, ReturnTime DEF Queue
<1>4. now \in Nat
  BY DEF TypeInv, TypeOK
<1> HIDE DEF fields, c
<1>5. CASE rs' = fields /\ UNCHANGED <<sched, disk>>
  BY <1>1, <1>2, <1>3, <1>4, <1>5, FilledStays
<1>6. CASE SetAnchor(fields, c.proposed, c.effective)
  <2>1. rs'.nextResetAt = c.proposed /\ sched' = Armed(c.proposed)
    BY <1>2, <1>6 DEF SetAnchor
  <2>2. Armed(rs.nextResetAt)' = Armed(c.proposed)
    BY <1>1, <2>1 DEF Armed
  <2> QED
    BY <2>1, <2>2 DEF Filled
<1> QED
  BY <1>1, <1>5, <1>6

LEMMA FilledNext == ASSUME TypeInv, Queue, Filled, [Next]_vars PROVE Filled'
<1>1. now \in Nat
  BY DEF TypeInv, TypeOK
<1>2. ASSUME NEW a \in Checker, Try(a) \/ Decide(a) \/ Crashed(a) PROVE Filled'
  <2>1. UNCHANGED <<now, rs, sched>>
    BY <1>2, Zenon DEF Try, Decide, Crashed
  <2>2. loop'.pc # "load" => loop.pc # "load"
    <3>1. CASE loop' = loop
      BY <3>1
    <3>2. CASE loop' # loop
      <4>1. Try(a) /\ Return(a, FALSE)
        BY <1>2, <3>2, Zenon DEF Try, Decide, Crashed
      <4> QED
        BY <3>2, <4>1, ReturnTime DEF Queue, Try
    <3> QED
      BY <3>1, <3>2
  <2> QED
    BY <1>1, <2>1, <2>2, FilledStays
<1>3. ASSUME \/ \E a \in WebCheck : ManualCheck(a)
             \/ \E w \in WebRun : WebFinish(w)
             \/ AddTask \/ QueueChanges \/ UseClaude \/ UNCHANGED vars
      PROVE  Filled'
  <2>1. UNCHANGED <<now, rs, sched, loop>>
    BY <1>3, Zenon DEF ManualCheck, WebFinish, AddTask, QueueChanges, UseClaude, vars
  <2> QED
    BY <1>1, <2>1, FilledStays
<1>4. ASSUME NEW w \in WebRun, WebStart(w) PROVE Filled'
  <2>1. UNCHANGED <<now, disk, loop>> /\ (LoadPersisted \/ UNCHANGED <<rs, sched>>)
    BY <1>4, Zenon DEF WebStart
  <2> QED
    BY <1>1, <2>1, FilledLoaded, FilledStays
<1>5. CASE Restart
  BY <1>5 DEF Restart, NewLoop, Filled
<1>6. CASE Tick
  BY <1>1, <1>6, FilledStays DEF Tick
<1> QED
  BY <1>2, <1>3, <1>4, <1>5, <1>6, LoopStepFilled, ApplyFilled DEF Next, CheckStep

\* The queue holds three slots at most, so there is a first one.
LEMMA LeastOfThree ==
  ASSUME NEW p \in Int, NEW q \in Int, NEW r \in Int, NEW S, S \subseteq {p, q, r}, S # {}
  PROVE  Least(S) \in S /\ \A y \in S : Least(S) <= y
<1>1. \E x \in S : \A y \in S : x <= y
  <2>1. ASSUME NEW x \in S, p \in S => x <= p, q \in S => x <= q, r \in S => x <= r
        PROVE  \E m \in S : \A y \in S : m <= y
    BY <2>1
  <2>2. CASE p \in S /\ (q \in S => p <= q) /\ (r \in S => p <= r)
    BY <2>1, <2>2
  <2>3. CASE q \in S /\ (p \in S => q <= p) /\ (r \in S => q <= r)
    BY <2>1, <2>3
  <2>4. CASE r \in S /\ (p \in S => r <= p) /\ (q \in S => r <= q)
    BY <2>1, <2>4
  <2>5. p \in S \/ q \in S \/ r \in S
    OBVIOUS
  <2> QED
    BY <2>2, <2>3, <2>4, <2>5
<1> QED
  BY <1>1, Zenon DEF Least

LEMMA OneOfAKind ==
  ASSUME TypeInv, Queue, NEW k PROVE \E p \in Int : \A e \in sched : e[2] = k => e[1] = p
<1>1. CASE \E e \in sched : e[2] = k
  <2>1. PICK e \in sched : e[2] = k
    BY <1>1
  <2>2. e[1] \in Int /\ \A f \in sched : f[2] = k => f = e
    BY <2>1 DEF Queue, SlotsDistinct, TypeInv, TypeOK
  <2> QED
    BY <2>2
<1>2. CASE ~\E e \in sched : e[2] = k
  BY <1>2
<1> QED
  BY <1>1, <1>2

LEMMA FirstSlot ==
  ASSUME TypeInv, Queue, sched # {}
  PROVE  LET m == Least({e[1] : e \in sched}) IN m \in Int /\ \A e \in sched : m <= e[1]
<1>1. PICK p \in Int : \A e \in sched : e[2] = "t_minus_60" => e[1] = p
  BY OneOfAKind
<1>2. PICK q \in Int : \A e \in sched : e[2] = "pre_reset" => e[1] = q
  BY OneOfAKind
<1>3. PICK r \in Int : \A e \in sched : e[2] = "post_reset" => e[1] = r
  BY OneOfAKind
<1> DEFINE T == {e[1] : e \in sched}
<1>4. T \subseteq {p, q, r} /\ T # {} /\ T \subseteq Int /\ \A e \in sched : e[1] \in T
  BY <1>1, <1>2, <1>3 DEF TypeInv, TypeOK, Slot
<1>5. Least(T) \in T /\ \A y \in T : Least(T) <= y
  <2> HIDE DEF T
  <2> QED
    BY <1>4, LeastOfThree
<1> QED
  BY <1>4, <1>5

LEMMA HourType == ASSUME NEW x \in Time PROVE NextHour(x) \in Int
<1>1. Hour \in Nat \ {0} /\ MaxTime \in Int /\ Cycle \in Int
  BY RunnerAssumption
<1>2. CASE x = NULL
  BY <1>1, <1>2 DEF NextHour
<1>3. CASE x # NULL
  <2>1. x \in Nat
    BY <1>3 DEF Time
  <2>2. (x \div Hour) \in Int
    BY <1>1, <2>1
  <2>3. \A i \in Int : (i + 1) * Hour \in Int
    BY <1>1
  <2> QED
    BY <1>3, <2>2, <2>3 DEF NextHour
<1> QED
  BY <1>2, <1>3

\* A sleep that is computed with the present time ends by the first slot.
LEMMA WakeupInTime ==
  ASSUME TypeInv, Queue, loop.t = now
  PROVE  /\ NextWakeup(loop) \in Int
         /\ NextWakeup(loop) <= now \/ \A e \in sched : NextWakeup(loop) <= e[1]
<1> DEFINE m == Least({e[1] : e \in sched})
           h == NextHour(loop.snap.lastCheckAt) - loop.t
           slot == IF sched = {} THEN {} ELSE {m - loop.t}
           own == IF loop.snap.state = "chilling" THEN {h, SleepCap} ELSE {PollTick}
           all == slot \cup own
<1>1. now \in Nat /\ SleepCap \in Int /\ PollTick \in Int
  BY RunnerAssumption DEF TypeInv, TypeOK
<1>2. h \in Int
  <2>1. loop.snap.lastCheckAt \in Time
    BY DEF TypeInv, TypeOK, StateRecord
  <2>2. NextHour(loop.snap.lastCheckAt) \in Int
    BY <2>1, HourType
  <2> QED
    BY <1>1, <2>2
<1>3. sched # {} => m \in Int /\ \A e \in sched : m <= e[1]
  BY FirstSlot
<1>4. NextWakeup(loop) = now + AtLeast(0, Least(all))
  BY DEF NextWakeup
<1> HIDE DEF m, h
<1>5. Least(all) \in all /\ \A y \in all : Least(all) <= y
  <2>1. PICK i \in Int : sched # {} => i = m - loop.t
    BY <1>1, <1>3
  <2>2. CASE loop.snap.state = "chilling"
    <3>1. all \subseteq {i, h, SleepCap} /\ all # {}
      BY <2>1, <2>2
    <3> HIDE DEF all
    <3> QED
      BY <1>1, <1>2, <2>1, <3>1, LeastOfThree
  <2>3. CASE loop.snap.state # "chilling"
    <3>1. all \subseteq {i, PollTick, PollTick} /\ all # {}
      BY <2>1, <2>3
    <3> HIDE DEF all
    <3> QED
      BY <1>1, <2>1, <3>1, LeastOfThree
  <2> QED
    BY <2>2, <2>3
<1>6. Least(all) \in Int /\ (sched # {} => Least(all) <= m - now)
  BY <1>1, <1>2, <1>3, <1>5
<1> HIDE DEF all
<1>7. \/ NextWakeup(loop) = now
      \/ NextWakeup(loop) = now + Least(all)
  BY <1>1, <1>4, <1>6 DEF AtLeast
<1>8. \A e \in sched : e[1] \in Int
  BY DEF TypeInv, TypeOK
<1> QED
  BY <1>1, <1>3, <1>6, <1>7, <1>8

LEMMA RestsNext ==
  ASSUME TypeInv, Queue, Alert, OnTime, Filled, Rests, [Next]_vars PROVE Rests'
<1>1. ASSUME loop'.pc # "wait" \/ wake' PROVE Rests'
  BY <1>1 DEF Rests
<1>2. ASSUME loop' = loop, wake' = wake, now' = now, loop.pc = "wait" => sched' \subseteq sched
      PROVE  Rests'
  BY <1>2 DEF Rests
<1>3. CASE LoopStep /\ ~LoopSleep
  <2>1. ASSUME NEW l \in LoopPc, LoopGoto(l), l # "wait" PROVE loop'.pc # "wait"
    BY <2>1, GotoPc DEF TypeInv
  <2>2. ASSUME NEW k, NEW e, NEW f, LoopCheck(k, e, "top", f) PROVE loop'.pc # "wait"
    BY <2>2, LoopCheckPc
  <2>3. CASE LoopSnap
    BY <1>1, <2>3 DEF LoopSnap, TypeInv, LoopOK
  <2>4. CASE LoopLoad \/ LoopTop \/ LoopSlots \/ LoopRequeue \/ LoopHourly
    BY <1>1, <2>1, <2>2, <2>4 DEF LoopLoad, LoopTop, LoopSlots, LoopRequeue, LoopHourly,
       LoopPc
  <2>5. CASE LoopBurn \/ LoopAcquire \/ LoopSelect \/ LoopFinish \/ LoopWake
    BY <1>1, <2>1, <2>2, <2>5 DEF LoopBurn, LoopAcquire, LoopSelect, LoopFinish, LoopWake,
       LoopPc
  <2> QED
    BY <1>3, <2>3, <2>4, <2>5 DEF LoopStep
<1>4. CASE LoopSleep
  <2>1. CASE wake
    BY <1>1, <1>4, <2>1 DEF LoopSleep
  <2>2. CASE ~wake
    <3>1. loop.t = now
      BY <1>4, <2>2 DEF LoopSleep, OnTime
    <3>2. loop'.until = NextWakeup(loop) /\ UNCHANGED <<now, sched>>
      BY <1>4 DEF LoopSleep, TypeInv, LoopOK
    <3> QED
      BY <3>1, <3>2, WakeupInTime DEF Rests
  <2> QED
    BY <2>1, <2>2
<1>5. ASSUME NEW a \in Checker, CheckStep(a) PROVE Rests'
  <2>1. CASE Apply(a)
    BY <1>1, <2>1, Zenon DEF Apply
  <2>2. CASE Try(a) \/ Decide(a) \/ Crashed(a)
    <3>1. UNCHANGED <<wake, now, sched>>
      BY <2>2, Zenon DEF Try, Decide, Crashed
    <3>2. loop' = loop \/ loop'.pc # "wait"
      <4>1. UNCHANGED loop \/ Return(a, FALSE)
        BY <2>2, Zenon DEF Try, Decide, Crashed
      <4> QED
        BY <4>1, ReturnPc
    <3> QED
      BY <1>1, <1>2, <3>1, <3>2
  <2> QED
    BY <1>5, <2>1, <2>2 DEF CheckStep
<1>6. ASSUME NEW a \in WebCheck, ManualCheck(a) PROVE Rests'
  BY <1>2, <1>6 DEF ManualCheck
<1>7. ASSUME NEW w \in WebRun, WebStart(w) PROVE Rests'
  <2>1. UNCHANGED <<now, wake, disk, loop>> /\ (LoadPersisted \/ UNCHANGED <<rs, sched>>)
    BY <1>7, Zenon DEF WebStart
  <2> QED
    BY <1>2, <2>1, FilledLoaded
<1>8. CASE Tick
  <2>1. now \in Nat
    BY DEF TypeInv, TypeOK
  <2> QED
    BY <1>8, <2>1 DEF Tick, Rests
<1>9. CASE Restart
  BY <1>1, <1>9 DEF Restart, NewLoop
<1>10. CASE UNCHANGED vars \/ UseClaude \/ QueueChanges
  BY <1>2, <1>10 DEF vars, UseClaude, QueueChanges
<1>11. CASE AddTask \/ \E w \in WebRun : WebFinish(w)
  BY <1>1, <1>11 DEF AddTask, WebFinish
<1> QED
  BY <1>3, <1>4, <1>5, <1>6, <1>7, <1>8, <1>9, <1>10, <1>11 DEF Next

\* While the loop sleeps every slot is still ahead, whatever re-arms, requeues
\* or reloads them meanwhile, and however long it waited for the execution
\* lock before.
THEOREM SlotsNotSleptThrough == Spec => []NoSlotSleptThrough
<1> DEFINE I == Queue /\ Alert /\ OnTime /\ Filled /\ Rests
<1>1. Init => Alert
  BY Names DEF Init, Alert, NewLoop, NoCheck, ColdState, InActiveBurn
<1>2. Init => OnTime /\ Filled /\ Rests
  BY DEF Init, NewLoop, OnTime, Filled, Rests
<1>3. TypeInv /\ I /\ [Next]_vars => I'
  BY QueueNext, AlertNext, OnTimeNext, FilledNext, RestsNext
<1>4. TypeInv /\ I => NoSlotSleptThrough
  <2> SUFFICES ASSUME TypeInv, I, loop.pc = "wait", ~wake, now < loop.until, NEW e \in sched
               PROVE  e[1] > now
    BY DEF NoSlotSleptThrough
  <2>1. now \in Int /\ e[1] \in Int
    BY DEF TypeInv, TypeOK
  <2>2. loop.until \in Int /\ (loop.until <= now \/ loop.until <= e[1])
    BY DEF Rests
  <2> QED
    BY <2>1, <2>2
<1> HIDE DEF I
<1>5. Init => I
  BY <1>1, <1>2, QueueInit DEF I
<1> QED
  BY <1>3, <1>4, <1>5, TypeInit, TypeNext, PTL DEF Spec

-----------------------------------------------------------------------------
(* Gates: with exact readings, a reading whose reset lies ahead is one of   *)
(* the present session, whatever was read, applied and kept in between.     *)

ExactReadings == Jitter = {0} /\ StartsIn \subseteq 0..Cycle

Fits(t, r) == t # NULL /\ r # NULL /\ t + r > now => t + r = session

Readings ==
  /\ session <= now + Cycle
  /\ ~faked /\ ~rs.failed => Fits(rs.lastCheckAt, rs.resetIn)
  /\ \A a \in Checker : chk[a].pc = "apply" /\ ~chk[a].crashed => Fits(now, chk[a].reset)

\* A session ends before the next one begins, which lasts a cycle.
LEMMA SessionMoves ==
  ASSUME TypeInv, [Next]_vars
  PROVE  /\ now' \in Nat /\ now' >= now /\ session' \in Nat
         /\ session' = session \/ (session <= now /\ session' = now + Cycle)
         /\ now' = now \/ \A a \in Checker : chk[a].pc # "apply" /\ UNCHANGED <<chk, rs, faked>>
<1>1. session \in Nat /\ now \in Nat /\ Cycle \in Nat
  BY RunnerAssumption DEF TypeInv, TypeOK
<1>2. session' = session \/ (session <= now /\ session' = now + Cycle)
  <2>1. ASSUME NEW a \in Checker, CheckStep(a)
        PROVE  session' = session \/ (session <= now /\ session' = now + Cycle)
    <3>1. CASE Decide(a)
      BY <3>1, Zenon DEF Decide, Fetched
    <3> QED
      BY <2>1, <3>1 DEF CheckStep, Try, Crashed, Apply
  <2> QED
    BY <2>1, Zenon DEF Next, LoopStep, LoopLoad, LoopTop, LoopSnap, LoopSlots,
       LoopRequeue, LoopHourly, LoopBurn, LoopAcquire, LoopSelect, LoopFinish,
       LoopSleep, LoopWake, ManualCheck, WebStart, WebFinish, AddTask, QueueChanges, UseClaude,
       Restart, Tick, vars
<1>3. CASE Tick
  BY <1>1, <1>2, <1>3 DEF Tick, Ghosts
<1>4. CASE ~Tick
  <2>1. now' = now
    BY <1>4, Zenon DEF Next, LoopStep, LoopLoad, LoopTop, LoopSnap, LoopSlots,
       LoopRequeue, LoopHourly, LoopBurn, LoopAcquire, LoopSelect, LoopFinish,
       LoopSleep, LoopWake, CheckStep, Try, Decide, Crashed, Apply, ManualCheck,
       WebStart, WebFinish, AddTask, QueueChanges, UseClaude, Restart, vars
  <2> QED
    BY <1>1, <1>2, <2>1
<1> QED
  BY <1>3, <1>4

\* An old reading is of this session, or its time is over.
LEMMA FitsStays ==
  ASSUME TypeInv, now' \in Nat, now' >= now,
         session' = session \/ session <= now,
         NEW t \in Time, NEW r \in Time, Fits(t, r)
  PROVE  Fits(t, r)'
<1>1. now \in Nat /\ session \in Nat
  BY DEF TypeInv, TypeOK
<1>2. t # NULL /\ r # NULL => t \in Nat /\ r \in Nat
  BY DEF Time
<1> QED
  BY <1>1, <1>2 DEF Fits

\* Steps that apply nothing and decide nothing.
LEMMA ReadingsStay ==
  ASSUME TypeInv, Readings, [Next]_vars,
         \/ faked' \/ rs'.failed
         \/ UNCHANGED faked /\ UNCHANGED <<rs.lastCheckAt, rs.resetIn, rs.failed>>,
         \A a \in Checker : chk'[a] = chk[a] \/ chk'[a].pc # "apply" \/ chk'[a].crashed
  PROVE  Readings'
<1>1. /\ now' \in Nat /\ now' >= now /\ session' \in Nat /\ now \in Nat /\ Cycle \in Nat
      /\ session \in Nat
      /\ session' = session \/ (session <= now /\ session' = now + Cycle)
      /\ now' = now \/ \A a \in Checker : (chk[a].pc # "apply" /\ UNCHANGED chk)
  BY SessionMoves, RunnerAssumption DEF TypeInv, TypeOK
<1>2. session' <= now' + Cycle
  BY <1>1, SMTT(30) DEF Readings
<1>3. rs.lastCheckAt \in Time /\ rs.resetIn \in Time
  BY DEF TypeInv, TypeOK, StateRecord
<1>4. ~faked' /\ ~rs'.failed => Fits(rs.lastCheckAt, rs.resetIn)'
  <2> SUFFICES ASSUME ~faked', ~rs'.failed PROVE Fits(rs.lastCheckAt, rs.resetIn)'
    OBVIOUS
  <2>1. /\ ~faked /\ ~rs.failed
        /\ rs'.lastCheckAt = rs.lastCheckAt /\ rs'.resetIn = rs.resetIn
    OBVIOUS
  <2>2. Fits(rs.lastCheckAt, rs.resetIn)
    BY <2>1 DEF Readings
  <2>3. now \in Nat /\ now' \in Nat /\ now' >= now /\ (session' = session \/ session <= now)
    BY <1>1
  <2> DEFINE t == rs.lastCheckAt
             r == rs.resetIn
  <2>4. t # NULL /\ r # NULL => t \in Nat /\ r \in Nat
    BY <1>3 DEF Time
  <2>5. (t # NULL /\ r # NULL /\ t + r > now' => t + r = session')
    BY <1>1, <2>2, <2>3, <2>4 DEF Fits
  <2> QED
    BY <2>1, <2>5 DEF Fits
<1>5. ASSUME NEW a \in Checker, chk'[a].pc = "apply", ~chk'[a].crashed
      PROVE  Fits(now, chk[a].reset)'
  <2>1. chk'[a] = chk[a] /\ now' = now
    BY <1>1, <1>5
  <2>2. chk[a].reset \in Time
    BY DEF TypeInv, CheckOK, CheckRecord
  <2>3. chk[a].reset # NULL => chk[a].reset \in Nat
    BY <2>2 DEF Time
  <2>4. Fits(now, chk[a].reset)
    BY <1>5, <2>1 DEF Readings
  <2> QED
    BY <1>1, <2>1, <2>3, <2>4 DEF Fits
<1> QED
  BY <1>2, <1>4, <1>5 DEF Readings

\* What is read is what is left of the session.
LEMMA DecideReadings ==
  ASSUME ExactReadings, TypeInv, Readings, [Next]_vars, NEW a \in Checker, Decide(a)
  PROVE  Readings'
<1>1. /\ now' \in Nat /\ now' = now /\ session' \in Nat /\ Cycle \in Nat /\ session \in Nat
      /\ session' = session \/ (session <= now /\ session' = now + Cycle)
  <2>1. now' = now
    BY Zenon DEF Decide
  <2> QED
    BY <2>1, SessionMoves, RunnerAssumption DEF TypeInv, TypeOK
<1>2. PICK reset \in {NULL} \cup 0..(Cycle + Cycle), plenty \in BOOLEAN :
        /\ Fetched(reset)
        /\ chk' = [chk EXCEPT ![a] = Decided(chk[a].kind, reset, plenty)]
        /\ UNCHANGED <<rs, faked>>
  BY Zenon DEF Decide, Ghosts
<1>3. /\ chk'[a] = Decided(chk[a].kind, reset, plenty)
      /\ \A b \in Checker \ {a} : chk'[b] = chk[b]
  BY <1>2 DEF TypeInv
<1>4. chk'[a].reset = reset
  BY <1>3 DEF Decided
<1>5. reset # NULL => reset = AtLeast(0, session' - now)
  <2>1. \A j \in Jitter : j = 0
    BY DEF ExactReadings
  <2>2. session' - now + 0 = session' - now
    BY <1>1
  <2> QED
    BY <1>2, <2>1, <2>2 DEF Fetched
<1>6. Fits(now, chk[a].reset)'
  <2>1. reset # NULL => reset = 0 \/ reset = session' - now
    BY <1>5 DEF AtLeast
  <2>2. reset # NULL /\ now + reset > now => now + reset = session'
    <3>1. now \in Int /\ session' \in Int
      BY <1>1
    <3> QED
      BY <2>1, <3>1
  <2> QED
    BY <1>1, <1>4, <2>2 DEF Fits
<1>7. session' <= now' + Cycle
  BY <1>1 DEF Readings
<1>8. ~faked' /\ ~rs'.failed => Fits(rs.lastCheckAt, rs.resetIn)'
  <2>1. rs.lastCheckAt \in Time /\ rs.resetIn \in Time
    BY DEF TypeInv, TypeOK, StateRecord
  <2>2. ~faked /\ ~rs.failed => Fits(rs.lastCheckAt, rs.resetIn)
    BY DEF Readings
  <2>3. rs.lastCheckAt # NULL /\ rs.resetIn # NULL
          => rs.lastCheckAt \in Nat /\ rs.resetIn \in Nat
    BY <2>1 DEF Time
  <2>4. rs' = rs /\ faked' = faked
    BY <1>2
  <2> QED
    BY <1>1, <2>2, <2>3, <2>4 DEF Fits
<1>9. ASSUME NEW b \in Checker \ {a}, chk'[b].pc = "apply", ~chk'[b].crashed
      PROVE  Fits(now, chk[b].reset)'
  <2>1. chk'[b] = chk[b] /\ chk[b].reset \in Time
    BY <1>3 DEF TypeInv, CheckOK, CheckRecord
  <2>2. chk[b].reset # NULL => chk[b].reset \in Nat
    BY <2>1 DEF Time
  <2>3. Fits(now, chk[b].reset)
    BY <1>9, <2>1 DEF Readings
  <2> QED
    BY <1>1, <2>1, <2>2, <2>3 DEF Fits
<1> QED
  BY <1>6, <1>7, <1>8, <1>9 DEF Readings

\* A reading is kept with the time it is applied at, which is that of its
\* fetch.
LEMMA ApplyReadings ==
  ASSUME TypeInv, Readings, [Next]_vars, NEW a \in Checker, Apply(a)
  PROVE  Readings'
<1> DEFINE c == chk[a]
           fields == [rs EXCEPT !.lastCheckAt = now,
                        !.resetIn = IF c.crashed THEN @ ELSE c.reset,
                        !.failed = c.crashed,
                        !.state = IF c.burn = "keep" THEN @ ELSE c.burn,
                        !.burnUntil = IF c.burn = "keep" THEN @ ELSE c.burnUntil]
<1>1. /\ \/ rs' = fields
         \/ SetAnchor(fields, c.proposed, c.effective)
      /\ Return(a, TRUE) /\ UNCHANGED <<now, session>> /\ c.pc = "apply"
  BY Zenon DEF Apply
<1>2. rs \in StateRecord
  BY DEF TypeInv, TypeOK
<1>3. /\ fields.lastCheckAt = now /\ fields.failed = c.crashed
      /\ ~c.crashed => fields.resetIn = c.reset
      /\ DOMAIN fields = {"state", "burnUntil", "lastCheckAt", "resetIn",
                          "failed", "nextResetAt", "postResetDone"}
  BY <1>2 DEF StateRecord
<1> HIDE DEF fields
<1>4. /\ rs'.lastCheckAt = now /\ rs'.failed = c.crashed
      /\ ~c.crashed => rs'.resetIn = c.reset
  <2>1. CASE rs' = fields
    BY <1>3, <2>1
  <2>2. CASE SetAnchor(fields, c.proposed, c.effective)
    BY <1>3, <2>2 DEF SetAnchor
  <2> QED
    BY <1>1, <2>1, <2>2
<1>5. ~rs'.failed => Fits(rs.lastCheckAt, rs.resetIn)'
  BY <1>1, <1>4 DEF Fits, Readings
<1>6. ASSUME NEW b \in Checker, chk'[b].pc = "apply", ~chk'[b].crashed
      PROVE  Fits(now, chk[b].reset)'
  <2>1. chk'[b] = chk[b]
    BY <1>1, <1>6, ReturnPc
  <2> QED
    BY <1>1, <1>6, <2>1 DEF Fits, Readings
<1> QED
  BY <1>1, <1>5, <1>6 DEF Readings

LEMMA ReadingsNext ==
  ASSUME ExactReadings, TypeInv, Readings, [Next]_vars PROVE Readings'
<1>1. rs \in StateRecord
  BY DEF TypeInv, TypeOK
<1>2. CASE LoopStep
  <2>1. UNCHANGED chk \/ \E k, e, f : LoopCheck(k, e, "top", f)
    BY <1>2, Zenon DEF LoopStep, LoopLoad, LoopTop, LoopSnap, LoopSlots, LoopRequeue,
       LoopHourly, LoopBurn, LoopAcquire, LoopSelect, LoopFinish, LoopSleep, LoopWake
  <2>2. \A a \in Checker : chk'[a] = chk[a] \/ chk'[a].pc # "apply"
    BY <2>1, LoopCheckPc
  <2>3. faked' \/ (faked' = faked /\ UNCHANGED <<rs.lastCheckAt, rs.resetIn, rs.failed>>)
    <3>1. CASE LoopLoad
      BY <1>1, <3>1 DEF LoopLoad, LoadPersisted, StateRecord, Ghosts
    <3>2. CASE LoopHourly
      BY <3>2 DEF LoopHourly
    <3>3. CASE LoopBurn
      BY <1>1, <3>3 DEF LoopBurn, StateRecord, Ghosts
    <3> QED
      BY <1>2, <3>1, <3>2, <3>3 DEF LoopStep, LoopTop, LoopSnap, LoopSlots, LoopRequeue,
         LoopAcquire, LoopSelect, LoopFinish, LoopSleep, LoopWake, Ghosts
  <2> QED
    BY <2>2, <2>3, ReadingsStay
<1>3. ASSUME NEW a \in Checker, Try(a) \/ Crashed(a) PROVE Readings'
  <2>1. UNCHANGED <<rs, faked>>
    BY <1>3 DEF Try, Crashed, Ghosts
  <2>2. \A b \in Checker : chk'[b] = chk[b] \/ chk'[b].pc # "apply" \/ chk'[b].crashed
    <3>1. CASE Try(a) /\ checkLock = NULL
      BY <3>1 DEF Try, TypeInv, CheckRecord
    <3>2. CASE Try(a) /\ checkLock # NULL
      BY <3>2, ReturnPc DEF Try
    <3>3. CASE Crashed(a)
      <4>1. chk' = [chk EXCEPT ![a] = [chk[a] EXCEPT !.pc = "apply", !.crashed = TRUE]]
        BY <3>3 DEF Crashed, TypeInv
      <4>2. [chk[a] EXCEPT !.pc = "apply", !.crashed = TRUE].crashed
        BY DEF TypeInv, CheckRecord
      <4> QED
        BY <4>1, <4>2 DEF TypeInv
    <3> QED
      BY <1>3, <3>1, <3>2, <3>3
  <2> QED
    BY <2>1, <2>2, ReadingsStay
<1>4. CASE AddTask \/ QueueChanges \/ UseClaude \/ Tick \/ UNCHANGED vars
  <2>1. UNCHANGED <<rs, chk, faked>>
    BY <1>4 DEF AddTask, QueueChanges, UseClaude, Tick, vars, Ghosts
  <2> QED
    BY <2>1, ReadingsStay
<1>5. ASSUME NEW a \in WebCheck, ManualCheck(a) PROVE Readings'
  <2>1. /\ UNCHANGED <<rs, faked>>
        /\ \A b \in Checker : chk'[b] = chk[b] \/ chk'[b].pc = "try"
    BY <1>5 DEF ManualCheck, TypeInv, Checker, NoCheck
  <2> QED
    BY <2>1, ReadingsStay
<1>6. ASSUME NEW w \in WebRun, WebStart(w) \/ WebFinish(w) PROVE Readings'
  <2>1. UNCHANGED <<chk, faked>> /\ UNCHANGED <<rs.lastCheckAt, rs.resetIn, rs.failed>>
    BY <1>1, <1>6 DEF WebStart, WebFinish, LoadPersisted, StateRecord, Ghosts
  <2> QED
    BY <2>1, ReadingsStay
<1>7. CASE Restart
  BY <1>7 DEF Restart, Readings, Fits, ColdState, NoCheck
<1> QED
  BY <1>2, <1>3, <1>4, <1>5, <1>6, <1>7, DecideReadings, ApplyReadings DEF Next, CheckStep

\* With exact readings, and but for suppressed ticks, a task created under
\* next_session while the loop waits is not eligible before the session that
\* is on then has ended.
THEOREM GatesOutlastSession == ASSUME ExactReadings PROVE Spec => []GateSkipsSession
<1>1. Init => Readings
  <2> SUFFICES ASSUME Init PROVE Readings
    OBVIOUS
  <2>1. session \in 0..Cycle /\ now = 0 /\ Cycle \in Nat
    BY RunnerAssumption DEF Init, ExactReadings
  <2> QED
    BY <2>1 DEF Init, Readings, Fits, ColdState, NoCheck
<1>2. TypeInv /\ Readings => GateSkipsSession
  <2> SUFFICES ASSUME TypeInv, Readings, session > now, ~faked
               PROVE  EligibleAt(rs) >= session
    BY DEF GateSkipsSession
  <2>1. now \in Nat /\ session \in Nat /\ session <= now + Cycle /\ Cycle \in Nat
    BY RunnerAssumption DEF TypeInv, TypeOK, Readings
  <2> QED
    BY <2>1 DEF EligibleAt, Readings, Fits
<1>3. TypeInv /\ Readings /\ [Next]_vars => Readings'
  BY ReadingsNext
<1> QED
  BY <1>1, <1>2, <1>3, TypeInit, TypeNext, PTL DEF Spec

-----------------------------------------------------------------------------
(* Anchors: a reading is never older than the anchor it came with by more   *)
(* than the stale grace and one suppressed tick, and the loop does not      *)
(* sleep past the next check that may replace the anchor.                   *)

\* The offsets and windows of the code: 5 <= 30 minutes, 30 s <= 10 minutes,
\* 20 <= 60 minutes.
WindowsNest ==
  TPlus5 <= StaleGrace /\ Floor <= SuppressWindow /\ 2 * SuppressWindow <= Hour

InFlight == Checking # {}

Limit == rs.nextResetAt + StaleGrace

Holder == checkLock # NULL => chk[checkLock].pc \in {"fetch", "apply"}

\* What a state that has a reading, an anchor or a burn also has.
Known ==
  /\ rs.resetIn # NULL => rs.nextResetAt # NULL /\ rs.lastCheckAt # NULL
  /\ rs.nextResetAt # NULL =>
       disk.nextResetAt = rs.nextResetAt /\ disk.postResetDone = rs.postResetDone
  /\ rs.lastCheckAt # NULL => rs.lastCheckAt <= now
  /\ rs.state = "burning" =>
       rs.lastCheckAt # NULL /\ rs.burnUntil < rs.lastCheckAt + BurnWindow

\* A check that has decided: the burn it opens is short, and it leaves only
\* an anchor that is within the grace, or one that T+5 has set.
Verdict(c) ==
  /\ c.burn = "burning" => c.burnUntil < now + BurnWindow
  /\ c.reset # NULL /\ ~c.crashed =>
       /\ c.proposed # NULL /\ c.proposed >= now
       /\ c.action = "skip" =>
            rs.nextResetAt # NULL /\ (rs.postResetDone \/ now <= Limit)

Verdicts == \A a \in Checker : chk[a].pc = "apply" => Verdict(chk[a])

\* The fields of the state that a step of another kind leaves alone.
Reading == <<rs.lastCheckAt, rs.resetIn, rs.failed>>
Anchor == <<rs.nextResetAt, rs.postResetDone>>
Burn == <<rs.state, rs.burnUntil>>

\* All that the critical section of a check changes.
LEMMA ApplyFields ==
  ASSUME TypeInv, NEW a \in Checker, Apply(a)
  PROVE  /\ Return(a, TRUE) /\ chk[a].pc = "apply" /\ now' = now /\ wake'
         /\ checkLock' = NULL
         /\ rs'.lastCheckAt = now /\ rs'.failed = chk[a].crashed
         /\ ~chk[a].crashed => rs'.resetIn = chk[a].reset
         /\ chk[a].crashed => rs'.resetIn = rs.resetIn
         /\ \/ /\ chk[a].crashed \/ chk[a].action = "skip"
               /\ UNCHANGED Anchor /\ UNCHANGED <<sched, disk>>
            \/ /\ ~chk[a].crashed /\ chk[a].action # "skip"
               /\ rs'.nextResetAt = chk[a].proposed
               /\ rs'.postResetDone = (chk[a].effective = "post_reset")
               /\ disk'.nextResetAt = chk[a].proposed
               /\ disk'.postResetDone = (chk[a].effective = "post_reset")
               /\ sched' = Armed(chk[a].proposed)
<1> DEFINE c == chk[a]
           fields == [rs EXCEPT !.lastCheckAt = now,
                        !.resetIn = IF c.crashed THEN @ ELSE c.reset,
                        !.failed = c.crashed,
                        !.state = IF c.burn = "keep" THEN @ ELSE c.burn,
                        !.burnUntil = IF c.burn = "keep" THEN @ ELSE c.burnUntil]
<1>1. /\ \/ (c.crashed \/ c.action = "skip") /\ rs' = fields /\ UNCHANGED <<sched, disk>>
         \/ /\ ~(c.crashed \/ c.action = "skip")
            /\ SetAnchor(fields, c.proposed, c.effective)
      /\ Return(a, TRUE) /\ c.pc = "apply" /\ now' = now
      /\ wake' = TRUE /\ checkLock' = NULL
  BY Zenon DEF Apply
<1>2. rs \in StateRecord /\ c.crashed \in BOOLEAN
  BY DEF TypeInv, TypeOK, CheckRecord
<1>3. /\ fields.lastCheckAt = now /\ fields.failed = c.crashed
      /\ fields.resetIn = IF c.crashed THEN rs.resetIn ELSE c.reset
      /\ fields.nextResetAt = rs.nextResetAt /\ fields.postResetDone = rs.postResetDone
      /\ DOMAIN fields = {"state", "burnUntil", "lastCheckAt", "resetIn",
                          "failed", "nextResetAt", "postResetDone"}
  BY <1>2 DEF StateRecord
<1> HIDE DEF fields
<1>4. CASE rs' = fields /\ UNCHANGED <<sched, disk>> /\ (c.crashed \/ c.action = "skip")
  BY <1>1, <1>2, <1>3, <1>4 DEF Anchor
<1>5. CASE /\ ~(c.crashed \/ c.action = "skip")
           /\ SetAnchor(fields, c.proposed, c.effective)
  <2>1. /\ rs'.nextResetAt = c.proposed /\ rs'.lastCheckAt = fields.lastCheckAt
        /\ rs'.failed = fields.failed /\ rs'.resetIn = fields.resetIn
        /\ rs'.postResetDone = (c.effective = "post_reset")
    BY <1>3, <1>5 DEF SetAnchor
  <2>2. /\ disk'.nextResetAt = c.proposed
        /\ disk'.postResetDone = (c.effective = "post_reset")
        /\ sched' = Armed(c.proposed)
    BY <1>5 DEF SetAnchor
  <2> QED
    BY <1>1, <1>3, <1>5, <2>1, <2>2
<1> QED
  BY <1>1, <1>4, <1>5

\* A reload restores the anchor, which is the one in use if there is one.
LEMMA LoadedFields ==
  ASSUME TypeInv, LoadPersisted
  PROVE  /\ UNCHANGED Reading /\ UNCHANGED Burn
         /\ rs'.nextResetAt = disk.nextResetAt /\ rs'.postResetDone = disk.postResetDone
         /\ Known /\ rs.nextResetAt # NULL => UNCHANGED Anchor
<1>1. /\ rs'.nextResetAt = disk.nextResetAt /\ rs'.postResetDone = disk.postResetDone
      /\ UNCHANGED Reading /\ UNCHANGED Burn
  BY DEF LoadPersisted, TypeInv, TypeOK, StateRecord, Reading, Burn
<1> QED
  BY <1>1 DEF Known, Anchor

\* The steps that neither check, reload, suppress a tick, close a burn nor
\* restart leave the state and its file alone.
LEMMA StateRests ==
  ASSUME [Next]_vars, ~LoopLoad, ~LoopHourly, ~LoopBurn, ~Restart,
         \A a \in Checker : ~Apply(a), \A w \in WebRun : ~WebStart(w)
  PROVE  UNCHANGED <<rs, disk>>
<1>1. ASSUME NEW a \in Checker, CheckStep(a) PROVE UNCHANGED <<rs, disk>>
  <2>1. CASE Decide(a)
    BY <2>1, Zenon DEF Decide
  <2> QED
    BY <1>1, <2>1 DEF CheckStep, Try, Crashed
<1> QED
  BY <1>1, Zenon DEF Next, LoopStep, LoopTop, LoopSnap, LoopSlots, LoopRequeue,
     LoopAcquire, LoopSelect, LoopFinish, LoopSleep, LoopWake, ManualCheck,
     WebFinish, AddTask, QueueChanges, UseClaude, Tick, vars

\* Only a fetch that returns makes a decision.
LEMMA ChecksRest ==
  ASSUME TypeInv, [Next]_vars, \A a \in Checker : ~Decide(a)
  PROVE  \A a \in Checker : \/ chk'[a] = chk[a]
                            \/ chk'[a].pc # "apply"
                            \/ /\ chk'[a].crashed /\ chk'[a].burn = "keep"
                               /\ chk'[a].action = "skip" /\ chk'[a].proposed = NULL
<1>1. ASSUME NEW b \in Checker, Crashed(b)
      PROVE  \A a \in Checker : \/ chk'[a] = chk[a]
                                \/ /\ chk'[a].crashed /\ chk'[a].burn = "keep"
                                   /\ chk'[a].action = "skip" /\ chk'[a].proposed = NULL
  <2>1. chk' = [chk EXCEPT ![b] = [chk[b] EXCEPT !.pc = "apply", !.crashed = TRUE]]
        /\ chk[b].pc = "fetch" /\ chk[b] \in CheckRecord /\ CheckOK(chk[b])
    BY <1>1 DEF Crashed, TypeInv
  <2>2. LET d == [chk[b] EXCEPT !.pc = "apply", !.crashed = TRUE]
        IN  d.crashed /\ d.burn = "keep" /\ d.action = "skip" /\ d.proposed = NULL
    BY <2>1 DEF CheckRecord, CheckOK
  <2> QED
    BY <2>1, <2>2 DEF TypeInv
<1>2. ASSUME NEW b \in Checker, Try(b)
      PROVE  \A a \in Checker : chk'[a] = chk[a] \/ chk'[a].pc # "apply"
  <2>1. CASE checkLock = NULL
    BY <1>2, <2>1 DEF Try, TypeInv, CheckRecord
  <2>2. CASE checkLock # NULL
    BY <1>2, <2>2, ReturnPc DEF Try
  <2> QED
    BY <2>1, <2>2
<1>3. ASSUME NEW b \in Checker, Apply(b)
      PROVE  \A a \in Checker : chk'[a] = chk[a] \/ chk'[a].pc # "apply"
  BY <1>3, ApplyFields, ReturnPc
<1>4. ASSUME NEW b \in WebCheck, ManualCheck(b)
      PROVE  \A a \in Checker : chk'[a] = chk[a] \/ chk'[a].pc # "apply"
  BY <1>4 DEF ManualCheck, TypeInv, Checker, NoCheck
<1>5. CASE Restart
  BY <1>5 DEF Restart, NoCheck
<1>6. CASE LoopStep
  <2>1. UNCHANGED chk \/ \E k, e, f : LoopCheck(k, e, "top", f)
    BY <1>6, Zenon DEF LoopStep, LoopLoad, LoopTop, LoopSnap, LoopSlots, LoopRequeue,
       LoopHourly, LoopBurn, LoopAcquire, LoopSelect, LoopFinish, LoopSleep, LoopWake
  <2> QED
    BY <2>1, LoopCheckPc
<1>7. ASSUME \/ \E w \in WebRun : WebStart(w) \/ WebFinish(w)
             \/ AddTask \/ QueueChanges \/ UseClaude \/ Tick \/ UNCHANGED vars
      PROVE  UNCHANGED chk
  BY <1>7, Zenon DEF WebStart, WebFinish, AddTask, QueueChanges, UseClaude, Tick, vars
<1> QED
  BY <1>1, <1>2, <1>3, <1>4, <1>5, <1>6, <1>7, Zenon DEF Next, CheckStep

\* Between the snapshot and the hourly check the loop does not block.
Prompt == loop.pc \in {"slots", "hourly"} => loop.t = now

LEMMA PromptNext == ASSUME TypeInv, Prompt, [Next]_vars PROVE Prompt'
<1>1. ASSUME NEW l, LoopGoto(l), l \notin {"slots", "hourly"} PROVE Prompt'
  BY <1>1, GotoPc DEF Prompt, TypeInv
<1>2. ASSUME NEW k, NEW e, NEW f, LoopCheck(k, e, "top", f) PROVE Prompt'
  BY <1>2, LoopCheckPc DEF Prompt
<1>3. CASE UNCHANGED <<loop, now>>
  BY <1>3 DEF Prompt
<1>4. CASE LoopSnap
  BY <1>4 DEF LoopSnap, Prompt, TypeInv, LoopOK
<1>5. CASE LoopSlots
  <2>1. CASE LoopGoto("hourly")
    <3>1. loop'.t = loop.t
      BY <2>1, GotoOnward DEF TypeInv
    <3> QED
      BY <1>5, <3>1 DEF LoopSlots, Prompt
  <2> QED
    BY <1>2, <1>5, <2>1 DEF LoopSlots
<1>6. CASE LoopSleep
  BY <1>6 DEF LoopSleep, Prompt, TypeInv, LoopOK
<1>7. CASE LoopLoad \/ LoopTop \/ LoopRequeue \/ LoopHourly \/ LoopBurn
  BY <1>1, <1>2, <1>7 DEF LoopLoad, LoopTop, LoopRequeue, LoopHourly, LoopBurn
<1>8. CASE LoopAcquire \/ LoopSelect \/ LoopFinish \/ LoopWake
  BY <1>1, <1>2, <1>8 DEF LoopAcquire, LoopSelect, LoopFinish, LoopWake
<1>9. ASSUME NEW a \in Checker, CheckStep(a) PROVE Prompt'
  <2>1. UNCHANGED now /\ (UNCHANGED loop \/ \E r \in BOOLEAN : Return(a, r))
    BY <1>9, Zenon DEF CheckStep, Try, Decide, Crashed, Apply
  <2> QED
    BY <1>3, <2>1, ReturnPc DEF Prompt
<1>10. CASE Restart
  BY <1>10 DEF Restart, NewLoop, Prompt
<1>11. CASE Tick
  BY <1>11 DEF Tick, Prompt
<1>12. ASSUME \/ \E a \in WebCheck : ManualCheck(a)
              \/ \E w \in WebRun : WebStart(w) \/ WebFinish(w)
              \/ AddTask \/ QueueChanges \/ UseClaude \/ UNCHANGED vars
       PROVE  UNCHANGED <<loop, now>>
  BY <1>12, Zenon DEF ManualCheck, WebStart, WebFinish, AddTask, QueueChanges, UseClaude, vars
<1> QED
  BY <1>3, <1>4, <1>5, <1>6, <1>7, <1>8, <1>9, <1>10, <1>11, <1>12 DEF Next, LoopStep

\* What is known holds while the state rests, for time only passes.
LEMMA KnownStays ==
  ASSUME TypeInv, Known, now' \in Nat, now' >= now, UNCHANGED Anchor, UNCHANGED disk,
         UNCHANGED <<rs.resetIn, rs.lastCheckAt>>,
         rs'.state = "burning" => rs.state = "burning" /\ rs'.burnUntil = rs.burnUntil
  PROVE  Known'
<1>1. now \in Nat /\ rs.lastCheckAt \in Time
  BY DEF TypeInv, TypeOK, StateRecord
<1>2. rs.lastCheckAt # NULL => rs.lastCheckAt \in Nat
  BY <1>1 DEF Time
<1> QED
  BY <1>1, <1>2 DEF Known, Anchor

\* A check that applies its verdict: it has looked now.
LEMMA ApplyKnown ==
  ASSUME TypeInv, Known, Verdicts, NEW a \in Checker, Apply(a) PROVE Known'
<1> DEFINE c == chk[a]
<1>1. Verdict(c) /\ c \in CheckRecord /\ CheckOK(c) /\ rs \in StateRecord /\ now \in Nat
  BY ApplyFields DEF Verdicts, TypeInv, TypeOK
<1>2. /\ now' = now /\ rs'.lastCheckAt = now /\ now # NULL
      /\ c.crashed => rs'.resetIn = rs.resetIn
      /\ ~c.crashed => rs'.resetIn = c.reset
  BY <1>1, ApplyFields, NullIsNoTime
<1>3. rs'.resetIn # NULL => rs'.nextResetAt # NULL
  <2>1. CASE UNCHANGED Anchor
    <3>1. CASE c.crashed
      BY <1>2, <2>1, <3>1 DEF Known, Anchor
    <3>2. CASE ~c.crashed
      <4>1. c.action = "skip" \/ rs'.nextResetAt = c.proposed
        BY <3>2, ApplyFields
      <4> QED
        BY <1>1, <1>2, <2>1, <3>2, <4>1 DEF Verdict, Anchor
    <3> QED
      BY <3>1, <3>2
  <2>2. CASE ~c.crashed /\ rs'.nextResetAt = c.proposed
    BY <1>1, <1>2, <2>2 DEF Verdict
  <2> QED
    BY <2>1, <2>2, ApplyFields
<1>4. rs'.nextResetAt # NULL =>
        disk'.nextResetAt = rs'.nextResetAt /\ disk'.postResetDone = rs'.postResetDone
  BY ApplyFields DEF Known, Anchor
<1>5. rs'.state = "burning" => rs'.burnUntil < now + BurnWindow
  <2>1. CASE c.burn = "keep"
    <3>1. rs'.state = rs.state /\ rs'.burnUntil = rs.burnUntil
      BY <2>1, ApplyBurn
    <3>2. rs.lastCheckAt # NULL => rs.lastCheckAt \in Nat
      BY <1>1 DEF StateRecord, Time
    <3>3. rs.state = "burning" => rs.burnUntil \in Nat
      BY <1>1, NullIsNoTime DEF TypeInv, TypeOK, StateRecord, Time
    <3> QED
      BY <1>1, <3>1, <3>2, <3>3, RunnerAssumption DEF Known
  <2>2. CASE c.burn # "keep"
    BY <1>1, <2>2, ApplyBurn DEF Verdict
  <2> QED
    BY <2>1, <2>2
<1> QED
  BY <1>1, <1>2, <1>3, <1>4, <1>5 DEF Known

LEMMA KnownNext ==
  ASSUME TypeInv, Queue, Prompt, Known, Verdicts, [Next]_vars PROVE Known'
<1>1. now' \in Nat /\ now' >= now /\ rs \in StateRecord /\ now \in Nat
  BY SessionMoves DEF TypeInv, TypeOK
<1>2. ASSUME LoadPersisted, UNCHANGED disk PROVE Known'
  <2>1. /\ UNCHANGED Reading /\ UNCHANGED Burn
        /\ rs'.nextResetAt = disk.nextResetAt /\ rs'.postResetDone = disk.postResetDone
    BY <1>2, LoadedFields
  <2>2. rs'.nextResetAt # NULL =>
          disk'.nextResetAt = rs'.nextResetAt /\ disk'.postResetDone = rs'.postResetDone
    BY <1>2, <2>1
  <2>3. CASE rs.nextResetAt # NULL
    <3>1. UNCHANGED Anchor
      BY <1>2, <2>3, LoadedFields
    <3> QED
      BY <1>1, <1>2, <2>1, <3>1, KnownStays DEF Reading, Burn
  <2>4. CASE rs.nextResetAt = NULL
    <3>1. rs'.resetIn = NULL
      BY <2>1, <2>4 DEF Known, Reading
    <3>2. rs'.lastCheckAt # NULL => rs'.lastCheckAt <= now'
      BY <1>1, <2>1 DEF Known, Reading, StateRecord, Time
    <3>3. rs'.state = "burning" =>
            rs'.lastCheckAt # NULL /\ rs'.burnUntil < rs'.lastCheckAt + BurnWindow
      BY <2>1 DEF Known, Reading, Burn
    <3> QED
      BY <2>2, <3>1, <3>2, <3>3 DEF Known
  <2> QED
    BY <2>3, <2>4
<1>3. CASE LoopLoad
  BY <1>2, <1>3 DEF LoopLoad
<1>4. ASSUME NEW w \in WebRun, WebStart(w) PROVE Known'
  <2>1. UNCHANGED <<now, disk>> /\ (LoadPersisted \/ UNCHANGED <<rs, sched>>)
    BY <1>4, Zenon DEF WebStart
  <2> QED
    BY <1>1, <1>2, <2>1, KnownStays DEF Anchor
<1>5. CASE LoopHourly
  <2>1. \/ rs' = [rs EXCEPT !.lastCheckAt = loop.t]
        \/ rs' = rs
    BY <1>5 DEF LoopHourly
  <2>2. UNCHANGED <<now, disk>>
    BY <1>5 DEF LoopHourly
  <2>3. CASE rs' = rs
    BY <1>1, <2>2, <2>3, KnownStays DEF Anchor
  <2>4. CASE rs' = [rs EXCEPT !.lastCheckAt = loop.t] /\ rs' # rs
    <3>1. /\ UNCHANGED Anchor /\ UNCHANGED Burn
          /\ rs'.resetIn = rs.resetIn /\ rs'.lastCheckAt = loop.t
      BY <1>1, <2>4 DEF StateRecord, Anchor, Burn
    <3>2. loop.t \in Nat /\ loop.t <= now /\ loop.t # NULL
      BY NullIsNoTime DEF Queue, TypeInv, LoopOK
    <3>3. loop.t = now
      BY <1>5 DEF LoopHourly, Prompt
    <3>4. rs.lastCheckAt # NULL => rs.lastCheckAt \in Nat /\ rs.lastCheckAt <= now
      BY <1>1 DEF StateRecord, Time, Known
    <3>5. rs.state = "burning" => rs.burnUntil \in Nat
      BY <1>1, NullIsNoTime DEF TypeInv, TypeOK, StateRecord, Time
    <3> QED
      BY <1>1, <2>2, <3>1, <3>2, <3>3, <3>4, <3>5, RunnerAssumption DEF Known, Anchor, Burn
  <2> QED
    BY <2>1, <2>3, <2>4
<1>6. CASE LoopBurn
  <2>1. rs' = rs \/ rs' = [rs EXCEPT !.state = "chilling", !.burnUntil = NULL]
    BY <1>6 DEF LoopBurn
  <2>2. UNCHANGED Anchor /\ rs'.resetIn = rs.resetIn /\ rs'.lastCheckAt = rs.lastCheckAt
        /\ (rs'.state = "burning" => rs' = rs)
    BY <1>1, <2>1 DEF StateRecord, Anchor
  <2> QED
    BY <1>1, <1>6, <2>2, KnownStays DEF LoopBurn
<1>7. CASE Restart
  BY <1>7 DEF Restart, Known, ColdState
<1>8. ASSUME UNCHANGED <<rs, disk>> PROVE Known'
  BY <1>1, <1>8, KnownStays DEF Anchor
<1> QED
  BY <1>3, <1>4, <1>5, <1>6, <1>7, <1>8, ApplyKnown, StateRests

\* A verdict stands while the anchor it was made for does; time does not pass.
LEMMA VerdictStays ==
  ASSUME NEW c, Verdict(c), now' = now, rs.nextResetAt # NULL => UNCHANGED Anchor
  PROVE  Verdict(c)'
  BY DEF Verdict, Limit, Anchor

\* What a decision finds: the burn it opens is no longer than the window, and
\* an anchor beyond the grace is replaced.
LEMMA DecidedVerdict ==
  ASSUME TypeInv, NEW kind \in Kind, NEW reset \in Time, NEW plenty \in BOOLEAN
  PROVE  Verdict(Decided(kind, reset, plenty))
<1> DEFINE proposed == IF reset = NULL THEN NULL ELSE now + reset
           act == AnchorAction(rs, kind, proposed)
           eff == BurnMinutes(reset, IF act[1] = "clamp" THEN NULL
                                     ELSE rs.nextResetAt)
           burns == eff # NULL /\ reset # NULL /\ plenty /\ eff < BurnWindow
           c == Decided(kind, reset, plenty)
<1>1. /\ now \in Nat /\ rs.nextResetAt \in Time
      /\ {StaleGrace, MaxFuture, BurnWindow} \subseteq Nat
  BY RunnerAssumption DEF TypeInv, TypeOK, StateRecord
<1>2. /\ c.reset = reset /\ c.proposed = proposed /\ c.action = act[1]
      /\ c.burn = BurnVerdict(rs, burns) /\ c.burnUntil = IF burns THEN now + eff ELSE NULL
  BY DEF Decided
<1>3. eff \in Time
  <2> HIDE DEF act
  <2> QED
    BY <1>1, BurnMinutesType, NullIsNoTime
<1>4. reset # NULL => proposed # NULL /\ proposed \in Nat /\ proposed >= now
  BY <1>1, NullIsNoTime DEF Time
<1>5. reset # NULL /\ act[1] = "skip" =>
        rs.nextResetAt # NULL /\ (rs.postResetDone \/ now <= Limit)
  <2> SUFFICES ASSUME proposed # NULL, act[1] = "skip"
               PROVE  rs.nextResetAt # NULL /\ (rs.postResetDone \/ now <= Limit)
    BY <1>4
  <2> HIDE DEF proposed
  <2>1. rs.nextResetAt # NULL
    BY DEF AnchorAction
  <2>2. ~(Overdue(rs, StaleGrace) /\ ~rs.postResetDone)
    BY <2>1 DEF AnchorAction
  <2> QED
    BY <1>1, <2>1, <2>2 DEF Overdue, Limit, Time
<1> HIDE DEF act, eff, proposed
<1>6. c.burn = "burning" => burns
  BY <1>2 DEF BurnVerdict
<1>7. burns => eff \in Nat /\ eff < BurnWindow
  BY <1>3 DEF Time
<1> HIDE DEF burns, c
<1>8. Verdict(c)
  BY <1>1, <1>2, <1>4, <1>5, <1>6, <1>7 DEF Verdict
<1> QED
  BY <1>8 DEF c

LEMMA VerdictsNext ==
  ASSUME TypeInv, Owners, Known, Verdicts, [Next]_vars PROVE Verdicts'
<1>1. now' = now \/ \A a \in Checker : chk[a].pc # "apply" /\ UNCHANGED chk
  BY SessionMoves
<1>2. CASE \E a \in Checker : Decide(a)
  <2>1. PICK a \in Checker : Decide(a)
    BY <1>2
  <2>2. PICK reset \in {NULL} \cup 0..(Cycle + Cycle), plenty \in BOOLEAN :
          /\ chk' = [chk EXCEPT ![a] = Decided(chk[a].kind, reset, plenty)]
          /\ UNCHANGED <<now, rs>>
    BY <2>1, Zenon DEF Decide
  <2>3. chk[a].kind \in Kind /\ reset \in Time
    BY RunnerAssumption, NullIsNoTime DEF TypeInv, CheckRecord, Time
  <2>4. Verdict(Decided(chk[a].kind, reset, plenty))
    BY <2>3, DecidedVerdict
  <2> SUFFICES ASSUME NEW b \in Checker, chk'[b].pc = "apply" PROVE Verdict(chk[b])'
    BY DEF Verdicts
  <2> DEFINE d == Decided(chk[a].kind, reset, plenty)
  <2>5. chk'[b] = chk[b] \/ chk'[b] = d
    BY <2>2 DEF TypeInv
  <2> HIDE DEF d
  <2>6. Verdict(chk'[b])
    BY <2>4, <2>5 DEF d, Verdicts
  <2> QED
    BY <2>2, <2>6 DEF Verdict, Limit
<1>3. CASE \A a \in Checker : ~Decide(a)
  <2> SUFFICES ASSUME NEW b \in Checker, chk'[b].pc = "apply" PROVE Verdict(chk[b])'
    BY DEF Verdicts
  <2>1. chk'[b] = chk[b] \/ (chk'[b].crashed /\ chk'[b].burn = "keep")
    BY <1>3, ChecksRest
  <2>2. CASE chk'[b].crashed /\ chk'[b].burn = "keep"
    BY <2>2 DEF Verdict
  <2>3. CASE chk'[b] = chk[b]
    <3>1. Verdict(chk[b]) /\ chk[b].pc = "apply" /\ now' = now
      BY <1>1, <2>3 DEF Verdicts
    <3>2. rs.nextResetAt # NULL => UNCHANGED Anchor
      <4>1. rs \in StateRecord
        BY DEF TypeInv, TypeOK
      <4>2. CASE LoopLoad
        BY <4>2, LoadedFields DEF LoopLoad
      <4>3. ASSUME NEW w \in WebRun, WebStart(w)
            PROVE  rs.nextResetAt # NULL => UNCHANGED Anchor
        <5>1. LoadPersisted \/ UNCHANGED rs
          BY <4>3, Zenon DEF WebStart
        <5> QED
          BY <5>1, LoadedFields DEF Anchor
      <4>4. CASE LoopHourly \/ LoopBurn
        <5>1. \/ rs' = rs \/ rs' = [rs EXCEPT !.lastCheckAt = loop.t]
              \/ rs' = [rs EXCEPT !.state = "chilling", !.burnUntil = NULL]
          BY <4>4 DEF LoopHourly, LoopBurn
        <5> QED
          BY <4>1, <5>1 DEF StateRecord, Anchor
      <4>5. ASSUME NEW a \in Checker, Apply(a) PROVE FALSE
        <5>1. chk[a].pc = "apply" /\ Return(a, TRUE)
          BY <4>5, ApplyFields
        <5>2. a # b
          BY <5>1, ReturnPc
        <5> QED
          BY <3>1, <5>1, <5>2 DEF Owners
      <4>6. CASE Restart
        BY <2>3, <3>1, <4>6 DEF Restart, NoCheck
      <4>7. ASSUME UNCHANGED rs PROVE UNCHANGED Anchor
        BY <4>7 DEF Anchor
      <4> QED
        BY <4>2, <4>3, <4>4, <4>5, <4>6, <4>7, StateRests
    <3>3. Verdict(chk[b]) => Verdict(chk'[b])
      BY <2>3
    <3> QED
      BY <2>3, <3>1, <3>2 DEF Verdict, Limit, Anchor
  <2> QED
    BY <2>1, <2>2, <2>3
<1> QED
  BY <1>2, <1>3

\* The lock for checks is held for one that fetches or applies.
LEMMA HolderNext == ASSUME TypeInv, Alert, Holder, [Next]_vars PROVE Holder'
<1>1. ASSUME UNCHANGED checkLock,
             \A a \in Checker : chk'[a].pc = chk[a].pc \/ chk[a].pc \notin {"fetch", "apply"}
                                \/ chk'[a].pc \in {"fetch", "apply"}
      PROVE  Holder'
  BY <1>1, Names DEF Holder, TypeInv, TypeOK
<1>2. ASSUME NEW a \in Checker, CheckStep(a) PROVE Holder'
  <2>1. CASE Apply(a)
    BY <2>1, ApplyFields DEF Holder
  <2>2. CASE Try(a) /\ checkLock = NULL
    BY <2>2 DEF Try, Holder, TypeInv, CheckRecord
  <2>3. CASE Try(a) /\ checkLock # NULL
    <3>1. UNCHANGED checkLock /\ Return(a, FALSE) /\ chk[a].pc = "try"
      BY <2>3 DEF Try
    <3> QED
      BY <1>1, <3>1, ReturnPc
  <2>4. CASE Decide(a)
    <3>1. PICK reset, plenty :
            chk' = [chk EXCEPT ![a] = Decided(chk[a].kind, reset, plenty)]
      BY <2>4, Zenon DEF Decide
    <3>2. Decided(chk[a].kind, reset, plenty).pc = "apply"
      BY DEF Decided
    <3>3. UNCHANGED checkLock
      BY <2>4, Zenon DEF Decide
    <3>4. \A b \in Checker : chk'[b] = chk[b] \/ chk'[b].pc = "apply"
      BY <3>1, <3>2 DEF TypeInv
    <3> QED
      BY <1>1, <3>3, <3>4
  <2>5. CASE Crashed(a)
    <3>1. /\ UNCHANGED checkLock
          /\ \A b \in Checker : chk'[b] = chk[b] \/ chk'[b].pc = "apply"
      BY <2>5 DEF Crashed, TypeInv, CheckRecord
    <3> QED
      BY <1>1, <3>1
  <2> QED
    BY <1>2, <2>1, <2>2, <2>3, <2>4, <2>5 DEF CheckStep
<1>3. CASE LoopStep
  <2>1. UNCHANGED checkLock /\ (UNCHANGED chk \/ \E k, e, f : LoopCheck(k, e, "top", f))
    BY <1>3, Zenon DEF LoopStep, LoopLoad, LoopTop, LoopSnap, LoopSlots, LoopRequeue,
       LoopHourly, LoopBurn, LoopAcquire, LoopSelect, LoopFinish, LoopSleep, LoopWake
  <2>2. CASE UNCHANGED chk
    BY <1>1, <2>1, <2>2
  <2>3. ASSUME NEW k, NEW e, NEW f, LoopCheck(k, e, "top", f) PROVE Holder'
    <3>1. loop.pc # "checking"
      BY <1>3 DEF LoopStep, LoopLoad, LoopTop, LoopSnap, LoopSlots, LoopRequeue,
         LoopHourly, LoopBurn, LoopAcquire, LoopSelect, LoopFinish, LoopSleep, LoopWake
    <3> QED
      BY <1>1, <2>1, <2>3, <3>1, LoopCheckPc DEF Alert
  <2> QED
    BY <2>1, <2>2, <2>3
<1>4. ASSUME NEW a \in WebCheck, ManualCheck(a) PROVE Holder'
  <2>1. /\ UNCHANGED checkLock /\ chk[a].pc = "idle"
        /\ \A b \in Checker : b # a => chk'[b] = chk[b]
    BY <1>4 DEF ManualCheck, TypeInv
  <2> QED
    BY <1>1, <2>1
<1>5. CASE Restart
  BY <1>5 DEF Restart, Holder
<1>6. ASSUME \/ \E w \in WebRun : WebStart(w) \/ WebFinish(w)
             \/ AddTask \/ QueueChanges \/ UseClaude \/ Tick \/ UNCHANGED vars
      PROVE  UNCHANGED <<chk, checkLock>>
  BY <1>6, Zenon DEF WebStart, WebFinish, AddTask, QueueChanges, UseClaude, Tick, vars
<1> QED
  BY <1>1, <1>2, <1>3, <1>4, <1>5, <1>6 DEF Next

\* A check under way stays so until it applies, or the process dies.
LEMMA FlightGoesOn ==
  ASSUME TypeInv, Alert, InFlight,
         \/ LoopStep
         \/ \E a \in Checker : Try(a) \/ Decide(a) \/ Crashed(a)
         \/ \E a \in WebCheck : ManualCheck(a)
         \/ \E w \in WebRun : WebStart(w) \/ WebFinish(w)
         \/ AddTask \/ QueueChanges \/ UseClaude \/ Tick \/ UNCHANGED vars
  PROVE  InFlight'
<1>1. PICK a \in Checker : chk[a].pc \in {"fetch", "apply"}
  BY DEF InFlight, Checking
<1>2. ASSUME chk'[a].pc \in {"fetch", "apply"} PROVE InFlight'
  BY <1>2 DEF InFlight, Checking
<1>3. ASSUME NEW b \in Checker, Try(b) \/ Decide(b) \/ Crashed(b) PROVE InFlight'
  <2>1. CASE Try(b)
    <3>1. chk'[a] = chk[a]
      <4>1. CASE checkLock = NULL
        BY <1>1, <2>1, <4>1 DEF Try, TypeInv
      <4>2. CASE checkLock # NULL
        BY <1>1, <2>1, <4>2, ReturnPc DEF Try
      <4> QED
        BY <4>1, <4>2
    <3> QED
      BY <1>1, <1>2, <3>1
  <2>2. CASE Decide(b)
    <3>1. PICK reset, plenty :
            chk' = [chk EXCEPT ![b] = Decided(chk[b].kind, reset, plenty)]
      BY <2>2, Zenon DEF Decide
    <3>2. Decided(chk[b].kind, reset, plenty).pc = "apply"
      BY DEF Decided
    <3>3. chk'[a] = chk[a] \/ chk'[a].pc = "apply"
      BY <3>1, <3>2 DEF TypeInv
    <3> QED
      BY <1>1, <1>2, <3>3
  <2>3. CASE Crashed(b)
    <3>1. chk'[a] = chk[a] \/ chk'[a].pc = "apply"
      BY <2>3 DEF Crashed, TypeInv, CheckRecord
    <3> QED
      BY <1>1, <1>2, <3>1
  <2> QED
    BY <1>3, <2>1, <2>2, <2>3
<1>4. CASE LoopStep
  <2>1. UNCHANGED chk \/ \E k, e, f : LoopCheck(k, e, "top", f)
    BY <1>4, Zenon DEF LoopStep, LoopLoad, LoopTop, LoopSnap, LoopSlots, LoopRequeue,
       LoopHourly, LoopBurn, LoopAcquire, LoopSelect, LoopFinish, LoopSleep, LoopWake
  <2>2. loop.pc # "checking"
    BY <1>4 DEF LoopStep, LoopLoad, LoopTop, LoopSnap, LoopSlots, LoopRequeue,
       LoopHourly, LoopBurn, LoopAcquire, LoopSelect, LoopFinish, LoopSleep, LoopWake
  <2>3. a # "loop"
    BY <1>1, <2>2 DEF Alert
  <2> QED
    BY <1>1, <1>2, <2>1, <2>3, LoopCheckPc
<1>5. ASSUME NEW b \in WebCheck, ManualCheck(b) PROVE InFlight'
  BY <1>1, <1>2, <1>5 DEF ManualCheck, TypeInv
<1>6. ASSUME \/ \E w \in WebRun : WebStart(w) \/ WebFinish(w)
             \/ AddTask \/ QueueChanges \/ UseClaude \/ Tick \/ UNCHANGED vars
      PROVE  UNCHANGED chk
  BY <1>6, Zenon DEF WebStart, WebFinish, AddTask, QueueChanges, UseClaude, Tick, vars
<1> QED
  BY <1>1, <1>2, <1>3, <1>4, <1>5, <1>6, Zenon

\* What is armed is ahead, and at most T+5.
LEMMA ArmedAhead ==
  ASSUME now \in Nat, NEW anchor \in Nat
  PROVE  \A e \in Armed(anchor) : e[1] \in Nat /\ e[1] > now /\ e[1] <= anchor + TPlus5
<1>1. {TMinus60, TMinus10, TPlus5, Floor} \subseteq Nat
  BY RunnerAssumption
<1> QED
  BY <1>1 DEF Armed

\* Where the loop is, and what it knows there: what it saw when it looked, and
\* that the next check is due no later than it will look again, unless one is
\* under way.
Looked ==
  /\ loop.pc \in {"slots", "hourly"} =>
       \/ rs.lastCheckAt = now
       \/ rs.lastCheckAt = loop.snap.lastCheckAt /\ rs.state = loop.snap.state
  /\ loop.pc \notin {"top", "snap"} /\ ~wake =>
       loop.snap.lastCheckAt = rs.lastCheckAt
  /\ loop.pc = "hourly" => \A e \in sched : e[1] > now
  /\ loop.pc \in {"wantExec", "select", "sleep"} /\ loop.snap.state = "burning" =>
       loop.t < loop.snap.burnUntil
  /\ loop.pc \in {"burn", "sleep"} /\ loop.snap.state = "chilling" /\ ~wake =>
       InFlight \/ loop.t < NextHour(loop.snap.lastCheckAt)
  /\ "requeue" \in {loop.pc, loop.onFalse} => loop.entry[1] <= now
  /\ loop.pc = "requeue" => InFlight \/ rs.lastCheckAt = now
  /\ loop.pc = "wait" /\ ~wake =>
       /\ loop.until \in Int /\ now <= loop.until
       /\ loop.snap.state = "burning" => loop.until < loop.snap.burnUntil + PollTick
       /\ loop.snap.state = "chilling" =>
            InFlight \/ loop.until <= NextHour(loop.snap.lastCheckAt)

\* The loop starts over, or has just looked.
LEMMA LookedAnew ==
  ASSUME loop'.pc \in {"top", "snap"}, loop'.onFalse # "requeue" PROVE Looked'
  BY DEF Looked

\* The loop stays where it is.
LEMMA LookedStill ==
  ASSUME TypeInv, Looked, loop' = loop, now' = now, InFlight => InFlight',
         \/ wake' /\ (rs'.lastCheckAt = now \/ UNCHANGED <<rs.lastCheckAt, rs.state>>)
         \/ wake' = wake /\ UNCHANGED <<rs.lastCheckAt, rs.state>>,
         loop.pc = "hourly" => \A e \in sched' : e \in sched \/ e[1] > now
  PROVE  Looked'
  BY DEF Looked

\* The loop goes on to a place where it does not sleep.
LEMMA LookedOnward ==
  ASSUME TypeInv, Looked, now' = now, wake' = wake, UNCHANGED <<rs.lastCheckAt, rs.state>>,
         loop.pc \notin {"top", "snap"}, loop'.snap = loop.snap, loop'.t = loop.t,
         loop'.pc \in {"checking", "requeue", "burn", "wantExec", "select", "execute"},
         "requeue" \in {loop'.pc, loop'.onFalse} => loop'.entry[1] <= now,
         loop'.pc = "requeue" => InFlight' \/ rs.lastCheckAt = now,
         /\ loop'.pc \in {"wantExec", "select"} /\ loop.snap.state = "burning"
         => loop.t < loop.snap.burnUntil,
         /\ loop'.pc = "burn" /\ loop.snap.state = "chilling" /\ ~wake
         => InFlight' \/ loop.t < NextHour(loop.snap.lastCheckAt)
  PROVE  Looked'
  BY DEF Looked

\* All that a move of the loop and a call to a check change in it.
LEMMA GotoFields ==
  ASSUME LoopOK, NEW l, LoopGoto(l)
  PROVE  /\ loop'.pc = l
         /\ l = "top" => loop'.onFalse = "top"
         /\ l # "top" => UNCHANGED <<loop.t, loop.snap, loop.entry, loop.until, loop.onFalse>>
  BY DEF LoopGoto, LoopOK, NewLoop

LEMMA LoopCheckFields ==
  ASSUME TypeInv, NEW k, NEW e, NEW f, LoopCheck(k, e, "top", f)
  PROVE  /\ loop'.pc = "checking" /\ loop'.entry = e /\ loop'.onFalse = f
         /\ loop'.snap = loop.snap /\ loop'.t = loop.t
  BY DEF LoopCheck, TypeInv, LoopOK

-----------------------------------------------------------------------------
(* Anchors: the hour, and how long a sleep is. *)

LEMMA Quotient ==
  ASSUME NEW x \in Nat
  PROVE  /\ x \div Hour \in Nat /\ Hour \in Nat \ {0}
         /\ (x \div Hour) * Hour <= x /\ x < (x \div Hour) * Hour + Hour
<1>1. Hour \in Nat \ {0}
  BY RunnerAssumption
<1> QED
  BY <1>1

LEMMA HourAfter ==
  ASSUME NEW x \in Nat
  PROVE  NextHour(x) \in Nat /\ x < NextHour(x) /\ NextHour(x) <= x + Hour
<1> DEFINE q == x \div Hour
<1>1. NextHour(x) = (q + 1) * Hour
  BY NullIsNoTime DEF NextHour
<1>2. q \in Nat /\ Hour \in Nat \ {0} /\ q * Hour <= x /\ x < q * Hour + Hour
  BY Quotient
<1> HIDE DEF q
<1>3. (q + 1) * Hour = q * Hour + Hour /\ q * Hour \in Nat
  BY <1>2
<1> QED
  BY <1>1, <1>2, <1>3

\* The next hour after a time within the hour that follows another one.
LEMMA HourAgain ==
  ASSUME NEW x \in Nat, NEW y \in Nat, NextHour(x) <= y, y < NextHour(x) + Hour
  PROVE  NextHour(y) = NextHour(x) + Hour
<1> DEFINE p == (x \div Hour) + 1
           q == y \div Hour
<1>1. NextHour(x) = p * Hour /\ NextHour(y) = (q + 1) * Hour
  BY NullIsNoTime DEF NextHour
<1>2. /\ p \in Nat /\ q \in Nat /\ Hour \in Nat \ {0}
      /\ q * Hour <= y /\ y < q * Hour + Hour
  <2>1. x \div Hour \in Nat
    BY Quotient
  <2>2. /\ y \div Hour \in Nat /\ Hour \in Nat \ {0}
        /\ (y \div Hour) * Hour <= y /\ y < (y \div Hour) * Hour + Hour
    BY Quotient
  <2> QED
    BY <2>1, <2>2
<1> HIDE DEF p, q
<1>3. /\ p * Hour \in Nat /\ q * Hour \in Nat
      /\ (p + 1) * Hour = p * Hour + Hour /\ (q + 1) * Hour = q * Hour + Hour
  BY <1>2
<1>4. ASSUME NEW a \in Nat, NEW b \in Nat, NEW h \in Nat \ {0}, a < b
      PROVE  (a + 1) * h <= b * h
  BY <1>4
<1>5. ~(q < p) /\ ~(p < q)
  <2>1. q < p => q * Hour + Hour <= p * Hour
    BY <1>2, <1>3, <1>4
  <2>2. p < q => p * Hour + Hour <= q * Hour
    BY <1>2, <1>3, <1>4
  <2> QED
    BY <1>1, <1>2, <1>3, <2>1, <2>2
<1>6. p = q
  BY <1>2, <1>5
<1> QED
  BY <1>1, <1>3, <1>6

\* A sleep ends by the next tick of a burn, or by the next hour.
LEMMA WakeupSoon ==
  ASSUME TypeInv, Queue
  PROVE  /\ NextWakeup(loop) \in Int /\ now <= NextWakeup(loop)
         /\ loop.snap.state # "chilling" => NextWakeup(loop) <= now + PollTick
         /\ /\ loop.snap.state = "chilling" /\ loop.t < NextHour(loop.snap.lastCheckAt)
            /\ loop.t = now
            => NextWakeup(loop) <= NextHour(loop.snap.lastCheckAt)
<1> DEFINE m == Least({e[1] : e \in sched})
           h == NextHour(loop.snap.lastCheckAt) - loop.t
           slot == IF sched = {} THEN {} ELSE {m - loop.t}
           own == IF loop.snap.state = "chilling" THEN {h, SleepCap} ELSE {PollTick}
           all == slot \cup own
<1>1. /\ now \in Nat /\ loop.t \in Nat
      /\ SleepCap \in Int /\ PollTick \in Int /\ 0 <= PollTick
  BY RunnerAssumption DEF TypeInv, TypeOK, LoopOK
<1>2. h \in Int /\ NextHour(loop.snap.lastCheckAt) \in Int
  <2>1. loop.snap.lastCheckAt \in Time
    BY DEF TypeInv, TypeOK, StateRecord
  <2>2. NextHour(loop.snap.lastCheckAt) \in Int
    BY <2>1, HourType
  <2> QED
    BY <1>1, <2>2
<1>3. sched # {} => m \in Int
  BY FirstSlot
<1>4. NextWakeup(loop) = now + AtLeast(0, Least(all))
  BY DEF NextWakeup
<1> HIDE DEF m
<1>5. Least(all) \in all /\ \A y \in all : Least(all) <= y
  <2>1. PICK i \in Int : sched # {} => i = m - loop.t
    BY <1>1, <1>3
  <2> HIDE DEF h
  <2>2. CASE loop.snap.state = "chilling"
    <3>1. all \subseteq {i, h, SleepCap} /\ all # {}
      BY <2>1, <2>2
    <3> HIDE DEF all
    <3> QED
      BY <1>1, <1>2, <2>1, <3>1, LeastOfThree
  <2>3. CASE loop.snap.state # "chilling"
    <3>1. all \subseteq {i, PollTick, PollTick} /\ all # {}
      BY <2>1, <2>3
    <3> HIDE DEF all
    <3> QED
      BY <1>1, <2>1, <3>1, LeastOfThree
  <2> QED
    BY <2>2, <2>3
<1>6. /\ Least(all) \in Int
      /\ loop.snap.state = "chilling" => Least(all) <= h
      /\ loop.snap.state # "chilling" => Least(all) <= PollTick
  <2> HIDE DEF h
  <2> QED
    BY <1>1, <1>2, <1>3, <1>5
<1> HIDE DEF all
<1>7. \/ NextWakeup(loop) = now /\ Least(all) <= 0
      \/ NextWakeup(loop) = now + Least(all) /\ Least(all) >= 0
  BY <1>1, <1>4, <1>6 DEF AtLeast
<1> QED
  BY <1>1, <1>2, <1>6, <1>7

\* In a burn the loop sleeps no longer than a tick.
Ticks ==
  loop.pc = "wait" /\ loop.snap.state = "burning" =>
    loop.until \in Int /\ loop.until <= now + PollTick

LEMMA TicksNext == ASSUME TypeInv, Queue, Ticks, [Next]_vars PROVE Ticks'
<1>1. ASSUME loop'.pc # "wait" PROVE Ticks'
  BY <1>1 DEF Ticks
<1>2. ASSUME loop' = loop, now' = now PROVE Ticks'
  BY <1>2 DEF Ticks
<1>3. CASE LoopStep /\ ~LoopSleep
  <2>1. ASSUME NEW l \in LoopPc, LoopGoto(l), l # "wait" PROVE loop'.pc # "wait"
    BY <2>1, GotoPc DEF TypeInv
  <2>2. ASSUME NEW k, NEW e, NEW f, LoopCheck(k, e, "top", f) PROVE loop'.pc # "wait"
    BY <2>2, LoopCheckPc
  <2>3. CASE LoopSnap
    BY <1>1, <2>3 DEF LoopSnap, TypeInv, LoopOK
  <2>4. CASE LoopLoad \/ LoopTop \/ LoopSlots \/ LoopRequeue \/ LoopHourly
    BY <1>1, <2>1, <2>2, <2>4 DEF LoopLoad, LoopTop, LoopSlots, LoopRequeue, LoopHourly,
       LoopPc
  <2>5. CASE LoopBurn \/ LoopAcquire \/ LoopSelect \/ LoopFinish \/ LoopWake
    BY <1>1, <2>1, <2>2, <2>5 DEF LoopBurn, LoopAcquire, LoopSelect, LoopFinish, LoopWake,
       LoopPc
  <2> QED
    BY <1>3, <2>3, <2>4, <2>5 DEF LoopStep
<1>4. CASE LoopSleep
  <2>1. /\ loop'.until = NextWakeup(loop) /\ loop'.snap = loop.snap
        /\ UNCHANGED now
    BY <1>4 DEF LoopSleep, TypeInv, LoopOK
  <2> QED
    BY <2>1, WakeupSoon DEF Ticks
<1>5. ASSUME NEW a \in Checker, CheckStep(a) PROVE Ticks'
  <2>1. UNCHANGED now
    BY <1>5, Zenon DEF CheckStep, Try, Decide, Crashed, Apply
  <2>2. loop' = loop \/ \E result \in BOOLEAN : Return(a, result)
    BY <1>5, Zenon DEF CheckStep, Try, Decide, Crashed, Apply
  <2>3. loop' = loop \/ loop'.pc # "wait"
    BY <2>2, ReturnPc
  <2> QED
    BY <1>1, <1>2, <2>1, <2>3
<1>6. CASE Tick
  <2>1. now \in Nat /\ PollTick \in Int
    BY RunnerAssumption DEF TypeInv, TypeOK
  <2> QED
    BY <1>6, <2>1 DEF Tick, Ticks
<1>7. CASE Restart
  BY <1>1, <1>7 DEF Restart, NewLoop
<1>8. CASE \/ UNCHANGED vars \/ UseClaude \/ AddTask \/ QueueChanges
           \/ \E a \in WebCheck : ManualCheck(a)
           \/ \E w \in WebRun : WebStart(w) \/ WebFinish(w)
  <2>1. UNCHANGED <<loop, now>>
    BY <1>8, Zenon DEF vars, UseClaude, AddTask, QueueChanges, ManualCheck, WebStart, WebFinish
  <2> QED
    BY <1>2, <2>1
<1> QED
  BY <1>3, <1>4, <1>5, <1>6, <1>7, <1>8 DEF Next

\* While the loop waits without a pending wake-up, no change of state and no
\* task it was woken for inside the burn window has gone unnoticed, and in a
\* burn it sleeps no longer than tick_seconds.
THEOREM WakeupsNoticed == Spec => []NoLostWakeup
<1>1. Init => Alert
  BY Names DEF Init, Alert, NewLoop, NoCheck, ColdState, InActiveBurn
<1>2. Init => Ticks
  BY DEF Init, Ticks, NewLoop
<1>3. Alert /\ Ticks => NoLostWakeup
  BY DEF Alert, Ticks, NoLostWakeup, InActiveBurn
<1> QED
  BY <1>1, <1>2, <1>3, TypeInit, TypeNext, AlertNext, QueueInit, QueueNext, TicksNext, PTL
  DEF Spec

-----------------------------------------------------------------------------
(* Anchors: what the loop has looked at. *)

LEMMA LoopStepLooked ==
  ASSUME TypeInv, Queue, Alert, OnTime, Prompt, Looked, LoopStep
  PROVE  Looked'
<1>1. InFlight => InFlight'
  BY FlightGoesOn
<1>2. ASSUME LoopGoto("top") PROVE Looked'
  BY <1>2, GotoFields, LookedAnew DEF TypeInv
<1>3. ASSUME NEW k, NEW e, NEW f, LoopCheck(k, e, "top", f), now' = now, wake' = wake,
             UNCHANGED <<rs.lastCheckAt, rs.state>>, loop.pc \notin {"top", "snap"},
             f = "requeue" => e[1] <= now
      PROVE  Looked'
  <2>1. /\ loop'.pc = "checking" /\ loop'.entry = e /\ loop'.onFalse = f
        /\ loop'.snap = loop.snap /\ loop'.t = loop.t
    BY <1>3, LoopCheckFields
  <2> QED
    BY <1>3, <2>1, LookedOnward
<1>4. ASSUME NEW l \in {"burn", "wantExec", "select", "execute"}, LoopGoto(l),
             UNCHANGED <<now, wake, rs>>, loop.pc \notin {"top", "snap"},
             /\ l \in {"wantExec", "select"} /\ loop.snap.state = "burning"
             => loop.t < loop.snap.burnUntil,
             /\ l = "burn" /\ loop.snap.state = "chilling" /\ ~wake
             => InFlight' \/ loop.t < NextHour(loop.snap.lastCheckAt)
      PROVE  Looked'
  <2>1. /\ loop'.pc = l /\ loop'.onFalse = loop.onFalse /\ loop'.entry = loop.entry
        /\ loop'.snap = loop.snap /\ loop'.t = loop.t
    BY <1>4, GotoFields DEF TypeInv
  <2>2. "requeue" \in {loop'.pc, loop'.onFalse} => loop'.entry[1] <= now
    BY <1>4, <2>1 DEF Looked
  <2> QED
    BY <1>4, <2>1, <2>2, LookedOnward
<1>5. ASSUME LoopGoto("sleep"), UNCHANGED <<now, wake, rs>>, loop.pc \in {"burn", "select"},
             loop.snap.state = "burning" => loop.pc = "select"
      PROVE  Looked'
  <2>1. /\ loop'.pc = "sleep" /\ loop'.onFalse = loop.onFalse /\ loop'.entry = loop.entry
        /\ loop'.snap = loop.snap /\ loop'.t = loop.t
    BY <1>5, GotoFields DEF TypeInv
  <2>2. loop.pc = "select" => loop.snap.state = "burning"
    BY DEF TypeInv, LoopOK
  <2>3. loop.snap.state = "burning" => loop.t < loop.snap.burnUntil
    BY <1>5 DEF Looked
  <2>4. loop.snap.state = "chilling" /\ ~wake =>
          InFlight \/ loop.t < NextHour(loop.snap.lastCheckAt)
    BY <1>5, <2>2 DEF Looked
  <2> QED
    BY <1>1, <1>5, <2>1, <2>3, <2>4 DEF Looked
<1>6. CASE LoopLoad
  <2>1. UNCHANGED <<rs.lastCheckAt, rs.state>>
    BY <1>6, LoadedFields DEF LoopLoad, Reading, Burn
  <2> QED
    BY <1>3, <1>6, <2>1 DEF LoopLoad
<1>7. CASE LoopTop
  <2>1. loop'.pc = "snap" /\ loop'.onFalse = loop.onFalse /\ loop.pc = "top"
    BY <1>7, GotoFields DEF LoopTop, TypeInv
  <2>2. "requeue" # loop.onFalse \/ loop.entry[1] <= now
    BY DEF Looked
  <2>3. loop'.entry = loop.entry /\ now' = now
    BY <1>7, GotoFields DEF LoopTop, TypeInv
  <2> QED
    BY <2>1, <2>2, <2>3 DEF Looked
<1>8. CASE LoopSnap
  <2>1. /\ loop'.pc = "slots" /\ loop'.snap = rs /\ UNCHANGED <<rs, now, wake>>
        /\ loop'.onFalse = loop.onFalse /\ loop'.entry = loop.entry
    BY <1>8 DEF LoopSnap, TypeInv, LoopOK
  <2>2. "requeue" # loop.onFalse \/ loop.entry[1] <= now
    BY DEF Looked
  <2> QED
    BY <2>1, <2>2 DEF Looked
<1>9. CASE LoopSlots
  <2>1. CASE \E e \in sched : e[1] <= loop.t /\ LoopCheck(e[2], e, "top", "requeue")
    <3>1. PICK e \in sched : e[1] <= loop.t /\ LoopCheck(e[2], e, "top", "requeue")
      BY <2>1
    <3>2. e[1] <= now /\ loop.pc = "slots" /\ UNCHANGED <<now, rs, wake>>
      BY <1>9, <3>1 DEF LoopSlots, Prompt
    <3> QED
      BY <1>3, <3>1, <3>2
  <2>2. CASE /\ \A e \in sched : e[1] > loop.t
             /\ LoopGoto("hourly") /\ UNCHANGED <<sched, chk>>
    <3>1. loop.t = now /\ loop.pc = "slots" /\ UNCHANGED <<now, rs, wake>>
      BY <1>9 DEF LoopSlots, Prompt
    <3>2. /\ loop'.pc = "hourly" /\ loop'.onFalse = loop.onFalse /\ loop'.entry = loop.entry
          /\ loop'.snap = loop.snap /\ loop'.t = loop.t
      BY <2>2, GotoFields DEF TypeInv
    <3> QED
      BY <2>2, <3>1, <3>2 DEF Looked
  <2> QED
    BY <1>9, <2>1, <2>2 DEF LoopSlots
<1>10. CASE LoopRequeue \/ LoopWake
  BY <1>2, <1>10 DEF LoopRequeue, LoopWake
<1>11. CASE LoopHourly
  <2>1. CASE LoopGoto("burn") /\ UNCHANGED <<rs, wake, chk>>
    <3>1. loop.snap.state = "chilling" => ~(loop.t >= NextHour(loop.snap.lastCheckAt))
      <4>1. \/ ~(loop.snap.state = "chilling" /\ loop.t >= NextHour(loop.snap.lastCheckAt))
            \/ LoopGoto("top") \/ loop'.pc = "checking"
        BY <1>11, LoopCheckFields DEF LoopHourly
      <4>2. loop'.pc = "burn"
        BY <2>1, GotoFields DEF TypeInv
      <4> QED
        BY <4>1, <4>2, GotoFields DEF TypeInv
    <3>2. loop.t \in Nat /\ NextHour(loop.snap.lastCheckAt) \in Int
      BY HourType DEF TypeInv, LoopOK, StateRecord
    <3>3. loop.snap.state = "chilling" => loop.t < NextHour(loop.snap.lastCheckAt)
      BY <3>1, <3>2
    <3> QED
      BY <1>4, <1>11, <2>1, <3>3 DEF LoopHourly
  <2>2. CASE LoopCheck("hourly", NULL, "top", "burn") /\ UNCHANGED <<rs, wake, faked>>
    BY <1>3, <1>11, <2>2 DEF LoopHourly
  <2> QED
    BY <1>2, <1>11, <2>1, <2>2 DEF LoopHourly
<1>12. CASE LoopBurn
  <2>1. CASE loop.snap.state = "chilling" /\ LoopGoto("sleep") /\ UNCHANGED <<rs, wake>>
    BY <1>5, <1>12, <2>1 DEF LoopBurn
  <2>2. CASE /\ loop.t < loop.snap.burnUntil
             /\ LoopGoto("wantExec") /\ UNCHANGED <<rs, wake>>
    BY <1>4, <1>12, <2>2 DEF LoopBurn
  <2> QED
    BY <1>2, <1>12, <2>1, <2>2 DEF LoopBurn
<1>13. CASE LoopAcquire
  <2>1. loop.snap.state = "burning" => loop.t < loop.snap.burnUntil
    BY <1>13 DEF LoopAcquire, Looked
  <2> QED
    BY <1>4, <1>13, <2>1 DEF LoopAcquire
<1>14. CASE LoopSelect
  BY <1>4, <1>5, <1>14 DEF LoopSelect
<1>15. CASE LoopFinish
  BY <1>2, <1>3, <1>15 DEF LoopFinish
<1>16. CASE LoopSleep
  <2>1. /\ loop'.pc = "wait" /\ loop'.until = NextWakeup(loop) /\ loop'.snap = loop.snap
        /\ loop'.onFalse = loop.onFalse /\ loop'.entry = loop.entry
        /\ loop.pc = "sleep" /\ UNCHANGED <<now, rs, wake>>
    BY <1>16 DEF LoopSleep, TypeInv, LoopOK
  <2>2. CASE wake
    BY <2>1, <2>2 DEF Looked
  <2>3. CASE ~wake
    <3>1. loop.t = now
      BY <2>1, <2>3 DEF OnTime
    <3>2. loop.snap.state = "burning" => NextWakeup(loop) < loop.snap.burnUntil + PollTick
      <4> SUFFICES ASSUME loop.snap.state = "burning"
                   PROVE  NextWakeup(loop) < loop.snap.burnUntil + PollTick
        OBVIOUS
      <4>1. now < loop.snap.burnUntil
        BY <2>1, <3>1 DEF Looked
      <4>2. loop.snap.burnUntil \in Nat /\ PollTick \in Nat /\ now \in Nat
        BY RunnerAssumption DEF TypeInv, TypeOK, LoopOK, StateRecord, Time
      <4>3. NextWakeup(loop) \in Int /\ NextWakeup(loop) <= now + PollTick
        BY WakeupSoon
      <4> QED
        BY <4>1, <4>2, <4>3
    <3>3. loop.snap.state = "chilling" =>
            InFlight' \/ NextWakeup(loop) <= NextHour(loop.snap.lastCheckAt)
      BY <1>1, <2>1, <2>3, <3>1, WakeupSoon DEF Looked
    <3>4. NextWakeup(loop) \in Int /\ now <= NextWakeup(loop)
      BY WakeupSoon
    <3> QED
      BY <2>1, <2>3, <3>2, <3>3, <3>4 DEF Looked
  <2> QED
    BY <2>2, <2>3
<1> QED
  BY <1>6, <1>7, <1>8, <1>9, <1>10, <1>11, <1>12, <1>13, <1>14, <1>15, <1>16 DEF LoopStep

LEMMA CheckStepLooked ==
  ASSUME TypeInv, Owners, Holder, Alert, Looked, NEW a \in Checker, CheckStep(a)
  PROVE  Looked'
<1>1. CASE (Try(a) /\ checkLock = NULL) \/ Decide(a) \/ Crashed(a)
  <2>1. UNCHANGED <<loop, now, rs, wake, sched>>
    BY <1>1, Zenon DEF Try, Decide, Crashed
  <2>2. InFlight => InFlight'
    BY <1>1, FlightGoesOn
  <2> QED
    BY <2>1, <2>2, LookedStill
<1>2. CASE Try(a) /\ checkLock # NULL
  <2>1. Return(a, FALSE) /\ UNCHANGED <<now, rs, wake, sched>> /\ chk[a].pc = "try"
    BY <1>2 DEF Try
  <2>2. InFlight /\ InFlight'
    BY <1>2, FlightGoesOn DEF Holder, InFlight, Checking, TypeInv, TypeOK
  <2>3. CASE a # "loop"
    BY <2>1, <2>2, <2>3, LookedStill DEF Return
  <2>4. CASE a = "loop"
    <3>1. loop.pc = "checking" /\ LoopGoto(loop.onFalse)
      BY <2>1, <2>4 DEF Alert, Return
    <3>2. loop.onFalse \in {"top", "requeue", "burn"}
      BY DEF TypeInv, LoopOK
    <3>3. CASE loop.onFalse = "top"
      BY <3>1, <3>3, GotoFields, LookedAnew DEF TypeInv
    <3>4. CASE loop.onFalse # "top"
      <4>1. /\ loop'.pc = loop.onFalse /\ loop'.snap = loop.snap /\ loop'.t = loop.t
            /\ loop'.onFalse = loop.onFalse /\ loop'.entry = loop.entry
        BY <3>1, <3>4, GotoFields DEF TypeInv
      <4>2. "requeue" \in {loop'.pc, loop'.onFalse} => loop'.entry[1] <= now
        BY <4>1 DEF Looked
      <4> QED
        BY <2>1, <2>2, <3>1, <3>2, <3>4, <4>1, <4>2, LookedOnward
    <3> QED
      BY <3>3, <3>4
  <2> QED
    BY <2>3, <2>4
<1>3. CASE Apply(a)
  <2>1. Return(a, TRUE) /\ now' = now /\ wake' /\ rs'.lastCheckAt = now
    BY <1>3, ApplyFields
  <2>2. CASE a = "loop"
    <3>1. LoopGoto("top")
      BY <2>1, <2>2 DEF Return, TypeInv, LoopOK
    <3> QED
      BY <3>1, GotoFields, LookedAnew DEF TypeInv
  <2>3. CASE a # "loop"
    <3>1. loop' = loop
      BY <2>1, <2>3 DEF Return
    <3>2. \A e \in sched' : e \in sched \/ e[1] > now
      <4>1. CASE UNCHANGED sched
        BY <4>1
      <4>2. CASE sched' = Armed(chk[a].proposed) /\ chk[a].action # "skip"
        <5>1. chk[a].proposed \in Nat /\ now \in Nat /\ Floor \in Nat
          BY <4>2, RunnerAssumption DEF TypeInv, TypeOK, CheckOK, CheckRecord, Time
        <5> QED
          BY <4>2, <5>1, ArmedAhead
      <4> QED
        BY <1>3, <4>1, <4>2, ApplyFields
    <3> QED
      BY <2>1, <3>1, <3>2 DEF Looked
  <2> QED
    BY <2>2, <2>3
<1> QED
  BY <1>1, <1>2, <1>3 DEF CheckStep

LEMMA LookedNext ==
  ASSUME TypeInv, Owners, Holder, Queue, Alert, OnTime, Prompt, Known, Looked, [Next]_vars
  PROVE  Looked'
<1>1. CASE AddTask \/ QueueChanges \/ UseClaude \/ UNCHANGED vars \/ \E w \in WebRun : WebFinish(w)
  <2>1. /\ UNCHANGED <<loop, now, rs, sched>> /\ (wake' \/ wake' = wake)
        /\ InFlight => InFlight'
    BY <1>1, FlightGoesOn DEF AddTask, QueueChanges, UseClaude, WebFinish, vars
  <2> QED
    BY <2>1, LookedStill
<1>2. ASSUME NEW a \in WebCheck, ManualCheck(a) PROVE Looked'
  <2>1. UNCHANGED <<loop, now, rs, sched, wake>> /\ (InFlight => InFlight')
    BY <1>2, FlightGoesOn DEF ManualCheck
  <2> QED
    BY <2>1, LookedStill
<1>3. ASSUME NEW w \in WebRun, WebStart(w) PROVE Looked'
  <2>1. /\ UNCHANGED <<loop, now, disk, wake>> /\ (LoadPersisted \/ UNCHANGED <<rs, sched>>)
        /\ InFlight => InFlight'
    BY <1>3, FlightGoesOn DEF WebStart
  <2>2. CASE UNCHANGED <<rs, sched>>
    BY <2>1, <2>2, LookedStill
  <2>3. CASE LoadPersisted
    <3>1. UNCHANGED <<rs.lastCheckAt, rs.state>>
      BY <2>3, LoadedFields DEF Reading, Burn
    <3>2. \A e \in sched' : e \in sched \/ e[1] > now
      <4>1. CASE disk.nextResetAt = NULL
        BY <2>3, <4>1 DEF LoadPersisted
      <4>2. CASE disk.nextResetAt # NULL
        <5>1. disk.nextResetAt \in Nat /\ sched' = Armed(disk.nextResetAt)
          BY <2>3, <4>2 DEF LoadPersisted, TypeInv, TypeOK, Time
        <5>2. now \in Nat
          BY DEF TypeInv, TypeOK
        <5> QED
          BY <5>1, <5>2, ArmedAhead
      <4> QED
        BY <4>1, <4>2
    <3> QED
      BY <2>1, <3>1, <3>2, LookedStill
  <2> QED
    BY <2>1, <2>2, <2>3
<1>4. CASE Restart
  <2>1. /\ loop'.pc = "load" /\ loop'.onFalse = "top" /\ loop'.snap = ColdState
        /\ rs' = ColdState
    BY <1>4 DEF Restart, NewLoop
  <2> QED
    BY <2>1 DEF Looked
<1>5. CASE Tick
  <2>1. /\ loop.pc \in {"execute", "wantExec", "checking", "wait"}
        /\ loop.pc = "wait" => ~wake /\ now < loop.until
        /\ now' = now + 1 /\ UNCHANGED <<rs, sched, wake, loop, chk>>
    BY <1>5 DEF Tick
  <2>2. InFlight => InFlight'
    BY <1>5, FlightGoesOn
  <2>3. now \in Nat
    BY DEF TypeInv, TypeOK
  <2>4. "requeue" \in {loop.pc, loop.onFalse} => loop.entry[1] \in Nat
    BY DEF TypeInv, LoopOK
  <2>5. "requeue" \in {loop.pc, loop.onFalse} => loop.entry[1] <= now'
    BY <2>1, <2>3, <2>4 DEF Looked
  <2>6. loop.pc = "wait" /\ ~wake => now' <= loop.until
    BY <2>1, <2>3 DEF Looked
  <2> QED
    BY <2>1, <2>2, <2>5, <2>6 DEF Looked
<1> QED
  BY <1>1, <1>2, <1>3, <1>4, <1>5, LoopStepLooked, CheckStepLooked, Zenon DEF Next

-----------------------------------------------------------------------------
(* Anchors: how late a slot and a reading can be. *)

\* Every slot is at most T+5 of the anchor, or was put back by a check that
\* another one made way for.
SlotsNear ==
  rs.nextResetAt # NULL => \A e \in sched :
    \/ e[1] <= rs.nextResetAt + TPlus5
    \/ rs.lastCheckAt # NULL /\ e[1] <= rs.lastCheckAt + Floor
    \/ InFlight /\ e[1] <= now + Floor

HasReading == rs.resetIn # NULL /\ ~rs.failed /\ ~rs.postResetDone

\* A reading that left the anchor alone is not older than the grace; a
\* suppressed tick may have made it seem later, but then only once an hour.
Fresh ==
  HasReading /\ ~InFlight =>
    \/ rs.lastCheckAt <= Limit
    \/ /\ rs.state = "chilling"
       /\ rs.lastCheckAt <= Limit + SuppressWindow
       /\ rs.lastCheckAt + SuppressWindow <= NextHour(rs.lastCheckAt)

\* The kinds of step that matter to both.
LEMMA Steps ==
  ASSUME [Next]_vars
  PROVE  \/ \E a \in Checker : Apply(a)
         \/ LoopLoad \/ \E w \in WebRun : WebStart(w)
         \/ LoopSlots \/ LoopRequeue \/ LoopHourly \/ LoopBurn \/ Tick \/ Restart
         \/ /\ UNCHANGED <<now, rs, sched, disk>>
            /\ \/ LoopStep
               \/ \E a \in Checker : Try(a) \/ Decide(a) \/ Crashed(a)
               \/ \E a \in WebCheck : ManualCheck(a)
               \/ \E w \in WebRun : WebFinish(w)
               \/ AddTask \/ QueueChanges \/ UseClaude \/ UNCHANGED vars
<1>1. ASSUME NEW a \in Checker, Try(a) \/ Decide(a) \/ Crashed(a)
      PROVE  UNCHANGED <<now, rs, sched, disk>>
  BY <1>1, Zenon DEF Try, Decide, Crashed
<1>2. CASE \/ LoopTop \/ LoopSnap \/ LoopAcquire \/ LoopSelect
           \/ LoopFinish \/ LoopSleep \/ LoopWake
  BY <1>2, Zenon DEF LoopTop, LoopSnap, LoopAcquire, LoopSelect, LoopFinish, LoopSleep,
     LoopWake, LoopStep
<1>3. ASSUME \/ \E a \in WebCheck : ManualCheck(a)
             \/ \E w \in WebRun : WebFinish(w)
             \/ AddTask \/ QueueChanges \/ UseClaude \/ UNCHANGED vars
      PROVE  UNCHANGED <<now, rs, sched, disk>>
  BY <1>3, Zenon DEF ManualCheck, WebFinish, AddTask, QueueChanges, UseClaude, vars
<1> QED
  BY <1>1, <1>2, <1>3, Zenon DEF Next, LoopStep, CheckStep

LEMMA SlotsNearNext ==
  ASSUME TypeInv, Queue, Prompt, Alert, Known, Looked, SlotsNear, [Next]_vars
  PROVE  SlotsNear'
<1>1. /\ now \in Nat /\ now' \in Nat /\ now' >= now /\ rs \in StateRecord
      /\ Floor \in Nat /\ TPlus5 \in Nat /\ \A e \in sched : e[1] \in Nat
  BY SessionMoves, RunnerAssumption DEF TypeInv, TypeOK
<1>2. /\ rs.lastCheckAt # NULL => rs.lastCheckAt \in Nat /\ rs.lastCheckAt <= now
      /\ rs.nextResetAt # NULL => rs.nextResetAt \in Nat
  BY <1>1 DEF StateRecord, Time, Known
<1>3. ASSUME UNCHANGED rs.nextResetAt, InFlight => InFlight', sched' \subseteq sched,
             \/ UNCHANGED rs.lastCheckAt
             \/ rs'.lastCheckAt = now /\ now # NULL
      PROVE  SlotsNear'
  <2> SUFFICES ASSUME rs.nextResetAt # NULL, NEW e \in sched
               PROVE  \/ e[1] <= rs'.nextResetAt + TPlus5
                      \/ rs'.lastCheckAt # NULL /\ e[1] <= rs'.lastCheckAt + Floor
                      \/ InFlight' /\ e[1] <= now' + Floor
    BY <1>3 DEF SlotsNear
  <2>1. \/ e[1] <= rs.nextResetAt + TPlus5
        \/ rs.lastCheckAt # NULL /\ e[1] <= rs.lastCheckAt + Floor
        \/ InFlight /\ e[1] <= now + Floor
    BY DEF SlotsNear
  <2> QED
    BY <1>1, <1>2, <1>3, <2>1
<1>4. ASSUME LoadPersisted PROVE SlotsNear'
  <2>1. rs'.nextResetAt = disk.nextResetAt /\ disk.nextResetAt \in Time
    BY <1>4, LoadedFields DEF TypeInv, TypeOK
  <2>2. disk.nextResetAt # NULL => sched' = Armed(disk.nextResetAt)
    BY <1>4 DEF LoadPersisted
  <2> QED
    BY <1>1, <2>1, <2>2, ArmedAhead DEF SlotsNear, Time
<1>5. ASSUME NEW a \in Checker, Apply(a) PROVE SlotsNear'
  <2> DEFINE c == chk[a]
  <2>1. now' = now /\ rs'.lastCheckAt = now /\ now # NULL
    BY <1>1, <1>5, ApplyFields, NullIsNoTime
  <2>2. CASE UNCHANGED Anchor /\ UNCHANGED <<sched, disk>>
    <3> SUFFICES ASSUME rs.nextResetAt # NULL, NEW e \in sched
                 PROVE  \/ e[1] <= rs'.nextResetAt + TPlus5
                        \/ e[1] <= now + Floor
      BY <2>1, <2>2 DEF SlotsNear, Anchor
    <3>1. \/ e[1] <= rs.nextResetAt + TPlus5
          \/ rs.lastCheckAt # NULL /\ e[1] <= rs.lastCheckAt + Floor
          \/ InFlight /\ e[1] <= now + Floor
      BY DEF SlotsNear
    <3> QED
      BY <1>1, <1>2, <2>2, <3>1 DEF Anchor
  <2>3. CASE /\ c.action # "skip" /\ rs'.nextResetAt = c.proposed
             /\ sched' = Armed(c.proposed)
    <3>1. c.proposed \in Nat
      BY <2>3 DEF TypeInv, CheckOK, CheckRecord, Time
    <3> QED
      BY <1>1, <2>3, <3>1, ArmedAhead DEF SlotsNear
  <2> QED
    BY <1>5, <2>2, <2>3, ApplyFields
<1>6. CASE LoopLoad \/ \E w \in WebRun : WebStart(w)
  <2>1. LoadPersisted \/ UNCHANGED <<rs, sched>>
    BY <1>6, Zenon DEF LoopLoad, WebStart
  <2>2. InFlight => InFlight'
    BY <1>6, FlightGoesOn DEF LoopStep
  <2> QED
    BY <1>3, <1>4, <2>1, <2>2
<1>7. CASE LoopSlots
  <2>1. sched' \subseteq sched /\ UNCHANGED rs
    BY <1>7 DEF LoopSlots
  <2> QED
    BY <1>3, <1>7, <2>1, FlightGoesOn DEF LoopStep
<1>8. CASE LoopRequeue
  <2>1. /\ loop.pc = "requeue" /\ UNCHANGED <<now, rs>>
        /\ sched' \subseteq sched \cup {<<AtLeast(now + Floor, loop.entry[1]), loop.entry[2]>>}
    BY <1>8 DEF LoopRequeue
  <2>2. InFlight => InFlight'
    BY <1>8, FlightGoesOn DEF LoopStep
  <2>3. loop.entry[1] \in Nat /\ loop.entry[1] <= now /\ (InFlight \/ rs.lastCheckAt = now)
    BY <2>1 DEF Looked, TypeInv, LoopOK
  <2>4. AtLeast(now + Floor, loop.entry[1]) = now + Floor
    BY <1>1, <2>3 DEF AtLeast
  <2>5. now # NULL
    BY <1>1, NullIsNoTime
  <2> SUFFICES ASSUME rs.nextResetAt # NULL, NEW e \in sched'
               PROVE  \/ e[1] <= rs.nextResetAt + TPlus5
                      \/ rs.lastCheckAt # NULL /\ e[1] <= rs.lastCheckAt + Floor
                      \/ InFlight' /\ e[1] <= now + Floor
    BY <2>1 DEF SlotsNear
  <2>6. CASE e \in sched
    BY <2>2, <2>6 DEF SlotsNear
  <2>7. CASE e[1] = now + Floor
    BY <1>1, <2>2, <2>3, <2>5, <2>7
  <2> QED
    BY <2>1, <2>4, <2>6, <2>7
<1>9. CASE LoopHourly \/ LoopBurn
  <2>1. \/ UNCHANGED rs
        \/ rs' = [rs EXCEPT !.lastCheckAt = loop.t] /\ loop.t = now
        \/ rs' = [rs EXCEPT !.state = "chilling", !.burnUntil = NULL]
    BY <1>9 DEF LoopHourly, LoopBurn, Prompt
  <2>2. sched' = sched /\ UNCHANGED rs.nextResetAt
        /\ (UNCHANGED rs.lastCheckAt \/ rs'.lastCheckAt = now)
    BY <1>1, <1>9, <2>1 DEF LoopHourly, LoopBurn, StateRecord
  <2> QED
    BY <1>1, <1>3, <1>9, <2>2, FlightGoesOn, NullIsNoTime DEF LoopStep
<1>10. CASE Tick
  BY <1>3, <1>10, FlightGoesOn DEF Tick
<1>11. CASE Restart
  BY <1>11 DEF Restart, ColdState, SlotsNear
<1>12. ASSUME UNCHANGED <<now, rs, sched, disk>>, InFlight => InFlight' PROVE SlotsNear'
  BY <1>3, <1>12
<1> QED
  BY <1>5, <1>6, <1>7, <1>8, <1>9, <1>10, <1>11, <1>12, Steps, FlightGoesOn, Zenon

\* A suppressed tick comes within the window of the last check, or before a
\* slot, and none is later than the grace.
LEMMA SuppressedFresh ==
  ASSUME WindowsNest, TypeInv, Known, Prompt, Looked, SlotsNear, Fresh,
         HasReading, ~InFlight, loop.pc = "hourly", loop.snap.state = "chilling",
         loop.t >= NextHour(loop.snap.lastCheckAt),
         HourlySuppressed(NextHour(loop.snap.lastCheckAt), loop.t)
  PROVE  \/ now <= Limit
         \/ /\ rs.state = "chilling"
            /\ now <= Limit + SuppressWindow
            /\ now + SuppressWindow <= NextHour(now)
<1> DEFINE last == rs.lastCheckAt
           anchor == rs.nextResetAt
<1>1. /\ now \in Nat /\ loop.t = now
      /\ {Floor, TPlus5, SuppressWindow, StaleGrace} \subseteq Nat /\ Hour \in Nat \ {0}
  BY RunnerAssumption DEF TypeInv, TypeOK, Prompt
<1>2. /\ last \in Nat /\ last # NULL /\ last <= now
      /\ anchor \in Nat /\ anchor # NULL
  BY DEF TypeInv, TypeOK, StateRecord, Time, Known, HasReading
<1>3. Limit = anchor + StaleGrace
  BY DEF Limit
<1>4. \/ last = now
      \/ last = loop.snap.lastCheckAt /\ rs.state = loop.snap.state
  BY DEF Looked
<1>5. \/ last <= Limit
      \/ /\ rs.state = "chilling"
         /\ last <= Limit + SuppressWindow
         /\ last + SuppressWindow <= NextHour(last)
  BY DEF Fresh
<1>6. \/ \E e \in sched : e[1] > now
      \/ now - last < SuppressWindow
  BY <1>1 DEF HourlySuppressed, Looked
<1>7. (\E e \in sched : e[1] > now) => now < anchor + TPlus5 \/ now < last + Floor
  <2>1. ASSUME NEW e \in sched, e[1] > now
        PROVE  now < anchor + TPlus5 \/ now < last + Floor
    <3>1. e[1] \in Nat
      BY DEF TypeInv, TypeOK
    <3>2. e[1] <= anchor + TPlus5 \/ e[1] <= last + Floor
      BY <1>2 DEF SlotsNear
    <3> QED
      BY <1>1, <1>2, <2>1, <3>1, <3>2
  <2> QED
    BY <2>1
<1> HIDE DEF last, anchor
<1>8. CASE last = now
  BY <1>5, <1>8 DEF last
<1>9. CASE /\ last = loop.snap.lastCheckAt /\ rs.state = "chilling"
           /\ ~(now <= Limit)
  <2>1. now < last + SuppressWindow
    BY <1>1, <1>2, <1>3, <1>6, <1>7, <1>9 DEF WindowsNest
  <2>2. NextHour(last) <= now /\ NextHour(last) \in Nat /\ last < NextHour(last)
    BY <1>1, <1>2, <1>9, HourAfter
  <2>3. last <= Limit
    BY <1>1, <1>2, <1>5, <2>1, <2>2
  <2>4. now < NextHour(last) + Hour
    BY <1>1, <1>2, <2>1, <2>2 DEF WindowsNest
  <2>5. NextHour(now) = NextHour(last) + Hour
    BY <1>1, <1>2, <2>2, <2>4, HourAgain
  <2>6. now + SuppressWindow <= NextHour(now)
    BY <1>1, <1>2, <2>1, <2>2, <2>5 DEF WindowsNest
  <2> QED
    BY <1>1, <1>2, <1>3, <1>9, <2>1, <2>3, <2>6
<1> QED
  BY <1>4, <1>8, <1>9

LEMMA FreshNext ==
  ASSUME WindowsNest, TypeInv, Queue, Prompt, Alert, Known, Verdicts, Looked, SlotsNear,
         Fresh, [Next]_vars
  PROVE  Fresh'
<1>1. /\ now \in Nat /\ rs \in StateRecord /\ StaleGrace \in Nat
  BY RunnerAssumption DEF TypeInv, TypeOK
<1>2. ASSUME UNCHANGED Anchor, UNCHANGED Reading, InFlight => InFlight',
             rs'.state = rs.state \/ rs'.state = "chilling"
      PROVE  Fresh'
  BY <1>2 DEF Fresh, HasReading, Anchor, Reading, Limit
<1>3. ASSUME LoadPersisted, InFlight => InFlight' PROVE Fresh'
  <2>1. UNCHANGED Reading /\ UNCHANGED Burn
    BY <1>3, LoadedFields
  <2>2. CASE rs.resetIn = NULL
    BY <2>1, <2>2 DEF Fresh, HasReading, Reading
  <2>3. CASE rs.resetIn # NULL
    <3>1. UNCHANGED Anchor
      BY <1>3, <2>3, LoadedFields DEF Known
    <3> QED
      BY <1>2, <1>3, <2>1, <3>1 DEF Burn
  <2> QED
    BY <2>2, <2>3
<1>4. ASSUME NEW a \in Checker, Apply(a) PROVE Fresh'
  <2> DEFINE c == chk[a]
  <2> SUFFICES ASSUME HasReading' PROVE rs'.lastCheckAt <= Limit'
    BY DEF Fresh
  <2>1. rs'.lastCheckAt = now /\ ~c.crashed /\ c.reset # NULL
    BY <1>4, ApplyFields DEF HasReading
  <2>2. /\ c.proposed # NULL /\ c.proposed >= now
        /\ c.action = "skip" =>
             rs.nextResetAt # NULL /\ (rs.postResetDone \/ now <= Limit)
    BY <1>4, <2>1, ApplyFields DEF Verdicts, Verdict
  <2>3. CASE c.action = "skip"
    <3>1. UNCHANGED Anchor
      BY <1>4, <2>3, ApplyFields
    <3> QED
      BY <2>1, <2>2, <2>3, <3>1 DEF HasReading, Anchor, Limit
  <2>4. CASE c.action # "skip"
    <3>1. rs'.nextResetAt = c.proposed
      BY <1>4, <2>1, <2>4, ApplyFields
    <3>2. c.proposed \in Nat
      BY <2>4 DEF TypeInv, CheckOK, CheckRecord, Time
    <3> QED
      BY <1>1, <2>1, <2>2, <3>1, <3>2 DEF Limit
  <2> QED
    BY <2>3, <2>4
<1>5. CASE LoopLoad \/ \E w \in WebRun : WebStart(w)
  <2>1. LoadPersisted \/ UNCHANGED <<rs, sched>>
    BY <1>5, Zenon DEF LoopLoad, WebStart
  <2>2. InFlight => InFlight'
    BY <1>5, FlightGoesOn DEF LoopStep
  <2> QED
    BY <1>2, <1>3, <2>1, <2>2 DEF Anchor, Reading
<1>6. CASE LoopSlots \/ LoopRequeue \/ Tick
  <2>1. UNCHANGED rs /\ (InFlight => InFlight')
    BY <1>6, FlightGoesOn DEF LoopStep, LoopSlots, LoopRequeue, Tick
  <2> QED
    BY <1>2, <2>1 DEF Anchor, Reading
<1>7. CASE LoopBurn
  <2>1. UNCHANGED rs \/ rs' = [rs EXCEPT !.state = "chilling", !.burnUntil = NULL]
    BY <1>7 DEF LoopBurn
  <2>2. /\ UNCHANGED Anchor /\ UNCHANGED Reading
        /\ (rs'.state = rs.state \/ rs'.state = "chilling")
    BY <1>1, <2>1 DEF StateRecord, Anchor, Reading
  <2> QED
    BY <1>2, <1>7, <2>2, FlightGoesOn DEF LoopStep
<1>8. CASE LoopHourly
  <2>1. InFlight => InFlight'
    BY <1>8, FlightGoesOn DEF LoopStep
  <2>2. \/ UNCHANGED rs
        \/ /\ rs' = [rs EXCEPT !.lastCheckAt = loop.t]
           /\ loop.snap.state = "chilling" /\ loop.t >= NextHour(loop.snap.lastCheckAt)
           /\ HourlySuppressed(NextHour(loop.snap.lastCheckAt), loop.t)
    BY <1>8 DEF LoopHourly
  <2>3. CASE UNCHANGED rs
    BY <1>2, <2>1, <2>3 DEF Anchor, Reading
  <2>4. CASE /\ rs' = [rs EXCEPT !.lastCheckAt = loop.t]
             /\ loop.snap.state = "chilling" /\ loop.t >= NextHour(loop.snap.lastCheckAt)
             /\ HourlySuppressed(NextHour(loop.snap.lastCheckAt), loop.t)
    <3>1. /\ rs'.lastCheckAt = now /\ UNCHANGED Anchor /\ UNCHANGED Burn
          /\ UNCHANGED <<rs.resetIn, rs.failed>> /\ loop.pc = "hourly"
      BY <1>1, <1>8, <2>4 DEF StateRecord, Anchor, Burn, LoopHourly, Prompt
    <3> SUFFICES ASSUME HasReading, ~InFlight
                 PROVE  \/ now <= Limit
                        \/ /\ rs.state = "chilling"
                           /\ now <= Limit + SuppressWindow
                           /\ now + SuppressWindow <= NextHour(now)
      BY <2>1, <3>1 DEF Fresh, HasReading, Anchor, Burn, Limit
    <3> QED
      BY <2>4, <3>1, SuppressedFresh
  <2> QED
    BY <2>2, <2>3, <2>4
<1>9. CASE Restart
  BY <1>9 DEF Restart, ColdState, Fresh, HasReading
<1>10. ASSUME UNCHANGED <<now, rs, sched, disk>>, InFlight => InFlight' PROVE Fresh'
  BY <1>2, <1>10 DEF Anchor, Reading
<1> QED
  BY <1>4, <1>5, <1>6, <1>7, <1>8, <1>9, <1>10, Steps, FlightGoesOn, Zenon

\* All that holds whatever the durations are.
Informed ==
  /\ Owners /\ Holder /\ Queue /\ Alert /\ OnTime /\ Prompt
  /\ Known /\ Verdicts /\ Looked

LEMMA InformedInvariant == Spec => [](TypeInv /\ Informed)
<1>1. Init => Informed
  <2> SUFFICES ASSUME Init PROVE Informed
    OBVIOUS
  <2>1. Alert
    BY Names DEF Init, Alert, NewLoop, NoCheck, ColdState, InActiveBurn
  <2>2. OnTime /\ Prompt /\ Holder
    BY DEF Init, NewLoop, OnTime, Prompt, Holder
  <2>3. Known /\ Verdicts
    BY DEF Init, Known, ColdState, Verdicts, NoCheck
  <2>4. Looked
    BY DEF Init, NewLoop, Looked, ColdState
  <2> QED
    BY <2>1, <2>2, <2>3, <2>4, OwnersInit, QueueInit DEF Informed
<1>2. TypeInv /\ Informed /\ [Next]_vars => Informed'
  BY OwnersNext, HolderNext, QueueNext, AlertNext, OnTimeNext, PromptNext, KnownNext,
     VerdictsNext, LookedNext DEF Informed
<1> QED
  BY <1>1, <1>2, TypeInit, TypeNext, PTL DEF Spec

\* What the invariants say of a loop that waits.
LEMMA WaitsInTime ==
  ASSUME TypeInv, Informed, Fresh, ~rs.postResetDone PROVE AnchorRecovers
<1> SUFFICES ASSUME loop.pc = "wait", ~wake, Checking = {}, rs.resetIn # NULL, ~rs.failed
             PROVE  /\ rs.nextResetAt # NULL
                    /\ now <= rs.nextResetAt + StaleGrace
                              + AtLeast(Hour + SuppressWindow, BurnWindow + PollTick)
  BY DEF AnchorRecovers
<1> DEFINE last == rs.lastCheckAt
           anchor == rs.nextResetAt
<1>1. /\ last \in Nat /\ last # NULL /\ anchor \in Nat /\ anchor # NULL /\ now \in Nat
      /\ {SuppressWindow, StaleGrace, BurnWindow, PollTick} \subseteq Nat /\ Hour \in Nat
  BY RunnerAssumption DEF Informed, Known, TypeInv, TypeOK, StateRecord, Time
<1>2. ~InFlight /\ HasReading
  BY DEF InFlight, HasReading
<1>3. \/ last <= anchor + StaleGrace
      \/ rs.state = "chilling" /\ last <= anchor + StaleGrace + SuppressWindow
  BY <1>2 DEF Fresh, Limit
<1>4. /\ loop.snap.state = rs.state /\ loop.snap.burnUntil = rs.burnUntil
      /\ loop.snap.lastCheckAt = last
  BY DEF Informed, Alert, Looked
<1>5. loop.until \in Int /\ now <= loop.until
  BY DEF Informed, Looked
<1>6. CASE rs.state = "chilling"
  <2>1. loop.until <= NextHour(last)
    BY <1>2, <1>4, <1>6 DEF Informed, Looked
  <2>2. NextHour(last) \in Nat /\ NextHour(last) <= last + Hour
    BY <1>1, HourAfter
  <2> HIDE DEF last, anchor
  <2>3. now <= anchor + StaleGrace + (Hour + SuppressWindow)
    BY <1>1, <1>3, <1>5, <2>1, <2>2
  <2> QED
    BY <1>1, <2>3 DEF AtLeast, last, anchor
<1>7. CASE rs.state = "burning"
  <2>1. loop.until < rs.burnUntil + PollTick
    BY <1>4, <1>7 DEF Informed, Looked
  <2>2. rs.burnUntil \in Nat /\ rs.burnUntil < last + BurnWindow
    BY <1>7 DEF Informed, Known, TypeInv, TypeOK, StateRecord, Time
  <2>3. last <= anchor + StaleGrace
    BY <1>3, <1>7
  <2> HIDE DEF last, anchor
  <2>4. now <= anchor + StaleGrace + (BurnWindow + PollTick)
    BY <1>1, <1>5, <2>1, <2>2, <2>3
  <2> QED
    BY <1>1, <2>4 DEF AtLeast, last, anchor
<1> QED
  BY <1>6, <1>7 DEF TypeInv, TypeOK, StateRecord

\* A runner that sleeps has an anchor that is overdue by no more than the
\* grace and an hour or a burn window, unless a T+5 check has set it: whatever
\* is read, fails, is checked by hand, dropped, suppressed or restarted.
THEOREM AnchorsRecoverUnlessDone ==
  ASSUME WindowsNest PROVE Spec => [](~rs.postResetDone => AnchorRecovers)
<1> DEFINE I == TypeInv /\ Informed
           F == SlotsNear /\ Fresh
<1>1. Init => F
  BY DEF Init, ColdState, SlotsNear, Fresh, HasReading
<1>2. I /\ F /\ [Next]_vars => F'
  BY SlotsNearNext, FreshNext DEF Informed
<1>3. I /\ F => (~rs.postResetDone => AnchorRecovers)
  BY WaitsInTime
<1>4. Spec => []I
  BY InformedInvariant
<1> HIDE DEF I, F
<1> QED
  BY <1>1, <1>2, <1>3, <1>4, PTL DEF Spec

-----------------------------------------------------------------------------
(* The T+5 check: it reads a session that has begun after its anchor, a     *)
(* cycle ahead, and so out of the band in which it may re-anchor.           *)

\* Exact readings, no checks by hand, and a band that is less than a cycle.
UndisturbedChecks ==
  /\ ExactReadings /\ MaxManual = 0
  /\ TPlus5 > 0 /\ DriftTolerance < Cycle

OnlyLoop == manuals = 0 /\ \A a \in WebCheck : chk[a].pc = "idle"

\* The anchor is the end of this session, or of an earlier one.
AnchorFits(end) ==
  disk.nextResetAt # NULL => disk.nextResetAt = end \/ disk.nextResetAt + Cycle <= end

AfterReset(t) == disk.nextResetAt # NULL /\ disk.nextResetAt + TPlus5 <= t

\* Every T+5 slot, queued, popped or being checked, is that of the anchor.
TPlus5Late ==
  /\ \A e \in sched : e[2] = "post_reset" => AfterReset(e[1])
  /\ /\ loop.pc = "requeue" \/ (loop.pc = "checking" /\ loop.onFalse = "requeue")
     /\ loop.entry[2] = "post_reset"
     => AfterReset(loop.entry[1])
  /\ chk["loop"].pc # "idle" /\ chk["loop"].kind = "post_reset" => AfterReset(now)

NoneAccepted ==
  /\ ~rs.postResetDone /\ ~disk.postResetDone
  /\ \A a \in Checker : chk[a].pc = "apply" =>
       /\ chk[a].action = "skip" \/ chk[a].effective # "post_reset"
       /\ chk[a].proposed # NULL => chk[a].proposed = session /\ session > now

Undisturbed == OnlyLoop /\ AnchorFits(session) /\ TPlus5Late /\ NoneAccepted

LEMMA OnlyLoopNext ==
  ASSUME UndisturbedChecks, TypeInv, OnlyLoop, [Next]_vars PROVE OnlyLoop'
<1>1. ASSUME NEW a \in Checker, CheckStep(a) PROVE OnlyLoop'
  <2>1. chk[a].pc # "idle"
    <3>1. CASE Apply(a)
      BY <3>1, ApplyFields
    <3> QED
      BY <1>1, <3>1, Zenon DEF CheckStep, Try, Decide, Crashed
  <2>2. a = "loop"
    BY <2>1 DEF OnlyLoop, Checker
  <2>3. \A b \in WebCheck : chk'[b] = chk[b]
    <3>1. "loop" \notin WebCheck
      BY RunnerAssumption
    <3>2. Try(a) \/ Decide(a) \/ Crashed(a) \/ Return(a, TRUE)
      BY <1>1, ApplyFields DEF CheckStep
    <3>3. Return(a, TRUE) \/ Return(a, FALSE) \/ \E c : chk' = [chk EXCEPT ![a] = c]
      BY <3>2, Zenon DEF Try, Decide, Crashed, Return
    <3> QED
      BY <2>2, <3>1, <3>3, ReturnPc DEF TypeInv, Checker
  <2>4. manuals' = manuals
    BY <1>1, Zenon DEF CheckStep, Try, Decide, Crashed, Apply, Ghosts, Counters
  <2> QED
    BY <2>3, <2>4 DEF OnlyLoop
<1>2. CASE LoopStep
  <2>1. manuals' = manuals /\ (UNCHANGED chk \/ \E k, e, f : LoopCheck(k, e, "top", f))
    BY <1>2, Zenon DEF LoopStep, LoopLoad, LoopTop, LoopSnap, LoopSlots, LoopRequeue,
       LoopHourly, LoopBurn, LoopAcquire, LoopSelect, LoopFinish, LoopSleep, LoopWake,
       Ghosts, Counters
  <2>2. \A b \in WebCheck : chk'[b] = chk[b]
    <3>1. "loop" \notin WebCheck
      BY RunnerAssumption
    <3> QED
      BY <2>1, <3>1, LoopCheckPc DEF Checker
  <2> QED
    BY <2>1, <2>2 DEF OnlyLoop
<1>3. ASSUME NEW a \in WebCheck, ManualCheck(a) PROVE FALSE
  BY <1>3 DEF ManualCheck, OnlyLoop, UndisturbedChecks
<1>4. CASE Restart
  BY <1>4 DEF Restart, OnlyLoop, Checker, NoCheck
<1>5. ASSUME \/ \E w \in WebRun : WebStart(w) \/ WebFinish(w)
             \/ AddTask \/ QueueChanges \/ UseClaude \/ Tick \/ UNCHANGED vars
      PROVE  UNCHANGED <<chk, manuals>>
  BY <1>5, Zenon DEF WebStart, WebFinish, AddTask, QueueChanges, UseClaude, Tick, vars, Ghosts,
                   Counters
<1> QED
  BY <1>1, <1>2, <1>3, <1>4, <1>5 DEF Next, OnlyLoop

\* A session that follows another ends a cycle after it, or later.
LEMMA AnchorFitsNext ==
  ASSUME TypeInv, AnchorFits(session), NoneAccepted, [Next]_vars PROVE AnchorFits(session)'
<1>1. /\ session' = session \/ (session <= now /\ session' = now + Cycle)
      /\ now \in Nat /\ session \in Nat /\ Cycle \in Nat /\ disk.nextResetAt \in Time
  BY SessionMoves, RunnerAssumption DEF TypeInv, TypeOK
<1>2. CASE UNCHANGED disk
  BY <1>1, <1>2 DEF AnchorFits, Time
<1>3. ASSUME NEW a \in Checker, Apply(a) PROVE AnchorFits(session)'
  <2>1. session' = session
    BY <1>3, Zenon DEF Apply
  <2>2. UNCHANGED disk \/ (chk[a].action # "skip" /\ disk'.nextResetAt = chk[a].proposed)
    BY <1>3, ApplyFields
  <2>3. chk[a].action # "skip" => chk[a].proposed = session
    BY <1>3, ApplyFields DEF NoneAccepted, TypeInv, CheckOK
  <2> QED
    BY <1>2, <2>1, <2>2, <2>3 DEF AnchorFits
<1>4. ASSUME \A a \in Checker : ~Apply(a) PROVE UNCHANGED disk
  <2>1. ASSUME NEW a \in Checker, CheckStep(a) PROVE UNCHANGED disk
    <3>1. CASE Decide(a)
      BY <3>1, Zenon DEF Decide
    <3> QED
      BY <1>4, <2>1, <3>1 DEF CheckStep, Try, Crashed
  <2> QED
    BY <2>1, Zenon DEF Next, LoopStep, LoopLoad, LoopTop, LoopSnap, LoopSlots, LoopRequeue,
       LoopHourly, LoopBurn, LoopAcquire, LoopSelect, LoopFinish, LoopSleep, LoopWake,
       ManualCheck, WebStart, WebFinish, AddTask, QueueChanges, UseClaude, Restart, Tick, vars
<1> QED
  BY <1>2, <1>3, <1>4

LEMMA ArmedTPlus5 ==
  ASSUME NEW anchor, NEW e \in Armed(anchor), e[2] = "post_reset"
  PROVE  e[1] = anchor + TPlus5
  BY DEF Armed

\* The slots are those of the anchor, and the popped one is behind.
LEMMA LateStays ==
  ASSUME TypeInv, TPlus5Late, UNCHANGED disk, now' \in Nat, now' >= now,
         \A e \in sched' : e \in sched \/ (e[2] = "post_reset" => AfterReset(e[1])),
         \/ loop' = loop
         \/ loop'.pc \notin {"requeue", "checking"}
         \/ /\ loop'.pc = "requeue" \/ (loop'.pc = "checking" /\ loop'.onFalse = "requeue")
            /\ loop'.entry[2] = "post_reset"
            => AfterReset(loop'.entry[1]),
         /\ chk'["loop"].pc # "idle" /\ chk'["loop"].kind = "post_reset"
         => AfterReset(now) \/ (chk["loop"].pc # "idle" /\ chk["loop"].kind = "post_reset")
  PROVE  TPlus5Late'
<1>1. now \in Nat /\ disk.nextResetAt \in Time /\ TPlus5 \in Nat
  BY RunnerAssumption DEF TypeInv, TypeOK
<1>2. AfterReset(now) => AfterReset(now)'
  BY <1>1 DEF AfterReset, Time
<1>3. ASSUME NEW t, AfterReset(t), t' = t PROVE AfterReset(t)'
  BY <1>3 DEF AfterReset
<1>4. ASSUME NEW e \in sched', e[2] = "post_reset"
      PROVE  disk'.nextResetAt # NULL /\ disk'.nextResetAt + TPlus5 <= e[1]
  <2>1. AfterReset(e[1])
    BY <1>4 DEF TPlus5Late
  <2> QED
    BY <2>1 DEF AfterReset
<1>5. /\ loop'.pc = "requeue" \/ (loop'.pc = "checking" /\ loop'.onFalse = "requeue")
      /\ loop'.entry[2] = "post_reset"
      => disk'.nextResetAt # NULL /\ disk'.nextResetAt + TPlus5 <= loop'.entry[1]
  BY DEF TPlus5Late, AfterReset
<1>6. chk'["loop"].pc # "idle" /\ chk'["loop"].kind = "post_reset" => AfterReset(now)'
  BY <1>2 DEF TPlus5Late
<1> QED
  BY <1>4, <1>5, <1>6 DEF TPlus5Late, AfterReset

LEMMA LoadedLate ==
  ASSUME TypeInv, LoadPersisted
  PROVE  \A e \in sched' : e \in sched \/ (e[2] = "post_reset" => AfterReset(e[1]))
<1>1. CASE disk.nextResetAt = NULL
  BY <1>1 DEF LoadPersisted
<1>2. CASE disk.nextResetAt # NULL
  <2>1. sched' = Armed(disk.nextResetAt) /\ disk.nextResetAt + TPlus5 \in Int
    BY <1>2, RunnerAssumption DEF LoadPersisted, TypeInv, TypeOK, Time
  <2> QED
    BY <1>2, <2>1, ArmedTPlus5 DEF AfterReset
<1> QED
  BY <1>1, <1>2

LEMMA LoopStepLate ==
  ASSUME TypeInv, Queue, Alert, TPlus5Late, LoopStep, [Next]_vars
  PROVE  TPlus5Late'
<1>1. now' \in Nat /\ now' >= now
  BY SessionMoves
<1>2. UNCHANGED disk /\ loop.pc # "checking" /\ chk["loop"].pc = "idle"
  BY DEF LoopStep, LoopLoad, LoopTop, LoopSnap, LoopSlots, LoopRequeue, LoopHourly,
     LoopBurn, LoopAcquire, LoopSelect, LoopFinish, LoopSleep, LoopWake, Alert
<1>3. ASSUME NEW k, NEW e, NEW f, LoopCheck(k, e, "top", f),
             \A d \in sched' : d \in sched \/ (d[2] = "post_reset" => AfterReset(d[1])),
             f = "requeue" /\ e[2] = "post_reset" => AfterReset(e[1]),
             k = "post_reset" => AfterReset(now)
      PROVE  TPlus5Late'
  <2>1. loop'.pc = "checking" /\ loop'.onFalse = f /\ loop'.entry = e
    BY <1>3, LoopCheckFields
  <2>2. chk'["loop"].kind = k
    BY <1>3, Names DEF LoopCheck, TypeInv, NoCheck
  <2> QED
    BY <1>1, <1>2, <1>3, <2>1, <2>2, LateStays
<1>4. ASSUME UNCHANGED chk, loop'.pc \notin {"requeue", "checking"},
             \A d \in sched' : d \in sched \/ (d[2] = "post_reset" => AfterReset(d[1]))
      PROVE  TPlus5Late'
  BY <1>1, <1>2, <1>4, LateStays
<1>5. ASSUME NEW l, l \notin {"requeue", "checking"}, LoopGoto(l), UNCHANGED chk,
             \A d \in sched' : d \in sched \/ (d[2] = "post_reset" => AfterReset(d[1]))
      PROVE  TPlus5Late'
  BY <1>4, <1>5, GotoPc DEF TypeInv
<1>6. CASE LoopLoad
  BY <1>3, <1>6, LoadedLate DEF LoopLoad
<1>7. CASE LoopTop \/ LoopBurn \/ LoopAcquire \/ LoopSelect \/ LoopWake
  BY <1>5, <1>7 DEF LoopTop, LoopBurn, LoopAcquire, LoopSelect, LoopWake
<1>8. CASE LoopSnap \/ LoopSleep
  <2>1. loop'.pc \in {"slots", "wait"} /\ UNCHANGED <<chk, sched>>
    BY <1>8 DEF LoopSnap, LoopSleep, TypeInv, LoopOK
  <2> QED
    BY <1>4, <2>1
<1>9. CASE LoopSlots
  <2>1. CASE LoopGoto("hourly") /\ UNCHANGED <<sched, chk>>
    BY <1>5, <2>1
  <2>2. ASSUME NEW e \in sched, e[1] <= loop.t, sched' = sched \ {e},
               LoopCheck(e[2], e, "top", "requeue")
        PROVE  TPlus5Late'
    <3>1. e[2] = "post_reset" => AfterReset(e[1])
      BY DEF TPlus5Late
    <3>2. /\ e[1] \in Nat /\ loop.t \in Nat /\ now \in Nat /\ loop.t <= now
          /\ disk.nextResetAt \in Time /\ TPlus5 \in Nat
      BY RunnerAssumption DEF TypeInv, TypeOK, LoopOK, Queue
    <3>3. e[2] = "post_reset" => AfterReset(now)
      BY <2>2, <3>1, <3>2 DEF AfterReset, Time
    <3> QED
      BY <1>3, <2>2, <3>1, <3>3
  <2> QED
    BY <1>9, <2>1, <2>2 DEF LoopSlots
<1>10. CASE LoopRequeue
  <2>1. /\ LoopGoto("top") /\ UNCHANGED chk /\ loop.pc = "requeue"
        /\ sched' \subseteq sched \cup {<<AtLeast(now + Floor, loop.entry[1]), loop.entry[2]>>}
    BY <1>10 DEF LoopRequeue
  <2>2. loop.entry[2] = "post_reset" => AfterReset(loop.entry[1])
    BY <2>1 DEF TPlus5Late
  <2>3. /\ loop.entry[1] \in Nat /\ now + Floor \in Nat /\ disk.nextResetAt \in Time
        /\ TPlus5 \in Nat
    BY <2>1, RunnerAssumption DEF TypeInv, TypeOK, LoopOK
  <2>4. loop.entry[2] = "post_reset" => AfterReset(AtLeast(now + Floor, loop.entry[1]))
    BY <2>2, <2>3 DEF AfterReset, AtLeast, Time
  <2> QED
    BY <1>5, <2>1, <2>4
<1>11. CASE LoopHourly \/ LoopFinish
  BY <1>3, <1>5, <1>11 DEF LoopHourly, LoopFinish
<1> QED
  BY <1>6, <1>7, <1>8, <1>9, <1>10, <1>11 DEF LoopStep

LEMMA TPlus5LateNext ==
  ASSUME TypeInv, Queue, Alert, OnlyLoop, TPlus5Late, [Next]_vars PROVE TPlus5Late'
<1>1. now' \in Nat /\ now' >= now
  BY SessionMoves
<1>2. ASSUME NEW a \in Checker, CheckStep(a) PROVE TPlus5Late'
  <2>1. a = "loop"
    <3>1. chk[a].pc # "idle"
      <4>1. CASE Apply(a)
        BY <4>1, ApplyFields
      <4> QED
        BY <1>2, <4>1, Zenon DEF CheckStep, Try, Decide, Crashed
    <3> QED
      BY <3>1 DEF OnlyLoop, Checker
  <2>2. CASE Apply(a)
    <3>1. Return(a, TRUE) /\ LoopGoto("top") /\ now' = now
      BY <2>1, <2>2, ApplyFields DEF Return, TypeInv, LoopOK
    <3>2. loop'.pc = "top" /\ chk'["loop"].pc = "idle"
      BY <2>1, <3>1, GotoPc, ReturnPc DEF TypeInv
    <3>3. CASE UNCHANGED <<sched, disk>>
      BY <1>1, <3>2, <3>3, LateStays
    <3>4. CASE /\ chk[a].action # "skip" /\ disk'.nextResetAt = chk[a].proposed
               /\ sched' = Armed(chk[a].proposed)
      <4>1. chk[a].proposed \in Nat /\ TPlus5 \in Nat
        BY <3>4, RunnerAssumption DEF TypeInv, CheckOK, CheckRecord, Time
      <4>2. \A e \in sched' : e[2] = "post_reset" =>
              disk'.nextResetAt # NULL /\ disk'.nextResetAt + TPlus5 <= e[1]
        BY <3>4, <4>1, ArmedTPlus5, NullIsNoTime
      <4> QED
        BY <3>2, <4>2 DEF TPlus5Late, AfterReset
    <3> QED
      BY <2>2, <3>3, <3>4, ApplyFields
  <2>3. CASE Try(a) /\ checkLock # NULL
    <3>1. Return(a, FALSE) /\ LoopGoto(loop.onFalse) /\ UNCHANGED <<sched, disk, now>>
      BY <2>1, <2>3 DEF Return, Try
    <3>2. loop.pc = "checking" /\ chk'["loop"].pc = "idle"
      BY <2>1, <2>3, <3>1, ReturnPc DEF Alert, Try
    <3>3. \/ loop'.pc \notin {"requeue", "checking"}
          \/ loop'.pc = "requeue" /\ loop.onFalse = "requeue" /\ loop'.entry = loop.entry
      BY <3>1, GotoFields DEF TypeInv, LoopOK
    <3> QED
      BY <1>1, <3>1, <3>2, <3>3, LateStays DEF TPlus5Late
  <2>4. CASE (Try(a) /\ checkLock = NULL) \/ Decide(a) \/ Crashed(a)
    <3>1. UNCHANGED <<loop, sched, disk, now>> /\ chk[a].pc # "idle"
      BY <2>4, Zenon DEF Try, Decide, Crashed
    <3>2. chk'[a].kind = chk[a].kind
      <4>1. CASE Decide(a)
        <5>1. PICK reset, plenty :
                chk' = [chk EXCEPT ![a] = Decided(chk[a].kind, reset, plenty)]
          BY <4>1, Zenon DEF Decide
        <5>2. Decided(chk[a].kind, reset, plenty).kind = chk[a].kind
          BY DEF Decided
        <5> QED
          BY <5>1, <5>2 DEF TypeInv
      <4>2. CASE Crashed(a)
        BY <4>2 DEF Crashed, TypeInv, CheckRecord
      <4>3. CASE Try(a) /\ checkLock = NULL
        BY <4>3 DEF Try, TypeInv, CheckRecord
      <4> QED
        BY <2>4, <4>1, <4>2, <4>3
    <3> QED
      BY <1>1, <2>1, <3>1, <3>2, LateStays
  <2> QED
    BY <1>2, <2>2, <2>3, <2>4 DEF CheckStep
<1>3. ASSUME NEW a \in WebCheck, ManualCheck(a) PROVE TPlus5Late'
  <2>1. "loop" # a
    BY RunnerAssumption
  <2>2. chk'["loop"] = chk["loop"] /\ UNCHANGED <<loop, sched, disk>>
    BY <1>3, <2>1, Names DEF ManualCheck, TypeInv
  <2> QED
    BY <1>1, <2>2, LateStays
<1>4. ASSUME NEW w \in WebRun, WebStart(w) PROVE TPlus5Late'
  <2>1. UNCHANGED <<disk, loop, chk>> /\ (LoadPersisted \/ UNCHANGED sched)
    BY <1>4, Zenon DEF WebStart
  <2> QED
    BY <1>1, <2>1, LoadedLate, LateStays
<1>5. CASE Restart
  BY <1>5, Names DEF Restart, TPlus5Late, NewLoop, NoCheck
<1>6. ASSUME \/ \E w \in WebRun : WebFinish(w)
             \/ AddTask \/ QueueChanges \/ UseClaude \/ Tick \/ UNCHANGED vars
      PROVE  UNCHANGED <<chk, loop, sched, disk>>
  BY <1>6, Zenon DEF WebFinish, AddTask, QueueChanges, UseClaude, Tick, vars
<1>7. ASSUME UNCHANGED <<chk, loop, sched, disk>> PROVE TPlus5Late'
  BY <1>1, <1>7, LateStays
<1> QED
  BY <1>2, <1>3, <1>4, <1>5, <1>6, <1>7, LoopStepLate DEF Next

\* A reading without an error is what is left.
LEMMA TimeLeft ==
  ASSUME NEW n \in Nat, NEW s \in Nat, s > n, NEW r, r = AtLeast(0, s - n + 0)
  PROVE  n + r = s
  BY DEF AtLeast

\* What the T+5 check reads is out of its band.
LEMMA DecidedNotAccepted ==
  ASSUME UndisturbedChecks, TypeInv, Queue, Alert, TPlus5Late, loop.pc # "load",
         session' \in Nat, AnchorFits(session'),
         NEW reset \in Time, NEW plenty \in BOOLEAN, Fetched(reset)
  PROVE  LET d == Decided(chk["loop"].kind, reset, plenty)
         IN  /\ d.action = "skip" \/ d.effective # "post_reset" \/ chk["loop"].pc = "idle"
             /\ d.proposed # NULL => d.proposed = session' /\ session' > now
<1> DEFINE kind == chk["loop"].kind
           proposed == IF reset = NULL THEN NULL ELSE now + reset
           act == AnchorAction(rs, kind, proposed)
           d == Decided(kind, reset, plenty)
<1>1. /\ now \in Nat /\ Cycle \in Nat /\ TPlus5 \in Nat /\ DriftTolerance \in Nat
      /\ Cycle > 0 /\ session \in Nat
  BY RunnerAssumption DEF TypeInv, TypeOK
<1>2. d.action = act[1] /\ d.effective = act[2] /\ d.proposed = proposed
  BY DEF Decided
<1>3. proposed # NULL => proposed = session' /\ session' > now
  <2> SUFFICES ASSUME reset # NULL PROVE proposed = session' /\ session' > now
    OBVIOUS
  <2>1. session' > now
    BY <1>1 DEF Fetched
  <2>2. \A j \in Jitter : j = 0
    BY DEF UndisturbedChecks, ExactReadings
  <2>3. reset = AtLeast(0, session' - now + 0)
    BY <2>2 DEF Fetched
  <2>4. now + reset = session'
    BY <1>1, <2>1, <2>3, TimeLeft
  <2> QED
    BY <2>1, <2>4
<1>4. ASSUME act[1] # "skip", act[2] = "post_reset", chk["loop"].pc # "idle" PROVE FALSE
  <2> HIDE DEF proposed
  <2>1. proposed # NULL
    BY <1>4 DEF AnchorAction
  <2>2. rs.nextResetAt # NULL
    BY <1>4, <2>1 DEF AnchorAction
  <2>3. /\ act[2] = Effective(rs, kind)
        /\ Abs(proposed - rs.nextResetAt) <= DriftTolerance
    BY <1>4, <2>1, <2>2 DEF AnchorAction
  <2>4. kind = "post_reset"
    BY <1>4, <2>3 DEF Effective
  <2>5. AfterReset(now) /\ disk.nextResetAt = rs.nextResetAt
    BY <1>4, <2>4 DEF TPlus5Late, Queue
  <2>6. rs.nextResetAt \in Nat
    BY <2>2 DEF TypeInv, TypeOK, StateRecord, Time
  <2>7. rs.nextResetAt + Cycle <= session'
    BY <1>1, <1>3, <2>1, <2>2, <2>5, <2>6 DEF AnchorFits, AfterReset
  <2>8. proposed = session'
    BY <1>3, <2>1
  <2> QED
    BY <1>1, <2>3, <2>6, <2>7, <2>8 DEF Abs, UndisturbedChecks
<1> HIDE DEF act, proposed
<1> QED
  BY <1>2, <1>3, <1>4

LEMMA NoneAcceptedNext ==
  ASSUME UndisturbedChecks, TypeInv, Queue, Alert, Undisturbed, [Next]_vars
  PROVE  NoneAccepted'
<1>1. /\ session' = session \/ (session <= now /\ session' = now + Cycle)
      /\ now' = now \/ \A a \in Checker : chk[a].pc # "apply" /\ UNCHANGED chk
      /\ session' \in Nat
      /\ now \in Nat /\ session \in Nat
  BY SessionMoves DEF TypeInv, TypeOK
<1>2. ~rs'.postResetDone /\ ~disk'.postResetDone
  <2>1. ~rs.postResetDone /\ ~disk.postResetDone
    BY DEF Undisturbed, NoneAccepted
  <2>2. rs \in StateRecord
    BY DEF TypeInv, TypeOK
  <2>3. ASSUME NEW a \in Checker, Apply(a) PROVE ~rs'.postResetDone /\ ~disk'.postResetDone
    <3>1. \/ UNCHANGED disk /\ UNCHANGED Anchor
          \/ /\ chk[a].action # "skip"
             /\ rs'.postResetDone = (chk[a].effective = "post_reset")
             /\ disk'.postResetDone = (chk[a].effective = "post_reset")
      BY <2>3, ApplyFields
    <3>2. chk[a].action = "skip" \/ chk[a].effective # "post_reset"
      BY <2>3, ApplyFields DEF Undisturbed, NoneAccepted
    <3> QED
      BY <2>1, <3>1, <3>2 DEF Anchor
  <2>4. CASE LoopLoad \/ \E w \in WebRun : WebStart(w)
    <3>1. UNCHANGED disk /\ (LoadPersisted \/ UNCHANGED rs)
      BY <2>4, Zenon DEF LoopLoad, WebStart
    <3> QED
      BY <2>1, <3>1, LoadedFields
  <2>5. CASE LoopHourly \/ LoopBurn
    <3>1. \/ rs' = rs \/ rs' = [rs EXCEPT !.lastCheckAt = loop.t]
          \/ rs' = [rs EXCEPT !.state = "chilling", !.burnUntil = NULL]
      BY <2>5 DEF LoopHourly, LoopBurn
    <3>2. UNCHANGED disk
      BY <2>5 DEF LoopHourly, LoopBurn
    <3> QED
      BY <2>1, <2>2, <3>1, <3>2 DEF StateRecord
  <2>6. CASE Restart
    BY <2>1, <2>6 DEF Restart, ColdState
  <2>7. ASSUME UNCHANGED <<rs, disk>> PROVE ~rs'.postResetDone /\ ~disk'.postResetDone
    BY <2>1, <2>7
  <2> QED
    BY <2>3, <2>4, <2>5, <2>6, <2>7, StateRests
<1>3. ASSUME NEW b \in Checker, chk'[b].pc = "apply"
      PROVE  /\ chk'[b].action = "skip" \/ chk'[b].effective # "post_reset"
             /\ chk'[b].proposed # NULL => chk'[b].proposed = session' /\ session' > now'
  <2>1. CASE chk'[b] = chk[b]
    <3>1. now' = now /\ chk[b].pc = "apply"
      BY <1>1, <1>3, <2>1
    <3>2. /\ chk[b].action = "skip" \/ chk[b].effective # "post_reset"
          /\ chk[b].proposed # NULL => chk[b].proposed = session /\ session > now
      BY <3>1 DEF Undisturbed, NoneAccepted
    <3> QED
      BY <1>1, <2>1, <3>1, <3>2
  <2>2. CASE \A a \in Checker : ~Decide(a)
    BY <1>3, <2>1, <2>2, ChecksRest
  <2>3. ASSUME NEW a \in Checker, Decide(a)
        PROVE  \/ chk'[b] = chk[b]
               \/ /\ chk'[b].action = "skip" \/ chk'[b].effective # "post_reset"
                  /\ chk'[b].proposed # NULL => chk'[b].proposed = session' /\ session' > now'
    <3>1. PICK reset \in {NULL} \cup 0..(Cycle + Cycle), plenty \in BOOLEAN :
            /\ chk[a].pc = "fetch" /\ Fetched(reset)
            /\ chk' = [chk EXCEPT ![a] = Decided(chk[a].kind, reset, plenty)]
            /\ UNCHANGED <<now, rs, disk>>
      BY <2>3, Zenon DEF Decide
    <3>2. a = "loop" /\ loop.pc = "checking"
      BY <3>1 DEF Undisturbed, OnlyLoop, Checker, Alert
    <3>3. reset \in Time
      BY RunnerAssumption, NullIsNoTime DEF Time
    <3>4. AnchorFits(session')
      BY <3>1, AnchorFitsNext DEF Undisturbed, AnchorFits
    <3> DEFINE d == Decided(chk["loop"].kind, reset, plenty)
    <3>5. /\ d.action = "skip" \/ d.effective # "post_reset"
          /\ d.proposed # NULL => d.proposed = session' /\ session' > now
      BY <1>1, <3>1, <3>2, <3>3, <3>4, DecidedNotAccepted DEF Undisturbed
    <3>6. chk'[b] = chk[b] \/ chk'[b] = d
      BY <3>1, <3>2 DEF TypeInv
    <3> HIDE DEF d
    <3> QED
      BY <3>1, <3>5, <3>6
  <2> QED
    BY <2>1, <2>2, <2>3
<1> QED
  BY <1>2, <1>3 DEF NoneAccepted

\* With exact readings and no checks by hand, no T+5 check ever re-anchors:
\* "the canonical re-anchor for the next cycle" is always out of band.
THEOREM PostResetNeverAccepted ==
  ASSUME UndisturbedChecks PROVE Spec => []~rs.postResetDone
<1> DEFINE I == TypeInv /\ Informed
<1>1. Init => Undisturbed
  <2> SUFFICES ASSUME Init PROVE Undisturbed
    OBVIOUS
  <2> QED
    BY DEF Init, Undisturbed, OnlyLoop, AnchorFits, TPlus5Late, NoneAccepted, NoCheck,
       NewLoop, ColdState, Checker
<1>2. I /\ Undisturbed /\ [Next]_vars => Undisturbed'
  BY OnlyLoopNext, AnchorFitsNext, TPlus5LateNext, NoneAcceptedNext DEF Undisturbed, Informed
<1>3. Undisturbed => ~rs.postResetDone
  BY DEF Undisturbed, NoneAccepted
<1>4. Spec => []I
  BY InformedInvariant
<1> HIDE DEF I
<1> QED
  BY <1>1, <1>2, <1>3, <1>4, PTL DEF Spec

\* A sleeping runner whose last check read a reset time has an anchor that is
\* at most the stale grace and one (suppressed) tick and hour, or a burn
\* window, overdue.
THEOREM AnchorsRecover ==
  ASSUME WindowsNest, UndisturbedChecks PROVE Spec => []AnchorRecovers
  BY AnchorsRecoverUnlessDone, PostResetNeverAccepted, PTL
=============================================================================
