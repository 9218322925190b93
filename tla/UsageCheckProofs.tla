-------------------------- MODULE UsageCheckProofs --------------------------
(***************************************************************************)
(* Theorems about UsageCheck: it is well typed, never guesses an           *)
(* organisation, and, with the two attempts the code makes and Waits waits *)
(* a request, holds its lock no longer than the sum of its time limits.    *)
(***************************************************************************)
EXTENDS UsageCheck, TLAPS

-----------------------------------------------------------------------------
(* Type correctness. *)

LEMMA PlusType ==
  ASSUME NEW s \in 0..(FetchLimit + 1), NEW t \in Nat
  PROVE  Plus(s, t) \in 0..(FetchLimit + 1)
BY UsageAssumption DEF Plus

RequestLimit == Waits * RequestTimeout

LEMMA RequestTimes ==
  /\ RequestLimit \in Nat
  /\ \A time \in RequestTime : time \in Nat /\ time <= RequestLimit
<1>1. Waits \in Nat /\ RequestTimeout \in Nat
  BY UsageAssumption
<1>2. RequestLimit \in Nat
  BY <1>1 DEF RequestLimit
<1>3. ASSUME NEW n \in 0..Waits
      PROVE  n * RequestTimeout \in Nat /\ n * RequestTimeout <= RequestLimit
  <2>1. n * RequestTimeout \in Nat /\ (Waits - n) * RequestTimeout \in Nat
    BY <1>1
  <2>2. Waits * RequestTimeout = n * RequestTimeout + (Waits - n) * RequestTimeout
    BY <1>1
  <2> QED
    BY <2>1, <2>2 DEF RequestLimit
<1> QED
  BY <1>2, <1>3 DEF RequestTime

LEMMA SoleOrgType ==
  ASSUME NEW orgs \in Accounts \cup {{}}, NEW o \in SoleOrg(orgs)
  PROVE  o \in Org
BY UsageAssumption DEF SoleOrg

LEMMA CodeType ==
  /\ Trouble \subseteq Code /\ Answer \in Code
  /\ \A orgs \in Accounts \cup {{}} : ListingErrors(orgs) \subseteq Code
BY DEF Trouble, Answer, ListingErrors, Code, Transient, Permanent

LEMMA TypeInit == Init => TypeOK
<1> SUFFICES ASSUME Init PROVE TypeOK
  OBVIOUS
<1>1. check \in Check
  BY UsageAssumption DEF Init, NoCheck, Check, Code
<1>2. sole \subseteq Org
  BY UsageAssumption DEF Init
<1> QED
  BY <1>1, <1>2, UsageAssumption DEF Init, TypeOK, NoCheck

\* A fetch that returns leaves a well-typed check.
LEMMA FetchedType ==
  ASSUME TypeOK, NEW code \in Code, NEW time \in Nat, Fetched(code, time)
  PROVE  check' \in Check /\ check'.pc = "fetched"
<1>1. Plus(check.spent, time) \in 0..(FetchLimit + 1)
  BY PlusType DEF TypeOK, Check
<1> QED
  BY <1>1 DEF TypeOK, Check, Fetched

LEMMA LoadKeyType == ASSUME TypeOK, LoadKey PROVE TypeOK'
<1>1. CASE Fetched("session_key_missing", 0)
  <2>1. "session_key_missing" \in Code
    BY DEF Code, Permanent
  <2> QED
    BY <1>1, <2>1, FetchedType DEF LoadKey, World, TypeOK
<1>2. CASE check' = [check EXCEPT !.pc = "resolve", !.sees = account]
  <2>1. check' \in Check /\ check'.pc = "resolve"
    BY <1>2 DEF TypeOK, Check
  <2> QED
    BY <2>1 DEF LoadKey, World, TypeOK
<1> QED
  BY <1>1, <1>2 DEF LoadKey

LEMMA ResolveType == ASSUME TypeOK, Resolve PROVE TypeOK'
<1> DEFINE known == IF memo # NULL THEN memo ELSE IF pin # NULL THEN pin ELSE cache
<1>1. known \in Org \cup {NULL}
  BY UsageAssumption DEF TypeOK
<1>2. CASE /\ known # NULL
           /\ memo' = known
           /\ check' = [check EXCEPT !.pc = "usage", !.org = known, !.attempt = 0]
  <2> HIDE DEF known
  <2>0. 0 \in 0..MaxAttempts
    BY UsageAssumption
  <2>1. check' \in Check /\ check'.org = known
    BY <1>1, <1>2, <2>0 DEF TypeOK, Check
  <2> QED
    BY <1>1, <1>2, <2>1 DEF Resolve, World, TypeOK
<1>3. CASE \E time \in RequestTime, o \in SoleOrg(check.sees) :
             /\ memo' = o
             /\ check' = [check EXCEPT !.pc = "usage", !.org = o,
                            !.attempt = 0, !.spent = Plus(@, time)]
  <2> PICK time \in RequestTime, o \in SoleOrg(check.sees) :
             /\ memo' = o
             /\ check' = [check EXCEPT !.pc = "usage", !.org = o,
                            !.attempt = 0, !.spent = Plus(@, time)]
    BY <1>3
  <2>1. o \in Org /\ o # NULL
    BY SoleOrgType, UsageAssumption DEF TypeOK, Check
  <2>2. Plus(check.spent, time) \in 0..(FetchLimit + 1)
    BY PlusType, RequestTimes DEF TypeOK, Check
  <2>0. 0 \in 0..MaxAttempts
    BY UsageAssumption
  <2>3. check' \in Check /\ check'.org = o
    BY <2>0, <2>1, <2>2 DEF TypeOK, Check
  <2> QED
    BY <2>1, <2>3 DEF Resolve, World, TypeOK
<1>4. CASE /\ \E time \in RequestTime,
                 code \in Trouble \cup ListingErrors(check.sees) : Fetched(code, time)
           /\ UNCHANGED memo
  <2>1. check' \in Check /\ check'.pc = "fetched"
    BY <1>4, FetchedType, CodeType, RequestTimes DEF TypeOK, Check
  <2> QED
    BY <1>4, <2>1 DEF Resolve, World, TypeOK
<1> QED
  BY <1>2, <1>3, <1>4 DEF Resolve

LEMMA RequestType == ASSUME TypeOK, Request PROVE TypeOK'
<1> PICK time \in RequestTime, code \in Trouble \cup {Answer} :
      LET n == AttemptsAfter(code)
          again == code \in Transient /\ n < MaxAttempts
      IN /\ IF again
            THEN check' = [check EXCEPT !.attempt = n,
                                        !.spent = Plus(@, time + Pause[code][n])]
            ELSE Fetched(code, time)
         /\ \/ code = "ok" /\ cache' = CacheWrites
            \/ UNCHANGED cache
  BY DEF Request
<1>1. cache' \in Org \cup {NULL}
  BY DEF TypeOK, CacheWrites, Check
<1>2. CASE ~(code \in Transient /\ AttemptsAfter(code) < MaxAttempts)
  <2>1. check' \in Check /\ check'.pc = "fetched"
    BY <1>2, FetchedType, CodeType, RequestTimes
  <2> QED
    BY <1>1, <2>1 DEF Request, World, TypeOK
<1>3. CASE code \in Transient /\ AttemptsAfter(code) < MaxAttempts
  <2> DEFINE n == check.attempt + 1
  <2>1. n \in 0..MaxAttempts
    BY <1>3, UsageAssumption DEF TypeOK, Check, AttemptsAfter
  <2>2. time + Pause[code][n] \in Nat
    BY <1>3, <2>1, UsageAssumption, RequestTimes
  <2>3. Plus(check.spent, time + Pause[code][n]) \in 0..(FetchLimit + 1)
    BY <2>2, PlusType DEF TypeOK, Check
  <2>4. check' = [check EXCEPT !.attempt = n,
                               !.spent = Plus(check.spent, time + Pause[code][n])]
    BY <1>3 DEF AttemptsAfter
  <2> HIDE DEF n
  <2>5. check' \in Check /\ check'.org = check.org /\ check'.pc = check.pc
    BY <2>1, <2>3, <2>4 DEF TypeOK, Check
  <2> QED
    BY <1>1, <2>5 DEF Request, World, TypeOK
<1> QED
  BY <1>2, <1>3

LEMMA DeliverType == ASSUME TypeOK, Deliver PROVE TypeOK'
<1>1. Result \subseteq Code
  BY DEF Result, TypeOK, Check, Code
<1>2. check' \in Check /\ check'.pc # "usage"
  BY <1>1 DEF Deliver, TypeOK, Check
<1> QED
  BY <1>2 DEF Deliver, World, TypeOK

LEMMA KickType == ASSUME TypeOK, Kick PROVE TypeOK'
<1>1. Result \subseteq Code
  BY DEF Result, TypeOK, Check, Code
<1>5. active' \in BOOLEAN
  BY DEF Kick, TypeOK
<1>2. ASSUME NEW time \in {0, KickTimeout}
      PROVE  /\ Plus(check.spent, time) \in 0..(FetchLimit + 1)
             /\ Plus(check.spent, time + Settle) \in 0..(FetchLimit + 1)
  <2>1. time \in Nat /\ time + Settle \in Nat
    BY UsageAssumption
  <2>2. check.spent \in 0..(FetchLimit + 1)
    BY DEF TypeOK, Check
  <2> QED
    BY <2>1, <2>2, PlusType
<1>3. \E spent \in 0..(FetchLimit + 1) :
        \/ check' = [check EXCEPT !.pc = "start", !.round = 2, !.spent = spent]
        \/ \E code \in Result :
             check' = [check EXCEPT !.pc = "idle", !.code = code, !.spent = spent]
  BY <1>2, Zenon DEF Kick
<1>4. check' \in Check /\ check'.pc # "usage"
  <2>0. PICK spent \in 0..(FetchLimit + 1) :
        \/ check' = [check EXCEPT !.pc = "start", !.round = 2, !.spent = spent]
        \/ \E code \in Result :
             check' = [check EXCEPT !.pc = "idle", !.code = code, !.spent = spent]
    BY <1>3
  <2>1. CASE check' = [check EXCEPT !.pc = "start", !.round = 2, !.spent = spent]
    <3>1. 2 \in 0..2 /\ check \in Check
      BY DEF TypeOK
    <3>2. check' = [pc |-> "start", round |-> 2, attempt |-> check.attempt,
                    sees |-> check.sees, org |-> check.org, code |-> check.code,
                    spent |-> spent]
      BY <2>1, <3>1 DEF Check
    <3> QED
      BY <3>1, <3>2 DEF Check
  <2>2. ASSUME NEW code \in Result,
               check' = [check EXCEPT !.pc = "idle", !.code = code, !.spent = spent]
        PROVE  check' \in Check /\ check'.pc # "usage"
    BY <1>1, <2>2 DEF TypeOK, Check
  <2> QED
    BY <2>0, <2>1, <2>2
<1> QED
  BY <1>4, <1>5 DEF Kick, TypeOK

LEMMA BeginType == ASSUME TypeOK, Begin PROVE TypeOK'
<1>1. check' = [pc |-> "start", round |-> 1, attempt |-> 0, sees |-> {},
                org |-> NULL, code |-> "none", spent |-> 0]
  BY DEF Begin, NoCheck
<1>2. 0 \in 0..MaxAttempts /\ 0 \in 0..(FetchLimit + 1) /\ 1 \in 0..2
  BY UsageAssumption
<1>3. check' \in Check /\ check'.pc = "start"
  BY <1>1, <1>2 DEF Check, Code
<1> QED
  BY <1>3 DEF Begin, World, TypeOK

LEMMA EventType == ASSUME TypeOK, Event PROVE TypeOK'
<1>1. events' \in 0..MaxEvents
  BY UsageAssumption DEF Event, TypeOK
<1>2. CASE SwitchAccount
  <2>1. sole' \subseteq Org
    BY <1>2, UsageAssumption DEF SwitchAccount, TypeOK
  <2> QED
    BY <1>1, <1>2, <2>1 DEF SwitchAccount, TypeOK
<1>3. CASE SessionChanges
  BY <1>1, <1>3 DEF SessionChanges, TypeOK
<1>4. CASE Restart
  <2>1. check' \in Check /\ check'.pc = "idle"
    BY <1>4, UsageAssumption DEF Restart, NoCheck, Check, Code
  <2> QED
    BY <1>1, <1>4, <2>1 DEF Restart, TypeOK
<1> QED
  BY <1>2, <1>3, <1>4 DEF Event

LEMMA TypeNext == ASSUME TypeOK, [Next]_vars PROVE TypeOK'
<1>1. CASE UNCHANGED vars
  BY <1>1 DEF vars, TypeOK
<1>2. CASE Work
  BY <1>2, LoadKeyType, ResolveType, RequestType, DeliverType, KickType DEF Work
<1> QED
  BY <1>1, <1>2, BeginType, EventType DEF Next

\* Every check, whatever the server answers and the user does, is well typed:
\* in particular it asks only about organisations there are.
THEOREM TypeCorrect == Spec => []TypeOK
BY TypeInit, TypeNext, PTL DEF Spec

-----------------------------------------------------------------------------
(* The organisation.  NeverGuesses is not inductive: what a key gives      *)
(* access to is remembered by the check, and the memo by the process.      *)

Known ==
  /\ memo # NULL => IF pin # NULL THEN memo = pin ELSE memo \in sole
  /\ cache # NULL => cache \in sole
  /\ check.pc = "usage" => IF pin # NULL THEN check.org = pin ELSE check.org \in sole
  /\ SoleOrg(account) \subseteq sole
  /\ SoleOrg(check.sees) \subseteq sole

LEMMA KnownInit == Init => Known
BY DEF Init, Known, NoCheck, SoleOrg

LEMMA LoadKeyKnown == ASSUME TypeOK, Known, LoadKey PROVE Known'
<1>1. check'.pc # "usage" /\ check'.sees \in {check.sees, account}
  BY DEF LoadKey, Fetched, TypeOK, Check
<1> QED
  BY <1>1 DEF LoadKey, World, Known, SoleOrg

LEMMA ResolveKnown == ASSUME TypeOK, Known, Resolve PROVE Known'
<1> DEFINE known == IF memo # NULL THEN memo ELSE IF pin # NULL THEN pin ELSE cache
<1>1. known # NULL => IF pin # NULL THEN known = pin ELSE known \in sole
  BY DEF Known
<1>2. \/ memo' = known /\ known # NULL /\ check'.org = known
      \/ known = NULL /\ memo' \in SoleOrg(check.sees) /\ check'.org = memo'
      \/ memo' = memo /\ check'.pc = "fetched"
  BY DEF Resolve, Fetched, TypeOK, Check
<1>3. check'.sees = check.sees
  BY DEF Resolve, Fetched, TypeOK, Check
<1>4. known = NULL => pin = NULL
  OBVIOUS
<1> HIDE DEF known
<1> QED
  BY <1>1, <1>2, <1>3, <1>4 DEF Resolve, World, Known, SoleOrg

LEMMA RequestKnown == ASSUME TypeOK, Known, Request PROVE Known'
<1>1. check'.sees = check.sees /\ check'.org = check.org
  BY DEF Request, Fetched, TypeOK, Check
<1>2. cache' \in {cache, CacheWrites} /\ check.pc = "usage"
  BY DEF Request
<1> QED
  BY <1>1, <1>2 DEF Request, World, Known, SoleOrg, CacheWrites

LEMMA OtherKnown ==
  ASSUME TypeOK, Known, Deliver \/ Kick \/ Begin
  PROVE  Known'
<1>1. check'.pc # "usage" /\ (check'.sees = check.sees \/ check'.sees = {})
  BY DEF Deliver, Kick, Begin, TypeOK, Check, NoCheck
<1>2. UNCHANGED <<memo, cache, account, pin, sole>>
  BY DEF Deliver, Kick, Begin, World
<1>3. SoleOrg({}) \subseteq sole
  BY DEF SoleOrg
<1> QED
  BY <1>1, <1>2, <1>3 DEF Known, SoleOrg

LEMMA EventKnown == ASSUME TypeOK, Known, Event PROVE Known'
<1>1. CASE SwitchAccount
  BY <1>1 DEF SwitchAccount, Known, SoleOrg
<1>2. CASE SessionChanges
  BY <1>2 DEF SessionChanges, Known, SoleOrg
<1>3. CASE Restart
  BY <1>3 DEF Restart, NoCheck, Known, SoleOrg
<1> QED
  BY <1>1, <1>2, <1>3 DEF Event

LEMMA KnownNext == ASSUME TypeOK, Known, [Next]_vars PROVE Known'
<1>1. CASE UNCHANGED vars
  BY <1>1 DEF vars, Known, SoleOrg
<1> QED
  BY <1>1, LoadKeyKnown, ResolveKnown, RequestKnown, OtherKnown, EventKnown
     DEF Next, Work

\* Over any number of accounts, keys, pins and restarts, the program asks
\* about a pinned organisation or one that was the only one when it learned
\* of it, and never caches one that was only pinned.
THEOREM OrganisationNeverGuessed == Spec => []NeverGuesses
<1>1. Known => NeverGuesses
  BY DEF Known, NeverGuesses
<1>2. TypeOK /\ Known /\ [Next]_vars => (TypeOK /\ Known)'
  BY TypeNext, KnownNext
<1> QED
  BY <1>1, <1>2, TypeInit, KnownInit, PTL DEF Spec

-----------------------------------------------------------------------------
(* The time.  P bounds the one pause of two attempts.  The second fetch of *)
(* a check finds the organisation in the memo, so only the first pays for  *)
(* the listing.                                                            *)

FirstFetch(P) == 3 * RequestLimit + P
Kicked(P) == FirstFetch(P) + KickTimeout + Settle
SecondFetch(P) == Kicked(P) + 2 * RequestLimit + P

TwoAttempts(P) ==
  /\ P \in Nat
  /\ MaxAttempts = 2
  /\ \A code \in Transient : Pause[code][1] <= P
  /\ SecondFetch(P) <= FetchLimit

\* How much of the time a check may have used, by round, position and attempt.
Allowance(P) ==
  /\ check.pc = "idle" => check.spent <= SecondFetch(P)
  /\ check.pc \in {"start", "resolve"} =>
       check.spent <= IF check.round = 1 THEN 0 ELSE Kicked(P)
  /\ check.pc = "usage" =>
       /\ check.attempt \in {0, 1}
       /\ check.spent <= (IF check.round = 1 THEN RequestLimit ELSE Kicked(P))
                          + (IF check.attempt = 1 THEN RequestLimit + P ELSE 0)
  /\ check.pc \in {"fetched", "kick"} =>
       check.spent <= IF check.round = 1 THEN FirstFetch(P) ELSE SecondFetch(P)
  /\ check.pc = "kick" => check.round = 1
  /\ check.pc # "idle" => check.round \in {1, 2}

\* The memo is there for a second fetch, and before it whenever one may come.
Remembered ==
  \/ check.pc \in {"usage", "kick"}
  \/ check.pc = "fetched" /\ check.code = "between_sessions"
  \/ check.pc # "idle" /\ check.round = 2
  => memo # NULL

Timely(P) == Allowance(P) /\ Remembered

\* The sums are natural numbers in this order.
LEMMA Sums ==
  ASSUME NEW P, TwoAttempts(P)
  PROVE  /\ FirstFetch(P) \in Nat /\ Kicked(P) \in Nat /\ SecondFetch(P) \in Nat
         /\ FirstFetch(P) = 3 * RequestLimit + P
         /\ Kicked(P) = FirstFetch(P) + KickTimeout + Settle
         /\ SecondFetch(P) = Kicked(P) + 2 * RequestLimit + P
         /\ SecondFetch(P) <= FetchLimit
         /\ P \in Nat /\ RequestLimit \in Nat /\ FetchLimit \in Nat
         /\ KickTimeout \in Nat /\ Settle \in Nat
<1>1. /\ RequestLimit \in Nat /\ KickTimeout \in Nat /\ Settle \in Nat
      /\ FetchLimit \in Nat
  BY UsageAssumption, RequestTimes
<1> QED
  BY <1>1 DEF TwoAttempts, FirstFetch, Kicked, SecondFetch

\* Below the limit nothing is cut off.
LEMMA PlusExact ==
  ASSUME NEW s \in Nat, NEW t \in Nat, s + t <= FetchLimit
  PROVE  Plus(s, t) = s + t
BY UsageAssumption DEF Plus

LEMMA TimelyInit == ASSUME NEW P, TwoAttempts(P) PROVE Init => Timely(P)
BY Sums DEF Init, NoCheck, Timely, Allowance, Remembered

LEMMA LoadKeyTimely ==
  ASSUME NEW P, TwoAttempts(P), TypeOK, Timely(P), LoadKey
  PROVE  Timely(P)'
<1>1. check.spent \in Nat /\ check.round \in {1, 2} /\ check.pc = "start"
  BY UsageAssumption DEF TypeOK, Check, Timely, Allowance, LoadKey
<1>2. check.spent <= IF check.round = 1 THEN 0 ELSE Kicked(P)
  BY <1>1 DEF Timely, Allowance
<1>3. /\ check'.round = check.round /\ check'.spent = check.spent
      /\ \/ check'.pc = "fetched" /\ check'.code = "session_key_missing"
         \/ check'.pc = "resolve"
  <2>1. Plus(check.spent, 0) = check.spent
    BY <1>1, <1>2, PlusExact, Sums
  <2> QED
    BY <2>1 DEF LoadKey, Fetched, TypeOK, Check
<1>4. check.round = 2 => memo # NULL
  BY <1>1 DEF Timely, Remembered
<1> QED
  BY <1>1, <1>2, <1>3, <1>4, Sums DEF LoadKey, Timely, Allowance, Remembered

LEMMA ResolveTimely ==
  ASSUME NEW P, TwoAttempts(P), TypeOK, Timely(P), Resolve
  PROVE  Timely(P)'
<1>1. check.spent \in Nat /\ check.round \in {1, 2} /\ check.pc = "resolve"
  <2>1. check.pc = "resolve"
    BY Zenon DEF Resolve
  <2> QED
    BY <2>1, UsageAssumption DEF TypeOK, Check, Timely, Allowance
<1>2. check.spent <= IF check.round = 1 THEN 0 ELSE Kicked(P)
  BY <1>1 DEF Timely, Allowance
<1>3. check.round = 2 => memo # NULL
  BY <1>1 DEF Timely, Remembered
<1>4. CASE /\ memo' # NULL
           /\ \E o \in Org : check' = [check EXCEPT !.pc = "usage", !.org = o, !.attempt = 0]
  <2>1. /\ check'.pc = "usage" /\ check'.attempt = 0
        /\ check'.round = check.round /\ check'.spent = check.spent
    BY <1>4 DEF TypeOK, Check
  <2> QED
    BY <1>1, <1>2, <1>4, <2>1, Sums DEF Timely, Allowance, Remembered
<1>5. CASE \E time \in RequestTime :
             /\ memo = NULL
             /\ \/ \E o \in Org :
                     /\ memo' = o
                     /\ check' = [check EXCEPT !.pc = "usage", !.org = o,
                                    !.attempt = 0, !.spent = Plus(@, time)]
                \/ \E code \in Trouble \cup ListingErrors(check.sees) : Fetched(code, time)
  <2>0. memo = NULL
    BY <1>5
  <2>1. check.round = 1 /\ check.spent = 0
    BY <1>1, <1>2, <1>3, <2>0
  <2>2. \A time \in RequestTime : Plus(check.spent, time) = time
    BY <2>1, PlusExact, Sums, RequestTimes
  <2>3. /\ check'.round = 1
        /\ check'.spent \in Nat /\ check'.spent <= RequestLimit
        /\ \/ check'.pc = "usage" /\ check'.attempt = 0 /\ memo' # NULL
           \/ check'.pc = "fetched" /\ check'.code # "between_sessions"
    <3>1. CASE \E time \in RequestTime, o \in Org :
                 /\ memo' = o
                 /\ check' = [check EXCEPT !.pc = "usage", !.org = o,
                                !.attempt = 0, !.spent = Plus(@, time)]
      BY <2>1, <2>2, <3>1, RequestTimes, UsageAssumption DEF TypeOK, Check
    <3>2. CASE \E time \in RequestTime,
                  code \in Trouble \cup ListingErrors(check.sees) : Fetched(code, time)
      <4>1. "between_sessions" \notin Trouble \cup ListingErrors(check.sees)
        BY DEF Trouble, ListingErrors, Transient
      <4> QED
        BY <2>1, <2>2, <3>2, <4>1, RequestTimes DEF Fetched, TypeOK, Check
    <3> QED
      BY <1>5, <3>1, <3>2
  <2> QED
    BY <2>3, Sums DEF Timely, Allowance, Remembered
<1> QED
  <2>1. SoleOrg(check.sees) \subseteq Org
    BY SoleOrgType DEF TypeOK, Check
  <2>2. memo \in Org \cup {NULL} /\ pin \in Org \cup {NULL} /\ cache \in Org \cup {NULL}
    BY UsageAssumption DEF TypeOK
  <2> QED
    BY <1>4, <1>5, <2>1, <2>2, Zenon DEF Resolve

LEMMA RequestTimely ==
  ASSUME NEW P, TwoAttempts(P), TypeOK, Timely(P), Request
  PROVE  Timely(P)'
<1> DEFINE base == IF check.round = 1 THEN RequestLimit ELSE Kicked(P)
<1>1. /\ check.spent \in Nat /\ check.round \in {1, 2} /\ check.pc = "usage"
      /\ check.attempt \in {0, 1} /\ memo # NULL
  BY UsageAssumption DEF TypeOK, Check, Timely, Allowance, Remembered, Request
<1>2. check.spent <= base + (IF check.attempt = 1 THEN RequestLimit + P ELSE 0)
  BY <1>1 DEF Timely, Allowance
<1>3. base \in Nat /\ base + 2 * RequestLimit + P <= FetchLimit
      /\ base + 2 * RequestLimit + P
           = IF check.round = 1 THEN FirstFetch(P) ELSE SecondFetch(P)
  BY <1>1, Sums
<1> HIDE DEF base
<1>4. PICK time \in RequestTime, code \in Trouble \cup {Answer} :
        IF code \in Transient /\ AttemptsAfter(code) < MaxAttempts
        THEN check' = [check EXCEPT !.attempt = AttemptsAfter(code),
                         !.spent = Plus(@, time + Pause[code][AttemptsAfter(code)])]
        ELSE Fetched(code, time)
  BY Zenon DEF Request
<1>5. time \in Nat /\ time <= RequestLimit
  BY RequestTimes
<1>6. CASE code \in Transient /\ AttemptsAfter(code) < MaxAttempts
  <2>1. check.attempt = 0 /\ AttemptsAfter(code) = 1
    BY <1>1, <1>6 DEF AttemptsAfter, TwoAttempts
  <2>2. Pause[code][1] \in Nat /\ Pause[code][1] <= P
    BY <1>6, UsageAssumption DEF TwoAttempts
  <2>3. Plus(check.spent, time + Pause[code][1]) = check.spent + time + Pause[code][1]
    BY <1>1, <1>2, <1>3, <1>5, <2>1, <2>2, PlusExact, Sums
  <2>4. /\ check'.pc = "usage" /\ check'.round = check.round /\ check'.attempt = 1
        /\ check'.spent = check.spent + time + Pause[code][1]
    <3>1. check' = [check EXCEPT !.attempt = 1,
                      !.spent = Plus(check.spent, time + Pause[code][1])]
      BY <1>4, <1>6, <2>1
    <3> QED
      BY <1>1, <2>3, <3>1 DEF TypeOK, Check
  <2>5. memo' # NULL
    BY <1>1 DEF Request
  <2>6. check'.spent <= base + RequestLimit + P
    BY <1>1, <1>2, <1>3, <1>5, <2>1, <2>2, <2>4, Sums
  <2> QED
    BY <1>1, <2>4, <2>5, <2>6, Sums DEF Timely, Allowance, Remembered, base
<1>7. CASE ~(code \in Transient /\ AttemptsAfter(code) < MaxAttempts)
  <2>1. Plus(check.spent, time) = check.spent + time
    BY <1>1, <1>2, <1>3, <1>5, PlusExact, Sums
  <2>2. /\ check'.pc = "fetched" /\ check'.round = check.round
        /\ check'.spent = check.spent + time
    BY <1>4, <1>7, <2>1 DEF Fetched, TypeOK, Check
  <2>3. memo' # NULL
    BY <1>1 DEF Request
  <2>4. check'.spent <= base + 2 * RequestLimit + P
    BY <1>1, <1>2, <1>3, <1>5, <2>2, Sums
  <2> QED
    BY <1>1, <1>3, <2>2, <2>3, <2>4, Sums DEF Timely, Allowance, Remembered
<1> QED
  BY <1>6, <1>7

LEMMA DeliverTimely ==
  ASSUME NEW P, TwoAttempts(P), TypeOK, Timely(P), Deliver
  PROVE  Timely(P)'
<1>1. check.spent \in Nat /\ check.round \in {1, 2} /\ check.pc = "fetched"
  <2>1. check.pc = "fetched"
    BY Zenon DEF Deliver
  <2> QED
    BY <2>1, UsageAssumption DEF TypeOK, Check, Timely, Allowance
<1>2. check.spent <= IF check.round = 1 THEN FirstFetch(P) ELSE SecondFetch(P)
  BY <1>1 DEF Timely, Allowance
<1>3. check'.spent = check.spent /\ check'.round = check.round /\ memo' = memo
  BY DEF Deliver, TypeOK, Check
<1>4. CASE KickDue /\ check'.pc = "kick"
  <2>1. check.round = 1 /\ memo # NULL
    BY <1>1, <1>4 DEF KickDue, Timely, Remembered
  <2> QED
    BY <1>1, <1>2, <1>3, <1>4, <2>1, Sums DEF Timely, Allowance, Remembered
<1>5. CASE check'.pc = "idle"
  BY <1>1, <1>2, <1>3, <1>5, Sums DEF Timely, Allowance, Remembered
<1> QED
  BY <1>4, <1>5 DEF Deliver, TypeOK, Check

LEMMA KickTimely ==
  ASSUME NEW P, TwoAttempts(P), TypeOK, Timely(P), Kick
  PROVE  Timely(P)'
<1>1. check.spent \in Nat /\ check.round = 1 /\ check.pc = "kick" /\ memo # NULL
  <2>1. check.pc = "kick"
    BY Zenon DEF Kick
  <2> QED
    BY <2>1, UsageAssumption DEF TypeOK, Check, Timely, Allowance, Remembered
<1>2. check.spent <= FirstFetch(P) /\ memo' = memo
  BY <1>1, Zenon DEF Timely, Allowance, Kick
<1>3. ASSUME NEW time \in {0, KickTimeout}
      PROVE  /\ Plus(check.spent, time) = check.spent + time
             /\ Plus(check.spent, time + Settle) = check.spent + time + Settle
             /\ time \in Nat /\ time <= KickTimeout
  BY <1>1, <1>2, PlusExact, Sums
<1>4. \E time \in {0, KickTimeout} :
        \/ /\ check'.pc = "start" /\ check'.round = 2
           /\ check'.spent = check.spent + time + Settle
        \/ check'.pc = "idle" /\ check'.spent = check.spent + time
  <2>1. PICK time \in {0, KickTimeout} :
          \/ check' = [check EXCEPT !.pc = "start", !.round = 2,
                                    !.spent = Plus(@, time + Settle)]
          \/ \E code \in Result :
               check' = [check EXCEPT !.pc = "idle", !.code = code,
                                      !.spent = Plus(@, time)]
    BY Zenon DEF Kick
  <2>2. \/ /\ check'.pc = "start" /\ check'.round = 2
           /\ check'.spent = Plus(check.spent, time + Settle)
        \/ check'.pc = "idle" /\ check'.spent = Plus(check.spent, time)
    BY <2>1 DEF TypeOK, Check
  <2> QED
    BY <1>3, <2>2
<1>5. PICK time \in {0, KickTimeout} :
        \/ /\ check'.pc = "start" /\ check'.round = 2
           /\ check'.spent = check.spent + time + Settle
        \/ check'.pc = "idle" /\ check'.spent = check.spent + time
  BY <1>4
<1>6. CASE check'.pc = "start"
  BY <1>1, <1>2, <1>3, <1>5, <1>6, Sums DEF Timely, Allowance, Remembered
<1>7. CASE check'.pc = "idle"
  BY <1>1, <1>2, <1>3, <1>5, <1>7, Sums DEF Timely, Allowance, Remembered
<1> QED
  BY <1>5, <1>6, <1>7

LEMMA OtherTimely ==
  ASSUME NEW P, TwoAttempts(P), TypeOK, Timely(P), Begin \/ Event \/ UNCHANGED vars
  PROVE  Timely(P)'
<1>1. CASE Begin \/ (Event /\ Restart)
  <2>1. /\ check'.spent = 0
        /\ \/ check'.pc = "start" /\ check'.round = 1
           \/ check'.pc = "idle" /\ check'.round = 0
    <3>1. CASE Begin
      BY <3>1 DEF Begin, NoCheck
    <3>2. CASE Restart
      BY <3>2 DEF Restart, NoCheck
    <3> QED
      BY <1>1, <3>1, <3>2
  <2> QED
    BY <2>1, Sums DEF Timely, Allowance, Remembered
<1>2. CASE (Event /\ ~Restart) \/ UNCHANGED vars
  <2>1. UNCHANGED <<check, memo>>
    BY <1>2, Zenon DEF Event, SwitchAccount, SessionChanges, vars
  <2> QED
    BY <2>1 DEF Timely, Allowance, Remembered
<1> QED
  BY <1>1, <1>2

LEMMA TimelyNext ==
  ASSUME NEW P, TwoAttempts(P), TypeOK, Timely(P), [Next]_vars
  PROVE  Timely(P)'
BY LoadKeyTimely, ResolveTimely, RequestTimely, DeliverTimely, KickTimely,
   OtherTimely DEF Next, Work

\* With two attempts and a pause of at most P between them, a check holds
\* _usage_check_lock for at most five requests, two pauses, the kick and its
\* settling time, whatever these are and however many waits (Waits) a request
\* may run to their limit: the retries, the listing and the kick add up to no
\* more.  Without a bound on the waits there is none on the check.
THEOREM HeldForTwoAttempts ==
  ASSUME NEW P, TwoAttempts(P)
  PROVE  Spec => []HeldBriefly
<1>1. TypeOK /\ Timely(P) => HeldBriefly
  <2> SUFFICES ASSUME TypeOK, Timely(P) PROVE HeldBriefly
    OBVIOUS
  <2>1. /\ check.pc \in {"idle", "start", "resolve", "usage", "fetched", "kick"}
        /\ check.spent \in Nat
    BY UsageAssumption DEF TypeOK, Check
  <2>2. check.spent <= SecondFetch(P)
    BY <2>1, Sums DEF Timely, Allowance
  <2> QED
    BY <2>1, <2>2, Sums DEF HeldBriefly
<1>2. Init => TypeOK /\ Timely(P)
  BY TypeInit, TimelyInit
<1>3. TypeOK /\ Timely(P) /\ [Next]_vars => (TypeOK /\ Timely(P))'
  BY TypeNext, TimelyNext
<1> QED
  BY <1>1, <1>2, <1>3, PTL DEF Spec
=============================================================================
