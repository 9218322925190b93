------------------------------ MODULE UsageCheck ------------------------------
(***************************************************************************)
(* One usage check (usage_check.py, usage_check_http.py): the session key, *)
(* the organisation to ask about, the requests and their retries, and the  *)
(* kick when the account is between sessions.  The caller holds            *)
(* _usage_check_lock throughout (Runner), so there is one at a time; the   *)
(* account, the session and the process change meanwhile.                  *)
(*                                                                         *)
(* External: claude.ai, the claude command, the user.  REQUEST_TIMEOUT_S   *)
(* limits each wait for the socket (an address tried, the handshake, a     *)
(* recv), not the request: a request is some number of waits run to that   *)
(* limit.  The code bounds their number nowhere; the model does (Waits).   *)
(* Abstracted: a reply is the error code _request or _parse_usage makes of *)
(* it; the numbers are not looked at (Runner has what is done with them).  *)
(***************************************************************************)
EXTENDS Integers, FiniteSets

Transient == {"rate_limited", "http_error", "network_error"}
Permanent == {"session_key_missing", "session_key_invalid", "cloudflare_blocked",
              "bad_response", "org_resolve_failed", "multi_org_no_pin",
              "unexpected"}
Code == Transient \cup Permanent \cup {"ok", "between_sessions", "none"}

CONSTANTS
  Org,             \* organisations
  Accounts,        \* what a session key may see: sets of organisations
  Pins,            \* values CLAUDE_ORG_UUID may have at a start, or NULL
  MaxAttempts, RequestTimeout, KickTimeout, Settle,
  Waits,           \* bound on the waits of a request that run to their limit
  Pause,           \* how long it waits after the nth attempt, by error code
  FetchLimit,      \* the longest check there may be, in seconds
  MaxEvents,       \* bound on changes of the world around the program
  NULL

ASSUME UsageAssumption ==
  /\ Accounts \subseteq SUBSET Org
  /\ Pins \subseteq Org \cup {NULL}
  /\ MaxAttempts \in Nat /\ RequestTimeout \in Nat /\ KickTimeout \in Nat
  /\ Waits \in Nat /\ Settle \in Nat /\ FetchLimit \in Nat /\ MaxEvents \in Nat
  /\ Pause \in [Transient -> [0..MaxAttempts -> Nat]]
  /\ NULL \notin Org

VARIABLES
  account,   \* the organisations the session key gives access to
  active,    \* whether a five-hour session is open
  pin,       \* CLAUDE_ORG_UUID of this process
  memo,      \* _ORG_UUID_MEMO
  cache,     \* state/org_cache.json
  check,     \* the check in progress: position and locals
  sole,      \* organisations that have been the only one of the account
  events

vars == <<account, active, pin, memo, cache, check, sole, events>>
World == <<account, active, pin, sole, events>>

-----------------------------------------------------------------------------
\* round counts the fetches of a check, attempt the requests of a fetch; sees
\* is what the key of this fetch gives access to.
NoCheck == [pc |-> "idle", round |-> 0, attempt |-> 0, sees |-> {}, org |-> NULL,
            code |-> "none", spent |-> 0]

Init ==
  /\ account \in Accounts
  /\ active \in BOOLEAN
  /\ pin \in Pins
  /\ memo = NULL
  /\ cache = NULL
  /\ check = NoCheck
  /\ sole = IF Cardinality(account) = 1 THEN account ELSE {}
  /\ events = 0

\* How long a request may take.
RequestTime == {n * RequestTimeout : n \in 0..Waits}

\* Seconds are not counted beyond the first one too many.
Plus(spent, time) == IF spent + time > FetchLimit THEN FetchLimit + 1 ELSE spent + time

\* A fetch returns a code to check_usage_once.
Fetched(code, time) ==
  check' = [check EXCEPT !.pc = "fetched", !.code = code, !.spent = Plus(@, time)]

\* What check_usage_once returns: appending its row may raise and lose it.
Result == {check.code, "none"}

\* What any request may meet instead of an answer.  A response that does not
\* come in time raises an exception _request does not catch ("unexpected").
Trouble == Transient \cup {"session_key_invalid", "cloudflare_blocked",
                           "bad_response", "unexpected"}

-----------------------------------------------------------------------------
\* fetch_usage_http: the key comes first; there may be none, or a bad one.
LoadKey ==
  /\ check.pc = "start"
  /\ \/ Fetched("session_key_missing", 0)
     \/ check' = [check EXCEPT !.pc = "resolve", !.sees = account]
  /\ UNCHANGED <<memo, cache, World>>

\* The organisation taken from an /organizations listing, if any.
SoleOrg(orgs) == IF Cardinality(orgs) = 1 THEN orgs ELSE {}

ListingErrors(orgs) == IF orgs = {} THEN {"org_resolve_failed"}
                       ELSE IF Cardinality(orgs) > 1 THEN {"multi_org_no_pin"} ELSE {}

\* _resolve_org_uuid: memo, then pin, then cache file, then the listing; no
\* retry here, an error ends the fetch.
Resolve ==
  LET known == IF memo # NULL THEN memo ELSE IF pin # NULL THEN pin ELSE cache
  IN /\ check.pc = "resolve"
     /\ \/ /\ known # NULL
           /\ memo' = known
           /\ check' = [check EXCEPT !.pc = "usage", !.org = known, !.attempt = 0]
        \/ \E time \in RequestTime :
             /\ known = NULL
             /\ \/ /\ \E o \in SoleOrg(check.sees) :
                        /\ memo' = o
                        /\ check' = [check EXCEPT !.pc = "usage", !.org = o,
                                       !.attempt = 0, !.spent = Plus(@, time)]
                \/ /\ \E code \in Trouble \cup ListingErrors(check.sees) :
                        Fetched(code, time)
                   /\ UNCHANGED memo
     /\ UNCHANGED <<cache, World>>

\* Slip: whatever worked is cached, also an organisation that is pinned.
CacheWritesPinned == check.org

\* Written after a success, without a pin, unless there is one.
CacheWrites == IF pin = NULL /\ cache = NULL THEN check.org ELSE cache

\* What /usage answers when nothing goes wrong on the way.
Answer ==
  IF check.org \notin check.sees THEN "http_error"
  ELSE IF active THEN "ok" ELSE "between_sessions"

\* Slip: a failed attempt does not count.
AttemptsAfterSuccessOnly(code) == IF code = "ok" THEN check.attempt + 1 ELSE check.attempt

AttemptsAfter(code) == check.attempt + 1

\* One attempt: success, a code that is final, or one that is retried after
\* a pause until MAX_ATTEMPTS.
Request ==
  /\ check.pc = "usage"
  /\ \E time \in RequestTime, code \in Trouble \cup {Answer} :
       LET n == AttemptsAfter(code)
           again == code \in Transient /\ n < MaxAttempts
       IN /\ IF again
             THEN check' = [check EXCEPT !.attempt = n,
                                         !.spent = Plus(@, time + Pause[code][n])]
             ELSE Fetched(code, time)
          /\ \/ code = "ok" /\ cache' = CacheWrites
             \/ UNCHANGED cache   \* the write is best-effort
  /\ UNCHANGED <<memo, World>>

\* Slip: every fetch between sessions is followed by a kick.
KickDueAlways == check.code = "between_sessions"

KickDue == check.code = "between_sessions" /\ check.round = 1

\* check_usage_once after a fetch: a kick, or the row and the result.
Deliver ==
  /\ check.pc = "fetched"
  /\ \/ KickDue /\ check' = [check EXCEPT !.pc = "kick"]
     \/ /\ ~KickDue
        /\ \E code \in Result : check' = [check EXCEPT !.pc = "idle", !.code = code]
  /\ UNCHANGED <<memo, cache, World>>

\* _kick: claude -p may be missing, fail or run out of time, and may open a
\* session all the same; only a success is followed by a second fetch.
Kick ==
  /\ check.pc = "kick"
  /\ \E time \in {0, KickTimeout}, opens \in BOOLEAN :
       /\ active' = (active \/ opens)
       /\ \/ check' = [check EXCEPT !.pc = "start", !.round = 2,
                                    !.spent = Plus(@, time + Settle)]
          \/ \E code \in Result :
               check' = [check EXCEPT !.pc = "idle", !.code = code,
                                      !.spent = Plus(@, time)]
  /\ UNCHANGED <<account, pin, memo, cache, sole, events>>

\* do_usage_check calls, when the last check has returned.
Begin ==
  /\ check.pc = "idle"
  /\ check' = [NoCheck EXCEPT !.pc = "start", !.round = 1]
  /\ UNCHANGED <<memo, cache, World>>

Work == LoadKey \/ Resolve \/ Request \/ Deliver \/ Kick

-----------------------------------------------------------------------------
(* The world. *)

\* The user puts another key in the key file, or the account changes.
SwitchAccount ==
  /\ account' \in Accounts \ {account}
  /\ sole' = sole \cup (IF Cardinality(account') = 1 THEN account' ELSE {})
  /\ UNCHANGED <<active, pin, memo, cache, check>>

\* The session runs out, or the user opens one.
SessionChanges ==
  /\ active' = ~active
  /\ UNCHANGED <<account, pin, memo, cache, check, sole>>

\* The process starts anew, perhaps with another pin.
Restart ==
  /\ pin' \in Pins
  /\ memo' = NULL
  /\ check' = NoCheck
  /\ UNCHANGED <<account, active, cache, sole>>

Event ==
  /\ events < MaxEvents
  /\ events' = events + 1
  /\ SwitchAccount \/ SessionChanges \/ Restart

Next == Begin \/ Work \/ Event

Spec == Init /\ [][Next]_vars

\* The thread that checks goes on: the kick has a time limit, a request Waits.
FairSpec == Spec /\ WF_vars(Work)

-----------------------------------------------------------------------------
Check == [pc : {"idle", "start", "resolve", "usage", "fetched", "kick"},
          round : 0..2, attempt : 0..MaxAttempts, sees : Accounts \cup {{}},
          org : Org \cup {NULL}, code : Code, spent : 0..(FetchLimit + 1)]

TypeOK ==
  /\ account \in Accounts
  /\ active \in BOOLEAN
  /\ pin \in Pins
  /\ memo \in Org \cup {NULL}
  /\ cache \in Org \cup {NULL}
  /\ check \in Check
  /\ check.pc = "usage" => check.org # NULL
  /\ sole \subseteq Org
  /\ events \in 0..MaxEvents

\* The program never picks an organisation among several: the one it asks
\* about is pinned, or was the only one of the account when it was learned,
\* however long ago, in whichever process and account, and the cache file
\* never holds one that was only pinned.
NeverGuesses ==
  /\ memo # NULL => memo = pin \/ memo \in sole
  /\ cache # NULL => cache \in sole
  /\ check.pc = "usage" => IF pin # NULL THEN check.org = pin ELSE check.org \in sole

\* Whatever is retried or kicked, a check holds _usage_check_lock no longer
\* than its five requests, their pauses and one kick take, if no request
\* waits out more than Waits limits.
HeldBriefly == check.spent <= FetchLimit

\* Every check returns, whatever the server answers.
ChecksEnd == (check.pc # "idle") ~> (check.pc = "idle")
=============================================================================
