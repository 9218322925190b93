------------------------- MODULE ClaudeSessionProofs -------------------------
(***************************************************************************)
(* Proofs about ClaudeSession: the usage the executor reports is complete  *)
(* unless the stream thread was waited for in vain or has died, whatever   *)
(* the interleaving of claude, its stream and the driver.                  *)
(*                                                                         *)
(* And the summary the dashboard makes of the transcript meanwhile is true, *)
(* whatever is written between two of its reads.  The newest message and   *)
(* the number of messages of a file are functions over its length; what    *)
(* they need by induction is shown of a least counterexample.              *)
(***************************************************************************)
EXTENDS ClaudeSession, FiniteSetTheorems, WellFoundedInduction, TLAPS

\* The latest event up to the n-th with a usage, and the latest result.
Used(n) == Latest({k \in 1..n : stdout[k].usage})
Paid(n) == Latest({k \in 1..n : stdout[k].result})

After == {"input", "output", "cost", "back"}

\* The end of the stream was met, and what was read since is all there is.
Complete ==
  /\ drained
  /\ drv.pc \in {"output", "cost", "back"} => drv.in = Used(Len(stdout))
  /\ drv.pc \in {"cost", "back"} => drv.out = Used(Len(stdout))
  /\ drv.pc = "back" => drv.cost = Paid(Len(stdout))

Types ==
  /\ now \in Nat
  /\ stdout \in Seq(Event)
  /\ fed \in Nat /\ fed <= Len(stdout)
  /\ drv = [pc |-> drv.pc, since |-> drv.since, timedOut |-> drv.timedOut,
            in |-> drv.in, out |-> drv.out, cost |-> drv.cost]
  /\ drv.since \in Nat

Latched == ~broken => parser = [usage |-> Used(fed), cost |-> Paid(fed)]

Drained == drained => fed = Len(stdout) /\ ~alive /\ ~helper /\ ~broken

Read == drv.pc \in After => now >= drv.since + JoinTime \/ broken \/ Complete

IInv == Types /\ Latched /\ Drained /\ Read

-----------------------------------------------------------------------------
\* The greatest element of a set is the only one that is.
LEMMA MaxIs ==
  ASSUME NEW S \in SUBSET Nat, NEW m \in S, \A k \in S : k <= m
  PROVE  Max(S) = m
<1>1. m \in Nat /\ \A y \in S : y \in Nat /\ m >= y
  OBVIOUS
<1>2. \E x \in S : \A y \in S : x >= y
  BY <1>1
<1>3. Max(S) \in S /\ \A y \in S : Max(S) >= y
  BY <1>2, Zenon DEF Max
<1>4. Max(S) \in Nat /\ Max(S) >= m /\ m >= Max(S)
  BY <1>1, <1>3
<1> QED
  BY <1>1, <1>4

LEMMA LatestMore ==
  ASSUME NEW n \in Nat, NEW S \in SUBSET (1..n)
  PROVE  Latest(S \cup {n + 1}) = n + 1
<1> DEFINE T == (S \cup {n + 1}) \cup {0}
<1>1. T \in SUBSET Nat /\ n + 1 \in T /\ \A k \in T : k <= n + 1
  OBVIOUS
<1>2. Max(T) = n + 1
  BY <1>1, MaxIs
<1> QED
  BY <1>2 DEF Latest

-----------------------------------------------------------------------------
LEMMA InitInv == Init => IInv
<1> SUFFICES ASSUME Init PROVE IInv
  OBVIOUS
<1>1. Used(0) = 0 /\ Paid(0) = 0
  <2>1. {k \in 1..0 : stdout[k].usage} \cup {0} = {0}
        /\ {k \in 1..0 : stdout[k].result} \cup {0} = {0}
    OBVIOUS
  <2>2. Max({0}) = 0
    BY MaxIs
  <2> QED
    BY <2>1, <2>2 DEF Used, Paid, Latest
<1>2. <<>> \in Seq(Event) /\ Len(<<>>) = 0
  OBVIOUS
<1> QED
  BY <1>1, <1>2 DEF Init, IInv, Types, Latched, Drained, Read, After

\* What only concerns the transcript, its readers and other processes.
LEMMA StreamUnchanged ==
  ASSUME IInv, UNCHANGED <<stdout, fed, parser, drained, broken, drv, now>>,
         alive' = FALSE \/ alive' = alive, helper' = FALSE \/ helper' = helper
  PROVE  IInv'
  BY DEF IInv, Types, Latched, Drained, Read, Complete, Used, Paid

LEMMA TurnKeeps == ASSUME IInv, Turn PROVE IInv'
<1>1. PICK e \in Event : stdout' = Append(stdout, e)
  BY DEF Turn
<1>2. ~drained /\ ~drained'
  BY DEF Turn, IInv, Drained
<1>3. /\ stdout' \in Seq(Event) /\ Len(stdout') = Len(stdout) + 1
      /\ \A k \in 1..fed : stdout'[k] = stdout[k]
  BY <1>1 DEF IInv, Types
<1>4. /\ {k \in 1..fed : stdout'[k].usage} = {k \in 1..fed : stdout[k].usage}
      /\ {k \in 1..fed : stdout'[k].result} = {k \in 1..fed : stdout[k].result}
  BY <1>3
<1>5. Types'
  BY <1>3 DEF Turn, IInv, Types
<1>6. Latched'
  BY <1>4 DEF Turn, IInv, Latched, Used, Paid
<1>7. Read'
  BY <1>2 DEF Turn, IInv, Read, Complete
<1> QED
  BY <1>2, <1>5, <1>6, <1>7 DEF IInv, Drained

LEMMA FeedKeeps == ASSUME IInv, Feed PROVE IInv'
<1>1. /\ fed \in Nat /\ fed < Len(stdout) /\ Len(stdout) \in Nat /\ fed' = fed + 1
      /\ UNCHANGED <<now, alive, helper, stdout, drained, broken, drv>> /\ ~broken
  BY DEF Feed, IInv, Types
<1>2. ~drained
  BY <1>1 DEF IInv, Drained
<1>3. /\ Used(fed + 1) = IF stdout[fed + 1].usage THEN fed + 1 ELSE Used(fed)
      /\ Paid(fed + 1) = IF stdout[fed + 1].result THEN fed + 1 ELSE Paid(fed)
  <2> DEFINE U(n) == {k \in 1..n : stdout[k].usage}
             P(n) == {k \in 1..n : stdout[k].result}
  <2>1. /\ U(fed) \in SUBSET (1..fed) /\ P(fed) \in SUBSET (1..fed)
        /\ U(fed + 1) = IF stdout[fed + 1].usage THEN U(fed) \cup {fed + 1} ELSE U(fed)
        /\ P(fed + 1) = IF stdout[fed + 1].result THEN P(fed) \cup {fed + 1} ELSE P(fed)
    BY <1>1
  <2>2. Latest(U(fed) \cup {fed + 1}) = fed + 1 /\ Latest(P(fed) \cup {fed + 1}) = fed + 1
    BY <1>1, <2>1, LatestMore
  <2>3. Used(fed) = Latest(U(fed)) /\ Used(fed + 1) = Latest(U(fed + 1))
        /\ Paid(fed) = Latest(P(fed)) /\ Paid(fed + 1) = Latest(P(fed + 1))
    BY DEF Used, Paid
  <2> QED
    BY <2>1, <2>2, <2>3
<1>4. Latched'
  BY <1>1, <1>3 DEF Feed, Latch, IInv, Latched, Used, Paid
<1>5. Types'
  BY <1>1 DEF IInv, Types
<1> QED
  BY <1>1, <1>2, <1>4, <1>5 DEF IInv, Drained, Read, Complete

LEMMA DrainKeeps == ASSUME IInv, Drain PROVE IInv'
  BY DEF Drain, Reading, IInv, Types, Latched, Drained, Read, Complete, Used, Paid

LEMMA StreamDiesKeeps == ASSUME IInv, StreamDies PROVE IInv'
<1>1. ~drained /\ broken' /\ UNCHANGED <<now, alive, helper, stdout, fed, drained, drv>>
  BY DEF StreamDies
<1> QED
  BY <1>1 DEF IInv, Types, Latched, Drained, Read

LEMMA DriverKeeps == ASSUME IInv, Driver PROVE IInv'
<1>1. CASE Ended("wait") \/ Ended("term") \/ Terminate \/ Kill
  <2>1. UNCHANGED <<now, stdout, fed, parser, drained, broken>> /\ now \in Nat
    BY <1>1 DEF Ended, Terminate, Kill, Streaming, IInv, Types
  <2>2. drv' = [pc |-> drv'.pc, since |-> drv'.since, timedOut |-> drv'.timedOut,
                in |-> drv'.in, out |-> drv'.out, cost |-> drv'.cost]
        /\ drv'.since = now /\ drv'.pc \notin After
    BY <1>1 DEF Ended, Terminate, Kill, IInv, Types, After
  <2>3. (alive' = FALSE \/ alive' = alive) /\ (helper' = FALSE \/ helper' = helper)
    BY <1>1 DEF Ended, Terminate, Kill
  <2> QED
    BY <2>1, <2>2, <2>3 DEF IInv, Types, Latched, Drained, Read, Used, Paid
<1>2. CASE Join
  BY <1>2 DEF Join, Goto, Streaming, Reading, IInv, Types, Latched, Drained, Read, After,
              Complete, Used, Paid
<1>3. CASE ReadUsage
  <2>1. /\ UNCHANGED <<now, alive, helper, stdout, fed, parser, drained, broken>>
        /\ drv.pc \in After /\ drv'.pc \in After /\ drv'.since = drv.since
    BY <1>3 DEF ReadUsage, Streaming, IInv, Types, After
  <2>2. Types' /\ Latched' /\ Drained'
    <3>1. drv' = [pc |-> drv'.pc, since |-> drv'.since, timedOut |-> drv'.timedOut,
                  in |-> drv'.in, out |-> drv'.out, cost |-> drv'.cost]
      BY <1>3 DEF ReadUsage, IInv, Types
    <3> QED
      BY <2>1, <3>1 DEF IInv, Types, Latched, Drained, Used, Paid
  <2>3. ASSUME Complete PROVE Complete'
    <3>1. parser.usage = Used(Len(stdout)) /\ parser.cost = Paid(Len(stdout))
      BY <2>3 DEF Complete, IInv, Drained, Latched
    <3> QED
      BY <1>3, <2>1, <2>3, <3>1 DEF ReadUsage, Complete, IInv, Types, Used, Paid
  <2> QED
    BY <2>1, <2>2, <2>3 DEF IInv, Read
<1> QED
  BY <1>1, <1>2, <1>3 DEF Driver

LEMMA TickKeeps == ASSUME IInv, Tick PROVE IInv'
  BY DEF Tick, Waiting, Streaming, Reading, IInv, Types, Latched, Drained, Read, After,
         Used, Paid

LEMMA NextInv == IInv /\ [Next]_vars => IInv'
<1> SUFFICES ASSUME IInv, [Next]_vars PROVE IInv'
  OBVIOUS
<1>1. CASE Typed \/ Exit \/ (Request /\ UNCHANGED <<now, alive, helper, Streaming, drv>>)
           \/ UNCHANGED vars
  BY <1>1, StreamUnchanged DEF Typed, Exit, Streaming, vars
<1> QED
  BY <1>1, TurnKeeps, FeedKeeps, DrainKeeps, StreamDiesKeeps, DriverKeeps, TickKeeps DEF Next

\* What an execution reports as its usage and cost is that of the latest
\* events claude wrote, unless the stream was not at its end after JoinTime or
\* the thread that reads it had died.
THEOREM UsageReported == Spec => []UsageComplete
<1>1. IInv => UsageComplete
  BY DEF IInv, Read, Complete, After, UsageComplete, Used, Paid
<1> QED
  BY <1>1, InitInv, NextInv, PTL DEF Spec

-----------------------------------------------------------------------------
(* The dashboard's summary of the transcript *)

\* Every set of naturals that has an element has a least one.
LEMMA LeastNatural ==
  ASSUME NEW S \in SUBSET Nat, S # {}
  PROVE  \E m \in S : \A k \in S : m <= k
<1>1. PICK m \in S : \A k \in S : ~(<<k, m>> \in OpToRel(<, Nat))
  BY NatLessThanWellFounded, WFMin, Zenon
<1>2. \A k \in S : ~(k < m)
  BY <1>1, Zenon DEF OpToRel
<1> QED
  BY <1>2

LEMMA BoundedMax ==
  ASSUME NEW S \in SUBSET Nat, S # {}, NEW n \in Nat, \A k \in S : k <= n
  PROVE  Max(S) \in S /\ \A k \in S : k <= Max(S)
<1> DEFINE Above == {m \in Nat : \A k \in S : k <= m}
<1>1. PICK m \in Above : \A j \in Above : m <= j
  <2>1. Above # {} /\ Above \in SUBSET Nat
    <3>1. n \in Above
      OBVIOUS
    <3> QED
      BY <3>1
  <2> HIDE DEF Above
  <2> QED
    BY <2>1, LeastNatural
<1>2. m \in S
  <2> SUFFICES ASSUME m \notin S PROVE FALSE
    OBVIOUS
  <2>1. \A k \in S : k < m
    OBVIOUS
  <2>2. PICK j \in S : TRUE
    OBVIOUS
  <2>3. m \in Nat /\ j \in Nat /\ j < m
    BY <2>1
  <2>4. m - 1 \in Nat /\ \A k \in S : k <= m - 1
    BY <2>1, <2>3
  <2> QED
    BY <1>1, <2>3, <2>4
<1> QED
  BY <1>2, MaxIs

LEMMA LeastMin ==
  ASSUME NEW S \in SUBSET Nat, S # {}
  PROVE  Min(S) \in S /\ \A k \in S : Min(S) <= k
<1>1. \E m \in S : \A k \in S : k >= m
  BY LeastNatural
<1> QED
  BY <1>1, Zenon DEF Min

\* The newest message of some lines of the file is one of them, or none.
LEMMA NewestIs ==
  ASSUME NEW n \in Nat, NEW S \in SUBSET (1..n)
  PROVE  /\ Newest(S) \in S \cup {0}
         /\ Newest(S) # 0 => file[Newest(S)].human
         /\ \A k \in S : file[k].human => k <= Newest(S)
<1> DEFINE T == {k \in S : file[k].human} \cup {0}
<1>1. T \in SUBSET Nat /\ T # {} /\ \A k \in T : k <= n
  <2>1. 0 \in T /\ T \subseteq S \cup {0}
    OBVIOUS
  <2> HIDE DEF T
  <2> QED
    BY <2>1
<1>2. Max(T) \in T /\ \A k \in T : k <= Max(T)
  BY <1>1, BoundedMax
<1> QED
  BY <1>2 DEF Newest

LEMMA NewestFewer ==
  ASSUME NEW m \in Nat, NEW n \in Nat, m <= n
  PROVE  Newest(1..m) <= Newest(1..n) /\ Newest(1..m) \in 0..m /\ Newest(1..n) \in 0..n
<1>1. /\ Newest(1..m) \in (1..m) \cup {0} /\ Newest(1..n) \in (1..n) \cup {0}
      /\ Newest(1..m) # 0 => file[Newest(1..m)].human
      /\ \A k \in 1..n : file[k].human => k <= Newest(1..n)
  BY NewestIs
<1> QED
  BY <1>1

LEMMA MessagesFewer ==
  ASSUME NEW m \in Nat, NEW n \in Nat, m <= n
  PROVE  Messages(m) <= Messages(n)
<1> DEFINE S == {k \in 1..n : file[k].human}
           T == {k \in 1..m : file[k].human}
<1>1. IsFiniteSet(S)
  <2>1. IsFiniteSet(1..n) /\ S \in SUBSET (1..n)
    BY FS_Interval
  <2> HIDE DEF S
  <2> QED
    BY <2>1, FS_Subset
<1>2. T \in SUBSET S
  OBVIOUS
<1> QED
  BY <1>1, <1>2, FS_Subset DEF Messages

\* A request, once it has found a file, is of the task's directory; what it
\* has read is a beginning of the file that ends at one of the head's limits.
Locals ==
  rd = [pc |-> rd.pc, headLast |-> rd.headLast, count |-> rd.count, start |-> rd.start,
        last |-> rd.last, seen |-> rd.seen, blind |-> rd.blind]

HeadEnds(n) == n = rd.seen \/ n >= HeadLines \/ Bytes(n) >= HeadBytes

HeadRead ==
  /\ rd.seen \in 0..Len(file)
  /\ \E n \in 0..rd.seen :
       HeadEnds(n) /\ rd.headLast = Newest(1..n) /\ rd.count = Messages(n)

\* The part of the tail is not too short for the file, which may have grown.
StartFits ==
  /\ rd.start \in Nat
  /\ rd.start # 0 => rd.start <= Bytes(Len(file)) - TailBytes

Reader ==
  /\ file \in File
  /\ Locals
  /\ rd.pc \in {"idle", "head", "stat", "seek", "tail", "reply"}
  /\ rd.pc # "idle" => home.mine \/ (home.direct /\ rd.blind)
  /\ rd.pc \in {"stat", "seek", "tail"} => HeadRead
  /\ rd.pc \in {"seek", "tail"} => Bytes(Len(file)) > HeadBytes
  /\ rd.pc = "tail" => StartFits
  /\ rd.pc = "reply" => rd.seen \in 0..Len(file)
  /\ SummaryTrue

LEMMA BytesGrow ==
  ASSUME file \in File
  PROVE  /\ Len(file) \in Nat
         /\ \A n \in 0..Len(file) : Bytes(n) \in Nat
         /\ \A m, n \in 0..Len(file) : m < n => Bytes(m) < Bytes(n)
<1>1. /\ file \in Seq(Line) /\ Len(file) \in Nat /\ DOMAIN file = 1..Len(file)
      /\ \A k \in 1..Len(file) : file[k] \in Line
      /\ \A j, k \in 1..Len(file) : j < k => file[j].end < file[k].end
  BY DEF File
<1>2. \A k \in 1..Len(file) : file[k].end \in Nat \ {0}
  BY <1>1 DEF Line
<1> QED
  BY <1>1, <1>2 DEF Bytes

LEMMA InitReader == Init => Reader
<1> SUFFICES ASSUME Init PROVE Reader
  OBVIOUS
<1>1. file \in File
  BY SessionAssumption DEF Init
<1> QED
  BY <1>1 DEF Init, NoRequest, Reader, Locals, SummaryTrue

\* While the file grows, what was read of it stays as it was.
LEMMA AppendKeepsReader ==
  ASSUME Reader, NEW size \in Nat \ {0}, NEW human \in BOOLEAN, Appended(size, human),
         UNCHANGED <<rd, home>>
  PROVE  Reader'
<1> DEFINE line == [end |-> Bytes(Len(file)) + size, human |-> human, cwd |-> TRUE]
<1>1. /\ Len(file) \in Nat /\ file \in Seq(Line) /\ file \in File
      /\ \A n \in 0..Len(file) : Bytes(n) \in Nat
      /\ \A m, n \in 0..Len(file) : m < n => Bytes(m) < Bytes(n)
  BY BytesGrow DEF Reader, File
<1>2. Bytes(Len(file)) \in Nat
  BY <1>1
<1>3. line \in Line /\ line.end = Bytes(Len(file)) + size
  BY <1>2 DEF Line
<1> HIDE DEF line
<1>4. /\ file' \in Seq(Line) /\ Len(file') = Len(file) + 1
      /\ \A k \in 1..Len(file) : file'[k] = file[k]
      /\ file'[Len(file) + 1] = line
  BY <1>1, <1>3 DEF Appended, line
<1>5. file' \in File
  <2> SUFFICES ASSUME NEW j \in DOMAIN file', NEW k \in DOMAIN file', j < k
               PROVE  file'[j].end < file'[k].end
    BY <1>4 DEF File
  <2>1. j \in 1..Len(file) /\ k \in 1..(Len(file) + 1) /\ DOMAIN file = 1..Len(file)
    BY <1>1, <1>4
  <2>2. CASE k \in 1..Len(file)
    BY <1>1, <1>4, <2>1, <2>2 DEF File
  <2>3. CASE k = Len(file) + 1
    <3>1. file[j].end = Bytes(j) /\ (j = Len(file) \/ Bytes(j) < Bytes(Len(file)))
      BY <1>1, <2>1 DEF Bytes
    <3> QED
      BY <1>1, <1>2, <1>3, <1>4, <2>1, <2>3, <3>1
  <2> QED
    BY <2>1, <2>2, <2>3
<1>6. ASSUME NEW n \in 0..Len(file)
      PROVE  /\ Bytes(n)' = Bytes(n) /\ Messages(n)' = Messages(n)
             /\ Newest(1..n)' = Newest(1..n)
  <2>1. {k \in 1..n : file'[k].human} = {k \in 1..n : file[k].human}
    <3>1. \A k \in 1..n : file'[k] = file[k]
      BY <1>1, <1>4
    <3> QED
      BY <3>1, Zenon
  <2>2. n # 0 => file'[n] = file[n]
    BY <1>1, <1>4
  <2> QED
    BY <2>1, <2>2 DEF Bytes, Messages, Newest
<1>7. Bytes(Len(file))' > Bytes(Len(file)) /\ Bytes(Len(file))' \in Nat
  BY <1>1, <1>2, <1>3, <1>4 DEF Bytes
<1>8. rd.seen \in 0..Len(file) => rd.seen \in 0..Len(file')
  BY <1>1, <1>4
<1>9. HeadRead => HeadRead'
  <2> SUFFICES ASSUME HeadRead PROVE HeadRead'
    OBVIOUS
  <2>1. PICK n \in 0..rd.seen :
          HeadEnds(n) /\ rd.headLast = Newest(1..n) /\ rd.count = Messages(n)
    BY DEF HeadRead
  <2>2. n \in 0..Len(file) /\ rd.seen \in 0..Len(file)
    BY <1>1, <2>1 DEF HeadRead
  <2>3. HeadEnds(n)' /\ rd.headLast' = Newest(1..n)' /\ rd.count' = Messages(n)'
    BY <1>6, <2>1, <2>2 DEF HeadEnds
  <2> QED
    BY <1>8, <2>1, <2>2, <2>3 DEF HeadRead
<1>10. StartFits => StartFits'
  BY <1>2, <1>7, TranscriptAssumption DEF StartFits
<1>11. rd.pc = "reply" => SummaryTrue'
  <2> SUFFICES ASSUME rd.pc = "reply" PROVE SummaryTrue'
    OBVIOUS
  <2> DEFINE s == rd.seen
             k == Newest(1..rd.seen)
  <2>1. s \in 0..Len(file) /\ k \in 0..s
    <3>1. s \in 0..Len(file)
      BY DEF Reader
    <3>2. s \in Nat /\ s <= s
      BY <1>1, <3>1
    <3> QED
      BY <3>1, <3>2, NewestFewer
  <2>2. /\ Bytes(s)' = Bytes(s) /\ Messages(s)' = Messages(s) /\ k' = k
        /\ k # 0 => Bytes(k - 1)' = Bytes(k - 1)
        /\ \A j \in 1..k : file'[j] = file[j]
    <3>1. s \in 0..Len(file) /\ (k # 0 => k - 1 \in 0..Len(file))
      BY <1>1, <2>1
    <3>2. Bytes(s)' = Bytes(s) /\ Messages(s)' = Messages(s) /\ k' = k
      BY <1>6, <3>1
    <3>3. k # 0 => Bytes(k - 1)' = Bytes(k - 1)
      BY <1>6, <3>1
    <3>4. \A j \in 1..k : file'[j] = file[j]
      BY <1>1, <1>4, <2>1, SMTT(30)
    <3> QED
      BY <3>2, <3>3, <3>4
  <2>3. k # 0 => Covered(k)' = Covered(k)
    BY <2>2 DEF Covered
  <2> QED
    BY <2>1, <2>2, <2>3 DEF Reader, SummaryTrue
<1>12. rd.pc # "reply" => SummaryTrue'
  BY DEF SummaryTrue
<1> QED
  BY <1>5, <1>7, <1>8, <1>9, <1>10, <1>11, <1>12, <1>2, TranscriptAssumption
  DEF Reader, Locals

LEMMA FindKeepsReader == ASSUME Reader, Find PROVE Reader'
<1>1. rd'.pc = "head" /\ UNCHANGED <<file, home>>
  BY DEF Find, NoRequest
<1>2. rd' = [pc |-> rd'.pc, headLast |-> rd'.headLast, count |-> rd'.count,
             start |-> rd'.start, last |-> rd'.last, seen |-> rd'.seen,
             blind |-> rd'.blind]
  BY DEF Find, NoRequest
<1>3. home.mine \/ (home.direct /\ rd'.blind)
  BY DEF Find, NoRequest, Found
<1> QED
  BY <1>1, <1>2, <1>3 DEF Reader, Locals, SummaryTrue

LEMMA HeadKeepsReader == ASSUME Reader, ReadHead PROVE Reader'
<1> DEFINE enough == {n \in 0..Len(file) :
                        n = Len(file) \/ n >= HeadLines \/ Bytes(n) >= HeadBytes}
           m == Min(enough)
<1>1. Len(file) \in Nat /\ file \in File
  BY BytesGrow DEF Reader
<1>2. m \in enough
  <2>1. enough # {} /\ enough \in SUBSET Nat
    <3>1. Len(file) \in enough
      BY <1>1
    <3> QED
      BY <3>1
  <2> HIDE DEF enough
  <2> QED
    BY <2>1, LeastMin
<1>3. PICK n \in 0..Len(file) :
        /\ n = Len(file) \/ n >= HeadLines \/ Bytes(n) >= HeadBytes
        /\ rd' = [rd EXCEPT !.pc = "stat", !.headLast = Newest(1..n), !.count = Messages(n),
                            !.seen = Len(file)]
  <2>1. /\ m \in 0..Len(file)
        /\ m = Len(file) \/ m >= HeadLines \/ Bytes(m) >= HeadBytes
    BY <1>2
  <2>2. rd' = [rd EXCEPT !.pc = "stat", !.headLast = Newest(1..m), !.count = Messages(m),
                         !.seen = Len(file)]
    BY DEF ReadHead
  <2> HIDE DEF m
  <2> QED
    BY <2>1, <2>2
<1>4. rd.pc = "head" /\ UNCHANGED <<file, home>>
  BY DEF ReadHead
<1> HIDE DEF m, enough
<1>5. /\ rd' = [pc |-> "stat", headLast |-> Newest(1..n), count |-> Messages(n),
                start |-> rd.start, last |-> rd.last, seen |-> Len(file),
                blind |-> rd.blind]
  BY <1>3 DEF Reader, Locals
<1>6. HeadRead'
  <2>1. HeadEnds(n)' /\ rd'.headLast = Newest(1..n)' /\ rd'.count = Messages(n)'
    <3>1. rd'.seen = Len(file) /\ rd'.headLast = Newest(1..n) /\ rd'.count = Messages(n)
      BY <1>5
    <3>2. Newest(1..n)' = Newest(1..n) /\ Messages(n)' = Messages(n) /\ Bytes(n)' = Bytes(n)
      BY <1>4 DEF Newest, Messages, Bytes
    <3> QED
      BY <1>3, <3>1, <3>2 DEF HeadEnds
  <2>2. n \in 0..rd'.seen /\ rd'.seen \in 0..Len(file')
    BY <1>1, <1>3, <1>4, <1>5
  <2> QED
    BY <2>1, <2>2 DEF HeadRead
<1> QED
  BY <1>4, <1>5, <1>6 DEF Reader, Locals, SummaryTrue

\* What was read of the head gives no more than there is in the file.
LEMMA HeadBounds ==
  ASSUME Reader, HeadRead
  PROVE  /\ Len(file) \in Nat /\ rd.seen \in Nat /\ rd.seen <= Len(file)
         /\ rd.headLast \in 0..Newest(1..rd.seen)
         /\ rd.headLast # 0 => file[rd.headLast].human
         /\ rd.count <= Messages(rd.seen)
<1>1. PICK n \in 0..rd.seen :
        HeadEnds(n) /\ rd.headLast = Newest(1..n) /\ rd.count = Messages(n)
  BY DEF HeadRead
<1>2. Len(file) \in Nat /\ rd.seen \in 0..Len(file)
  BY BytesGrow DEF Reader, HeadRead
<1>3. n \in Nat /\ rd.seen \in Nat /\ n <= rd.seen
  BY <1>1, <1>2
<1>4. /\ Newest(1..n) <= Newest(1..rd.seen) /\ Newest(1..n) \in 0..n
      /\ Newest(1..rd.seen) \in 0..rd.seen
  BY <1>3, NewestFewer
<1>5. Newest(1..n) # 0 => file[Newest(1..n)].human
  BY <1>3, NewestIs
<1>6. Messages(n) <= Messages(rd.seen)
  BY <1>3, MessagesFewer
<1> QED
  BY <1>1, <1>2, <1>3, <1>4, <1>5, <1>6

\* A file that is no longer than the head has all of its messages there.
LEMMA HeadSuffices ==
  ASSUME Reader, HeadRead, Bytes(Len(file)) <= HeadBytes, rd.seen <= HeadLines
  PROVE  rd.headLast = Newest(1..rd.seen)
<1>1. PICK n \in 0..rd.seen :
        HeadEnds(n) /\ rd.headLast = Newest(1..n) /\ rd.count = Messages(n)
  BY DEF HeadRead
<1>2. /\ Len(file) \in Nat /\ rd.seen \in 0..Len(file)
      /\ \A k \in 0..Len(file) : Bytes(k) \in Nat
      /\ \A j, k \in 0..Len(file) : j < k => Bytes(j) < Bytes(k)
  BY BytesGrow DEF Reader, HeadRead
<1>3. n \in 0..Len(file) /\ Len(file) \in 0..Len(file)
  BY <1>1, <1>2
<1>4. CASE Bytes(n) >= HeadBytes
  BY <1>1, <1>2, <1>3, <1>4, TranscriptAssumption, SMTT(30)
<1>5. CASE n >= HeadLines \/ n = rd.seen
  BY <1>1, <1>2, <1>3, <1>5, TranscriptAssumption
<1> QED
  BY <1>1, <1>4, <1>5 DEF HeadEnds

LEMMA StatKeepsReader == ASSUME Reader, Stat PROVE Reader'
<1>1. rd.pc = "stat" /\ UNCHANGED <<file, home>> /\ HeadRead
  BY DEF Stat, Reader
<1>2. /\ Len(file) \in Nat /\ \A n \in 0..Len(file) : Bytes(n) \in Nat
      /\ \A j, k \in 0..Len(file) : j < k => Bytes(j) < Bytes(k)
  BY BytesGrow DEF Reader
<1>3. /\ rd.seen \in Nat /\ rd.seen <= Len(file)
      /\ rd.headLast \in 0..Newest(1..rd.seen)
      /\ rd.headLast # 0 => file[rd.headLast].human
      /\ rd.count <= Messages(rd.seen)
  BY <1>1, HeadBounds
<1>4. CASE Bytes(Len(file)) <= HeadBytes
  <2>1. rd' = [rd EXCEPT !.pc = "reply", !.last = rd.headLast]
    BY <1>4 DEF Stat
  <2>2. rd' = [pc |-> "reply", headLast |-> rd.headLast, count |-> rd.count,
               start |-> rd.start, last |-> rd.headLast, seen |-> rd.seen,
               blind |-> rd.blind]
    BY <2>1 DEF Reader, Locals
  <2> DEFINE k == Newest(1..rd.seen)
  <2>3. k \in 0..rd.seen
    BY <1>3, NewestFewer
  <2>4. Covered(k) => rd.headLast = k
    <3>1. Bytes(rd.seen) <= HeadBytes
      BY <1>2, <1>3, <1>4, TranscriptAssumption, SMTT(30)
    <3> QED
      BY <1>1, <1>4, <3>1, HeadSuffices DEF Covered
  <2>5. /\ k' = k /\ Messages(rd.seen)' = Messages(rd.seen)
        /\ Covered(k)' = Covered(k)
    BY <1>1, <2>2 DEF Newest, Messages, Covered, Bytes
  <2>6. SummaryTrue'
    <3>1. home.mine \/ (home.direct /\ rd.blind)
      BY <1>1 DEF Reader
    <3>2. rd.headLast # 0 => rd.headLast \in 1..k
      BY <1>3, <2>3
    <3> QED
      BY <1>1, <1>3, <2>2, <2>4, <2>5, <3>1, <3>2 DEF SummaryTrue
  <2>7. rd'.seen \in 0..Len(file')
    BY <1>1, <1>2, <1>3, <2>2
  <2> QED
    BY <1>1, <2>2, <2>6, <2>7 DEF Reader, Locals
<1>5. CASE ~(Bytes(Len(file)) <= HeadBytes)
  <2>1. rd' = [rd EXCEPT !.pc = "seek"]
    BY <1>5 DEF Stat
  <2>2. rd' = [pc |-> "seek", headLast |-> rd.headLast, count |-> rd.count,
               start |-> rd.start, last |-> rd.last, seen |-> rd.seen,
               blind |-> rd.blind]
    BY <2>1 DEF Reader, Locals
  <2>3. HeadRead'
    BY <1>1, <2>2 DEF HeadRead, HeadEnds, Newest, Messages, Bytes
  <2>4. Bytes(Len(file))' > HeadBytes
    BY <1>1, <1>2, <1>5, TranscriptAssumption DEF Bytes
  <2> QED
    BY <1>1, <2>2, <2>3, <2>4 DEF Reader, Locals, SummaryTrue
<1> QED
  BY <1>4, <1>5

LEMMA SeekKeepsReader == ASSUME Reader, Seek PROVE Reader'
<1> DEFINE d == Bytes(Len(file)) - TailBytes
<1>1. rd.pc = "seek" /\ UNCHANGED <<file, home>> /\ HeadRead /\ Bytes(Len(file)) > HeadBytes
  BY DEF Seek, Reader
<1>2. d \in Int
  BY BytesGrow, TranscriptAssumption DEF Reader
<1>3. Max({0, d}) = IF d > 0 THEN d ELSE 0
  <2>1. d \in Nat => Max({0, d}) = d
    BY MaxIs
  <2>2. d < 0 => Max({0, d}) = 0
    <3>1. d < 0 => \E x \in {0, d} : \A y \in {0, d} : x >= y
      BY <1>2
    <3>2. d < 0 => Max({0, d}) \in {0, d} /\ \A y \in {0, d} : Max({0, d}) >= y
      BY <3>1, Zenon DEF Max
    <3> HIDE DEF d
    <3> QED
      BY <1>2, <3>2
  <2> HIDE DEF d
  <2> QED
    BY <1>2, <2>1, <2>2
<1>4. rd' = [pc |-> "tail", headLast |-> rd.headLast, count |-> rd.count,
             start |-> Max({0, d}), last |-> rd.last, seen |-> rd.seen,
             blind |-> rd.blind]
  BY DEF Seek, Reader, Locals
<1>5. HeadRead' /\ Bytes(Len(file))' > HeadBytes
  BY <1>1, <1>4 DEF HeadRead, HeadEnds, Newest, Messages, Bytes
<1>6. StartFits'
  <2>1. d' = d
    BY <1>1 DEF Bytes
  <2> QED
    BY <1>2, <1>3, <1>4, <2>1 DEF StartFits
<1> QED
  BY <1>1, <1>4, <1>5, <1>6 DEF Reader, Locals, SummaryTrue

\* The tail that is kept has the newest message of all, if it can.
LEMMA TailSuffices ==
  ASSUME Reader, StartFits, NEW k \in 1..Len(file), k = Newest(1..Len(file)),
         Bytes(Len(file)) > HeadBytes, k > Len(file) - TailLines,
         Bytes(Len(file)) - Bytes(k - 1) < TailBytes
  PROVE  Newest(TailKept) = k
<1> DEFINE chunk == {j \in 1..Len(file) : Bytes(j) > rd.start}
           whole == IF rd.start > 0 THEN chunk \ {Min(chunk)} ELSE chunk
<1>1. /\ Len(file) \in Nat /\ \A n \in 0..Len(file) : Bytes(n) \in Nat
      /\ \A i, j \in 0..Len(file) : i < j => Bytes(i) < Bytes(j)
  BY BytesGrow DEF Reader
<1>2. /\ k \in 0..Len(file) /\ k - 1 \in 0..Len(file) /\ Len(file) \in 0..Len(file)
      /\ Bytes(0) = 0 /\ k - 1 < k
  BY <1>1 DEF Bytes
<1>3. rd.start # 0 => Bytes(k - 1) > rd.start
  <2>1. Bytes(Len(file)) \in Nat /\ Bytes(k - 1) \in Nat /\ rd.start \in Nat
        /\ TailBytes \in Nat
    BY <1>1, <1>2, TranscriptAssumption DEF StartFits
  <2> QED
    BY <2>1 DEF StartFits
<1>4. k \in chunk
  <2>1. Bytes(k - 1) < Bytes(k) /\ Bytes(k - 1) \in Nat /\ Bytes(k) \in Nat
    BY <1>1, <1>2
  <2> QED
    BY <1>3, <2>1 DEF StartFits
<1>5. rd.start > 0 => k # Min(chunk)
  <2> SUFFICES ASSUME rd.start > 0 PROVE k # Min(chunk)
    OBVIOUS
  <2>1. Bytes(k - 1) > rd.start /\ rd.start \in Nat
    BY <1>3 DEF StartFits
  <2>2. k - 1 # 0
    BY <1>2, <2>1
  <2>3. k - 1 \in chunk
    BY <1>1, <1>2, <2>1, <2>2
  <2>4. chunk \in SUBSET Nat /\ chunk # {}
    BY <1>4
  <2> HIDE DEF chunk
  <2>5. Min(chunk) <= k - 1 /\ Min(chunk) \in Nat
    BY <2>3, <2>4, LeastMin
  <2> QED
    BY <1>1, <2>5
<1>6. k \in TailKept /\ TailKept \in SUBSET (1..Len(file))
  BY <1>4, <1>5 DEF TailKept
<1>7. /\ file[k].human /\ k # 0
      /\ \A j \in 1..Len(file) : file[j].human => j <= k
  <2>1. /\ Newest(1..Len(file)) # 0 => file[Newest(1..Len(file))].human
        /\ \A j \in 1..Len(file) : file[j].human => j <= Newest(1..Len(file))
    BY <1>1, NewestIs
  <2> QED
    BY <1>1, <2>1
<1>8. /\ Newest(TailKept) \in TailKept \cup {0}
      /\ Newest(TailKept) # 0 => file[Newest(TailKept)].human
      /\ \A j \in TailKept : file[j].human => j <= Newest(TailKept)
  BY <1>1, <1>6, NewestIs
<1> HIDE DEF chunk, whole
<1>9. k <= Newest(TailKept)
  BY <1>6, <1>7, <1>8
<1>10. Newest(TailKept) \in 0..Len(file)
  <2>1. Newest(TailKept) \in (1..Len(file)) \cup {0}
    BY <1>6, <1>8, Zenon
  <2> QED
    BY <1>1, <2>1
<1>11. Newest(TailKept) <= k
  BY <1>1, <1>7, <1>8, <1>9, <1>10
<1> QED
  BY <1>1, <1>9, <1>10, <1>11

LEMMA TailKeepsReader == ASSUME Reader, ReadTail PROVE Reader'
<1> DEFINE k == Newest(1..Len(file))
           t == Newest(TailKept)
           last == IF t # 0 THEN t ELSE rd.headLast
<1>1. /\ rd.pc = "tail" /\ UNCHANGED <<file, home>> /\ HeadRead /\ StartFits
      /\ Bytes(Len(file)) > HeadBytes
  BY DEF ReadTail, Reader
<1>2. rd' = [pc |-> "reply", headLast |-> rd.headLast, count |-> rd.count,
             start |-> rd.start, last |-> last, seen |-> Len(file),
             blind |-> rd.blind]
  BY DEF ReadTail, Reader, Locals
<1>3. /\ Len(file) \in Nat /\ rd.seen \in Nat /\ rd.seen <= Len(file)
      /\ Bytes(Len(file)) \in Nat
      /\ rd.headLast \in 0..Newest(1..rd.seen)
      /\ rd.headLast # 0 => file[rd.headLast].human
      /\ rd.count <= Messages(rd.seen)
  <2>1. Bytes(Len(file)) \in Nat
    BY BytesGrow DEF Reader
  <2> QED
    BY <1>1, <2>1, HeadBounds
<1>4. /\ Newest(1..rd.seen) <= k /\ k \in 0..Len(file)
      /\ Newest(1..rd.seen) \in Nat
  BY <1>3, NewestFewer
<1>5. k # 0 /\ k > Len(file) - TailLines /\ Bytes(Len(file)) - Bytes(k - 1) < TailBytes
      => last = k
  BY <1>1, <1>3, <1>4, TailSuffices
<1>6. last # 0 => last \in 1..k /\ file[last].human
  <2>1. /\ t \in TailKept \cup {0} /\ TailKept \in SUBSET (1..Len(file))
        /\ t # 0 => file[t].human
    <3>1. TailKept \in SUBSET (1..Len(file))
      BY DEF TailKept
    <3> QED
      BY <1>3, <3>1, NewestIs
  <2>2. \A j \in 1..Len(file) : file[j].human => j <= k
    BY <1>3, NewestIs
  <2> HIDE DEF t, k
  <2>3. CASE t # 0
    BY <1>4, <2>1, <2>2, <2>3
  <2>4. CASE t = 0
    BY <1>3, <1>4, <2>4
  <2> QED
    BY <2>3, <2>4
<1>7. rd.count <= Messages(Len(file))
  <2>1. Messages(rd.seen) <= Messages(Len(file))
    BY <1>3, MessagesFewer
  <2>2. rd.count \in Nat /\ Messages(rd.seen) \in Nat /\ Messages(Len(file)) \in Nat
    <3>1. \A n \in Nat : Messages(n) \in Nat
      <4> TAKE n \in Nat
      <4> DEFINE S == {j \in 1..n : file[j].human}
      <4>1. IsFiniteSet(1..n) /\ S \in SUBSET (1..n)
        BY FS_Interval
      <4> HIDE DEF S
      <4>2. IsFiniteSet(S)
        BY <4>1, FS_Subset
      <4> QED
        BY <4>2, FS_CardinalityType DEF Messages, S
    <3>2. PICK n \in 0..rd.seen : rd.count = Messages(n)
      BY <1>1 DEF HeadRead
    <3>3. n \in Nat /\ rd.seen \in Nat /\ Len(file) \in Nat
      BY <1>3, <3>2
    <3> QED
      BY <3>1, <3>2, <3>3
  <2> QED
    BY <1>3, <2>1, <2>2
<1>8. /\ Newest(1..rd.seen)' = k /\ Messages(rd.seen)' = Messages(Len(file))
      /\ Covered(k)' => k > Len(file) - TailLines
                        /\ Bytes(Len(file)) - Bytes(k - 1) < TailBytes
  <2>1. rd'.seen = Len(file) /\ file' = file
    BY <1>1, <1>2
  <2>2. ~(Bytes(Len(file)) <= HeadBytes)
    BY <1>1, <1>3, TranscriptAssumption
  <2> QED
    BY <2>1, <2>2 DEF Newest, Messages, Covered, Bytes
<1>9. SummaryTrue'
  <2>1. home.mine \/ (home.direct /\ rd.blind)
    BY <1>1 DEF Reader
  <2> HIDE DEF last, k
  <2> QED
    BY <1>1, <1>2, <1>5, <1>6, <1>7, <1>8, <2>1 DEF SummaryTrue, k
<1>10. rd'.seen \in 0..Len(file')
  BY <1>1, <1>2, <1>3
<1> HIDE DEF last
<1> QED
  BY <1>1, <1>2, <1>9, <1>10 DEF Reader, Locals

LEMMA ReaderKept == Reader /\ [Next]_vars => Reader'
<1> SUFFICES ASSUME Reader, [Next]_vars PROVE Reader'
  OBVIOUS
<1>1. CASE Turn
  <2>1. Appended(1, FALSE) /\ UNCHANGED <<rd, home>>
    BY <1>1, Zenon DEF Turn
  <2>2. 1 \in Nat \ {0} /\ FALSE \in BOOLEAN
    OBVIOUS
  <2> QED
    BY <2>1, <2>2, AppendKeepsReader
<1>2. CASE Typed
  <2>1. Appended(2, TRUE) /\ UNCHANGED <<rd, home>>
    BY <1>2, Zenon DEF Typed
  <2>2. 2 \in Nat \ {0} /\ TRUE \in BOOLEAN
    OBVIOUS
  <2> QED
    BY <2>1, <2>2, AppendKeepsReader
<1>3. CASE Reply
  BY <1>3 DEF Reply, NoRequest, Reader, Locals, SummaryTrue
<1>4. CASE Exit \/ Feed \/ Drain \/ StreamDies \/ Driver \/ Tick \/ UNCHANGED vars
  <2>1. UNCHANGED Reading
    BY <1>4, Zenon DEF Exit, Feed, Drain, StreamDies, Driver, Ended, Terminate, Kill, Join, ReadUsage,
                       Tick, Reading, vars
  <2> QED
    BY <2>1 DEF Reading, Reader, Locals, HeadRead, HeadEnds, StartFits, SummaryTrue,
                Covered, Newest, Messages, Bytes
<1> QED
  BY <1>1, <1>2, <1>3, <1>4, FindKeepsReader, HeadKeepsReader, StatKeepsReader,
     SeekKeepsReader, TailKeepsReader DEF Next, Request

\* Whatever is appended to a session's transcript between the reads of a
\* request, the summary shows its newest message if the parts that are read
\* have it, never one that is not there, and never another directory's.
THEOREM SummariesTrue == Spec => []SummaryTrue
<1>1. Reader => SummaryTrue
  BY DEF Reader
<1> QED
  BY <1>1, InitReader, ReaderKept, PTL DEF Spec
=============================================================================
