----------------------------- MODULE Transcript -----------------------------
(***************************************************************************)
(* The transcript of a claude session and the dashboard's summary of it    *)
(* (sessions.py; GET resume-info and GET transcript of web.py), read in    *)
(* four separate steps while claude, or a person who goes on with the      *)
(* session, appends to the file.                                           *)
(*                                                                         *)
(* Abstracted: a line is the offset at which it ends, whether it is a      *)
(* human user message (not a tool result, a sidechain row, a prompt of the *)
(* executor or a line that does not parse) and whether it records a cwd.   *)
(* A message is the number of its line.  A file exists from its first line *)
(* on.  External: who writes the file; it only grows.                      *)
(***************************************************************************)
EXTENDS Integers, Sequences, FiniteSetsExt

CONSTANTS
  HeadLines, HeadBytes,   \* _HEAD_LINES, _HEAD_BYTES
  TailLines, TailBytes,   \* _TAIL_LINES, _TAIL_BYTES
  CwdLines                \* _CWD_SCAN_LINES

ASSUME TranscriptAssumption ==
  {HeadLines, HeadBytes, TailLines, TailBytes, CwdLines} \subseteq Nat \ {0}

Line == [end : Nat \ {0}, human : BOOLEAN, cwd : BOOLEAN]
File == {f \in Seq(Line) : \A j, k \in DOMAIN f : j < k => f[j].end < f[k].end}

VARIABLES
  file,   \* the transcript's lines
  home,   \* direct: it lies under the slug of the task's directory;
          \* mine: the cwd it records is the task's directory
  rd      \* the request that reads it: position and locals

-----------------------------------------------------------------------------
\* 0 stands for no message.
Bytes(n) == IF n = 0 THEN 0 ELSE file[n].end
Newest(S) == Max({k \in S : file[k].human} \cup {0})
Messages(n) == Cardinality({k \in 1..n : file[k].human})

\* Histories: seen is the number of lines when the request last read the file,
\* blind that it was found while it recorded no directory.
NoRequest == [pc |-> "idle", headLast |-> 0, count |-> 0, start |-> 0, last |-> 0,
              seen |-> 0, blind |-> FALSE]

Appended(size, human) ==
  file' = Append(file, [end |-> Bytes(Len(file)) + size, human |-> human, cwd |-> TRUE])

-----------------------------------------------------------------------------
\* _read_first_cwd finds one.
Recorded == \E k \in 1..Min({CwdLines, Len(file)}) : file[k].cwd

\* find_transcript: a file under the slug is taken unless it records another
\* directory, any other file only if it records this one.
Found ==
  /\ file # <<>>
  /\ IF home.direct THEN Recorded => home.mine ELSE Recorded /\ home.mine

\* What is not found, and the size GET transcript asks for, end the request.
Find ==
  /\ rd.pc = "idle"
  /\ Found
  /\ rd' = [NoRequest EXCEPT !.pc = "head", !.blind = ~Recorded]
  /\ UNCHANGED <<file, home>>

\* _read_head and the scan of its lines.
ReadHead ==
  LET enough == {n \in 0..Len(file) : n = Len(file) \/ n >= HeadLines \/ Bytes(n) >= HeadBytes}
      n == Min(enough)
  IN /\ rd.pc = "head"
     /\ rd' = [rd EXCEPT !.pc = "stat", !.headLast = Newest(1..n), !.count = Messages(n),
                         !.seen = Len(file)]
     /\ UNCHANGED <<file, home>>

\* A file that is small by now is not read again.
Stat ==
  /\ rd.pc = "stat"
  /\ rd' = IF Bytes(Len(file)) <= HeadBytes
           THEN [rd EXCEPT !.pc = "reply", !.last = rd.headLast]
           ELSE [rd EXCEPT !.pc = "seek"]
  /\ UNCHANGED <<file, home>>

\* _read_tail: the offset is fixed before the rest of the file is read.
Seek ==
  /\ rd.pc = "seek"
  /\ rd' = [rd EXCEPT !.pc = "tail", !.start = Max({0, Bytes(Len(file)) - TailBytes})]
  /\ UNCHANGED <<file, home>>

\* The lines after the offset without the first, which may be cut; of these
\* the last ones.
TailKept ==
  LET chunk == {k \in 1..Len(file) : Bytes(k) > rd.start}
      whole == IF rd.start > 0 THEN chunk \ {Min(chunk)} ELSE chunk
  IN {k \in whole : k > Len(file) - TailLines}

\* Slip: a message of the head comes before those of the tail.
ReadTailLate ==
  /\ rd.pc = "tail"
  /\ rd' = [rd EXCEPT !.pc = "reply", !.seen = Len(file),
              !.last = IF rd.headLast # 0 THEN rd.headLast ELSE Newest(TailKept)]
  /\ UNCHANGED <<file, home>>

\* The newest message of the tail, or else of the head.
ReadTail ==
  /\ rd.pc = "tail"
  /\ rd' = [rd EXCEPT !.pc = "reply", !.seen = Len(file),
              !.last = IF Newest(TailKept) # 0 THEN Newest(TailKept) ELSE rd.headLast]
  /\ UNCHANGED <<file, home>>

Reply ==
  /\ rd.pc = "reply"
  /\ rd' = NoRequest
  /\ UNCHANGED <<file, home>>

\* "so the dashboard preview reflects what the user most recently said": the
\* message that is shown is the newest of the file as it was last read, if the
\* part that is read has it (in a short file of many lines it may not, and in
\* a long one where only claude has been at work lately), and in any case one
\* of the file; there are as many messages as it says, or more; and it is not
\* another directory's session, unless that recorded no directory by then.
Covered(k) ==
  IF Bytes(rd.seen) <= HeadBytes THEN rd.seen <= HeadLines
  ELSE /\ k > rd.seen - TailLines
       /\ Bytes(rd.seen) - Bytes(k - 1) < TailBytes

SummaryTrue ==
  rd.pc = "reply" =>
    LET k == Newest(1..rd.seen)
    IN /\ k # 0 /\ Covered(k) => rd.last = k
       /\ rd.last # 0 => rd.last \in 1..k /\ file[rd.last].human
       /\ rd.count <= Messages(rd.seen)
       /\ home.mine \/ (home.direct /\ rd.blind)

Request == Find \/ ReadHead \/ Stat \/ Seek \/ ReadTail \/ Reply
=============================================================================
