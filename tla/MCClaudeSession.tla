--------------------------- MODULE MCClaudeSession ---------------------------
(***************************************************************************)
(* A small instance of ClaudeSession: the head is two lines or three       *)
(* bytes, the tail two lines or four, and the transcripts before the run   *)
(* are new, short, short with many lines, and long.                        *)
(***************************************************************************)
EXTENDS ClaudeSession

\* A line of a message, of claude, or of neither, by where it ends.
Said(n) == [end |-> n, human |-> TRUE, cwd |-> TRUE]
Done(n) == [end |-> n, human |-> FALSE, cwd |-> TRUE]
Meta == [end |-> 1, human |-> FALSE, cwd |-> FALSE]

In(lines, direct, mine) == [file |-> lines, home |-> [direct |-> direct, mine |-> mine]]

Earlier ==
  { In(<<>>, TRUE, TRUE), In(<<Meta>>, TRUE, FALSE),
    In(<<Said(1), Done(2), Said(3)>>, FALSE, TRUE),
    In(<<Said(2), Said(3), Done(5)>>, TRUE, TRUE) }
=============================================================================
