----------------------------- MODULE MCRunOrder -----------------------------
(***************************************************************************)
(* Three tasks; the first by name was created last, and the other two at   *)
(* the same time.  Between them the wishes hold chains, a fork, a cycle, a *)
(* gate, and priorities for and against the dependencies.                  *)
(***************************************************************************)
EXTENDS RunOrder

LastFirst == <<2, 1, 1>>

ThreeWishes ==
  <<[prio : {1}, deps : {{2}, {2, 3}}, eligible : {0}]
      \cup [prio : {2}, deps : {{3}}, eligible : {0}],
    [prio : {2}, deps : {{}, {1}, {3}}, eligible : {0}],
    [prio : {1}, deps : {{}}, eligible : {0, 1}]
      \cup [prio : {2}, deps : {{}}, eligible : {0}]>>
=============================================================================
