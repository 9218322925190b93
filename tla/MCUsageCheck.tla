---------------------------- MODULE MCUsageCheck ----------------------------
(***************************************************************************)
(* Two organisations; an account has one of them, both or none.  The times *)
(* are the code's, in seconds; a request waits out at most two of its time *)
(* limits, say for a host with two dead addresses, and the longest check   *)
(* takes 30 + (30 + 3 + 30) + (60 + 3) + (30 + 3 + 30).                    *)
(***************************************************************************)
EXTENDS UsageCheck

CONSTANTS o1, o2

AnyAccount == {{o1}, {o2}, {o1, o2}, {}}
AnyPin == {o1, NULL}

CodePauses ==
  [code \in Transient |->
     [n \in 0..MaxAttempts |-> (IF code = "rate_limited" THEN 3 ELSE 2) ^ n]]
=============================================================================
