------------------------------ MODULE MCRunner ------------------------------
(***************************************************************************)
(* Instances of Runner.  The unit is five minutes: Hour = 12, Cycle = 60,  *)
(* T-60 = 12, T-10 = 2, T+5 = 1, drift 3, stale grace 6, fallback 3, six   *)
(* hours 72, suppression 2, burn window 14, 600 s = 2.  The runs about      *)
(* interleavings shrink the clock and keep the order of the durations.     *)
(***************************************************************************)
EXTENDS Runner

CONSTANTS web1, web2, once

Exact == {0}
Late == {0, 1}
============================================================================
