-------------------------- MODULE MCAuthentication --------------------------
(***************************************************************************)
(* A small instance of Authentication: two addresses, three threads; two   *)
(* wrong attempts lock an address, and two within a window lock everybody. *)
(* Threads are interchangeable, and so are addresses.                      *)
(***************************************************************************)
EXTENDS Authentication, TLC

CONSTANTS t1, t2, t3, i1, i2

Symmetry == Permutations(Thread) \cup Permutations(Ip)
=============================================================================
