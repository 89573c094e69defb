----------------------------- MODULE MCLimits ------------------------------
(* Small instances of Limits.                                              *)
EXTENDS Limits, TLC

CONSTANTS t1, t2, u1, pt, pu, act1, act2

ThreeThreads == (t1 :> pt) @@ (t2 :> pt) @@ (u1 :> pu)
Threads12    == Permutations({t1, t2}) \cup Permutations(Actions)
=============================================================================
