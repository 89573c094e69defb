----------------------------- MODULE MCEvidence ----------------------------
(* A small instance of Evidence.                                           *)
EXTENDS Evidence, TLC

CONSTANTS p1, p2

Processes == Permutations({p1, p2})
=============================================================================
