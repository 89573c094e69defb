----------------------------- MODULE MCRotation -----------------------------
(***************************************************************************)
(* Small instances of Rotation.                                            *)
(***************************************************************************)
EXTENDS Rotation, TLC

CONSTANTS w1, w2, a1, a2

Processes == Permutations({a1, a2})
=============================================================================
