---------------------------- MODULE MCApprovals ----------------------------
(* A small instance of Approvals.                                          *)
EXTENDS Approvals, TLC

CONSTANTS c1, c2, k1, k2
=============================================================================
