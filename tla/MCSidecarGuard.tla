--------------------------- MODULE MCSidecarGuard ---------------------------
(* An instance of SidecarGuard for TLC: one process with two callers, and  *)
(* a process that checkpoints the same journal.                            *)
EXTENDS SidecarGuard, TLC

CONSTANTS c1, c2, f3, k1

TwoAndOne == {{c1, c2}, {f3}}
\* Bound: after a gap no other is followed, and of the three that take away the claim
\* of a live holder, which leave the same files and fibers, only one.
OneGap == gaps \in {{}, {"reentered"}, {"overdue"}}

Alike     == Permutations({c1, c2})
=============================================================================
