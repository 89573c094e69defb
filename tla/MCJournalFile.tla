--------------------------- MODULE MCJournalFile ---------------------------
(***************************************************************************)
(* Small instances of JournalFile.                                         *)
(***************************************************************************)
EXTENDS JournalFile, TLC

CONSTANTS p1, p2

Processes == Permutations({p1, p2})
=============================================================================
