---------------------------- MODULE Verification ----------------------------
(***************************************************************************)
(* verification.py as operators over the events of a journal file.         *)
(*                                                                         *)
(* An event's id stands for its hash: payloads and signatures cannot be    *)
(* altered without changing it. prev is the predecessor's, 0 if there is   *)
(* none; key is the signer. A checkpoint commits to count events and the   *)
(* head; a countersignature repeats what its checkpoint (ref) commits to;  *)
(* an archive event commits to another file; a rotation names a successor. *)
(***************************************************************************)
EXTENDS Integers, Sequences, FiniteSets, SequencesExt

EventTypes == {"event", "checkpoint", "countersignature", "archive", "rotation"}

Base(type, id, key, prev) ==
  [type |-> type, id |-> id, key |-> key, prev |-> prev,
   count |-> 0, head |-> 0, ref |-> 0, successor |-> 0]

HeadId(j) == IF j = << >> THEN 0 ELSE Last(j).id

IdsOf(j) == {j[i].id : i \in DOMAIN j}

-----------------------------------------------------------------------------
(* The checks of one event, in its place.                                  *)

CheckpointBefore(j, i, id) ==
  {k \in 1..(i - 1) : j[k].type = "checkpoint" /\ j[k].id = id}

CheckpointIssues(e) ==
  IF e.head # e.prev THEN {"checkpoint_head_mismatch"} ELSE {}

CountersignatureIssues(j, i) ==
  LET e == j[i]  found == CheckpointBefore(j, i, e.ref) IN
  IF found = {} THEN {"countersignature_orphan"}
  ELSE UNION {(IF e.count # j[k].count THEN {"countersignature_count_mismatch"} ELSE {}) \cup
              (IF e.head # j[k].head THEN {"countersignature_head_mismatch"} ELSE {}) : k \in found}

ArchiveIssues(e) ==
  (IF e.prev # 0 THEN {"archive_not_first"} ELSE {}) \cup
  (IF e.count < 1 THEN {"archive_bad_count"} ELSE {})

RotationIssues(e) ==
  (IF e.ref # e.key THEN {"rotation_signer_mismatch"} ELSE {}) \cup
  (IF e.ref = e.successor THEN {"rotation_self_successor"} ELSE {})

TypeIssues(j, i) ==
  CASE j[i].type = "checkpoint"       -> CheckpointIssues(j[i])
    [] j[i].type = "countersignature" -> CountersignatureIssues(j, i)
    [] j[i].type = "archive"          -> ArchiveIssues(j[i])
    [] j[i].type = "rotation"         -> RotationIssues(j[i])
    [] OTHER                          -> {}

EventIssues(j, i, keys) ==
  TypeIssues(j, i) \cup
  (IF j[i].prev # HeadId(SubSeq(j, 1, i - 1)) THEN {"chain_break"} ELSE {}) \cup
  (IF j[i].key \notin keys THEN {"unknown_key"} ELSE {})

-----------------------------------------------------------------------------
(* The checks of a file against checkpoints, its own and a witness.        *)

\* The place of the newest checkpoint, 0 if there is none.
NewestCheckpoint(j) == Max({0} \cup {i \in DOMAIN j : j[i].type = "checkpoint"})

Truncation(j, count) == IF Len(j) < count THEN {"checkpoint_truncation"} ELSE {}

\* Mutant: only the journal's own checkpoints and witnesses found in it bound it.
Coverage_Own(j, witnesses) ==
  LET newest == NewestCheckpoint(j)
      counts == {w.count : w \in {w \in witnesses : w.id \in IdsOf(j)}}
                  \cup (IF newest = 0 THEN {} ELSE {j[newest].count})
  IN UNION {Truncation(j, n) : n \in {n \in counts : \A c \in counts : c <= n}}

(* Of the newest checkpoint in the journal and a witness found in it, the  *)
(* one with the larger count bounds the length; a witness that is not in   *)
(* the journal is an issue by itself.                                      *)
Coverage(j, witnesses) ==
  LET newest == NewestCheckpoint(j)
      found  == {w \in witnesses : w.id \in IdsOf(j)}
      counts == {w.count : w \in found} \cup (IF newest = 0 THEN {} ELSE {j[newest].count})
      lost   == witnesses \ found
  IN (IF lost # {} THEN {"checkpoint_not_found"} ELSE {}) \cup
     (UNION {Truncation(j, w.count) : w \in lost}) \cup
     UNION {Truncation(j, n) : n \in {n \in counts : \A c \in counts : c <= n}}

(* What a witness file must be to be taken as one.                         *)
WitnessIssues(w, keys) ==
  IF w.type # "checkpoint" \/ w.head # w.prev \/ w.key \notin keys
  THEN {"checkpoint_witness_invalid"} ELSE {}

JournalIssues(j, keys) == (UNION {EventIssues(j, i, keys) : i \in DOMAIN j}) \cup Coverage(j, {})

(* verify_journal(path, keys, checkpoint=w)                                *)
IssuesAgainst(j, keys, w) ==
  LET invalid == WitnessIssues(w, keys) IN
  (UNION {EventIssues(j, i, keys) : i \in DOMAIN j}) \cup invalid \cup
  Coverage(j, IF invalid = {} THEN {w} ELSE {})
=============================================================================
