------------------------------ MODULE Evidence ------------------------------
(***************************************************************************)
(* What proves that a journal is whole: processes sign events, rotate the  *)
(* key, checkpoint the journal and ship the checkpoint's witness off the   *)
(* host, countersign checkpoints, archive the journal and prune witnesses, *)
(* in any order and at once, each killed anywhere; and the tail of the     *)
(* journal is lost.                                                        *)
(*                                                                         *)
(* An append is one step (JournalFile has its own module), an archive too  *)
(* (Rotation). A file that holds a witness is a set: empty while it is     *)
(* missing or truncated.                                                   *)
(***************************************************************************)
EXTENDS KeyHome, Verification, FiniteSetsExt

CONSTANTS
  MaxOps, MaxEvents,   \* bounds on the commands run and the events written
  Keep                 \* of prune_witnesses

ASSUME EvidenceAssumption ==
  MaxKeys \in Nat /\ MaxOps \in Nat /\ MaxEvents \in Nat /\ Keep \in Nat \ {0}

CounterKey == MaxKeys + 1    \* an external key, trusted by whoever verifies

VARIABLES
  journal,
  written,     \* the events appended so far; the next id
  local,       \* <journal>.checkpoint
  stamped,     \* the witness directory: the witness files, by name
  latest,      \* latest.checkpoint
  ops,
  lost,        \* history: the events cut off the journal
  reported,    \* history: the last checkpoint a witness run returned with
  disturbed    \* history: what happened to the journal or between commands

evars == <<journal, written, local, stamped, latest, ops, lost, reported, disturbed>>
vars  == <<private, trusted, made, torn, skipped, proc, evars>>

Init ==
  /\ KeyInit
  /\ journal = << >> /\ written = 0
  /\ local = {} /\ latest = {}
  /\ stamped = [n \in {} |-> {}]
  /\ ops = 0 /\ lost = {} /\ reported = {} /\ disturbed = {}

Commands == {"sign", "rotate", "witness", "countersign", "archive"}
FirstStep(op) == CASE op = "rotate" -> "prior" [] op = "countersign" -> "find" [] OTHER -> "load"

Start(p) ==
  /\ proc[p].pc = "idle" /\ ops < MaxOps
  /\ ops' = ops + 1
  /\ \E op \in Commands :
       /\ proc' = [proc EXCEPT ![p] = [Idle EXCEPT !.op = op, !.pc = FirstStep(op)]]
       /\ disturbed' = IF op = "witness" /\ \E q \in Procs : proc[q].op = "witness"
                       THEN disturbed \cup {"overlap"} ELSE disturbed
  /\ UNCHANGED <<private, trusted, made, torn, skipped, journal, written, local, stamped, latest, lost, reported>>

Ready(p, op) == proc[p].op = op /\ proc[p].pc = "ready"

Put(e) ==
  /\ written < MaxEvents
  /\ journal' = Append(journal, e)
  /\ written' = written + 1

Draft(p, type) == Base(type, written + 1, proc[p].key, HeadId(journal))

-----------------------------------------------------------------------------
Sign(p) ==
  /\ Ready(p, "sign")
  /\ Put(Draft(p, "event"))
  /\ Leave(p)
  /\ UNCHANGED <<private, trusted, made, torn, skipped, local, stamped, latest, ops, lost, reported, disturbed>>

(* The outgoing key names its successor in the journal, if there is one;   *)
(* an append that fails does not stop the rotation.                        *)
RecordRotation(p) ==
  /\ Rotating(p)
  /\ WithNewKey(p, "truncate")
  /\ \/ /\ journal # << >>
        /\ Put([Draft(p, "rotation") EXCEPT !.ref = proc[p].prior, !.successor = made + 1])
     \/ UNCHANGED <<journal, written>>
  /\ UNCHANGED <<private, trusted, torn, skipped, local, stamped, latest, ops, lost, reported, disturbed>>

(* Count, head and append are read and done under one lock.                *)
Checkpoint(p) ==
  /\ Ready(p, "witness")
  /\ Put([Draft(p, "checkpoint") EXCEPT !.count = Len(journal), !.head = HeadId(journal)])
  /\ proc' = [proc EXCEPT ![p] = [@ EXCEPT !.pc = "clear", !.file = {Last(journal')}, !.ref = written + 1]]
  /\ UNCHANGED <<private, trusted, made, torn, skipped, local, stamped, latest, ops, lost, reported, disturbed>>

(* The witness file beside the journal is truncated, then written.         *)
ClearLocal(p) ==
  /\ proc[p].pc = "clear"
  /\ local' = {}
  /\ Goto(p, "local")
  /\ UNCHANGED <<private, trusted, made, torn, skipped, journal, written, stamped, latest, ops, lost, reported, disturbed>>

\* Mutant: the witness is added to what the file holds.
WriteLocal_Appends(p) ==
  /\ proc[p].pc = "local"
  /\ local' = local \cup proc[p].file
  /\ Goto(p, "copy")
  /\ UNCHANGED <<private, trusted, made, torn, skipped, journal, written, stamped, latest, ops, lost, reported, disturbed>>

WriteLocal(p) ==
  /\ proc[p].pc = "local"
  /\ local' = proc[p].file
  /\ Goto(p, "copy")
  /\ UNCHANGED <<private, trusted, made, torn, skipped, journal, written, stamped, latest, ops, lost, reported, disturbed>>

(* The shipped copy takes a name nobody has taken yet, and what it holds   *)
(* is read back from the file beside the journal.                          *)
CopyWitness(p) ==
  /\ proc[p].pc = "copy"
  /\ proc' = [proc EXCEPT ![p] = [@ EXCEPT !.pc = "place", !.file = local,
                                          !.slot = 1 + Max(DOMAIN stamped \cup {0})]]
  /\ UNCHANGED <<private, trusted, made, torn, skipped, journal, written, local, stamped, latest, ops, lost, reported, disturbed>>

PlaceWitness(p) ==
  /\ proc[p].pc = "place"
  /\ stamped' = [n \in DOMAIN stamped \cup {proc[p].slot} |->
                   IF n = proc[p].slot THEN proc[p].file ELSE stamped[n]]
  /\ Goto(p, "latest")
  /\ UNCHANGED <<private, trusted, made, torn, skipped, journal, written, local, latest, ops, lost, reported, disturbed>>

(* latest is copied from the file beside the journal once more.            *)
PlaceLatest(p) ==
  /\ proc[p].pc = "latest"
  /\ latest' = local
  /\ reported' = {proc[p].ref}
  /\ Leave(p)
  /\ UNCHANGED <<private, trusted, made, torn, skipped, journal, written, local, stamped, ops, lost, disturbed>>

-----------------------------------------------------------------------------
(* A countersignature repeats the newest checkpoint of the journal, looked *)
(* up before the append and without its lock.                              *)
FindCheckpoint(p) ==
  LET i == NewestCheckpoint(journal) IN
  /\ proc[p].pc = "find"
  /\ IF i = 0 THEN Leave(p)
     ELSE proc' = [proc EXCEPT ![p] = [@ EXCEPT !.pc = "countersign", !.key = CounterKey,
                                              !.file = {journal[i]}]]
  /\ UNCHANGED <<private, trusted, made, torn, skipped, evars>>

Countersign(p) ==
  /\ proc[p].pc = "countersign"
  /\ \E c \in proc[p].file :
       Put([Draft(p, "countersignature") EXCEPT !.ref = c.id, !.count = c.count, !.head = c.head])
  /\ Leave(p)
  /\ UNCHANGED <<private, trusted, made, torn, skipped, local, stamped, latest, ops, lost, reported, disturbed>>

Countersigning == \E p \in Procs : proc[p].pc = "countersign"

\* Mutant: the link is chained to the archived journal's last event.
Archive_Chained(p) ==
  /\ Ready(p, "archive") /\ journal # << >> /\ written < MaxEvents
  /\ journal' = <<[Draft(p, "archive") EXCEPT !.count = Len(journal), !.head = HeadId(journal)]>>
  /\ written' = written + 1
  /\ disturbed' = disturbed \cup {"archive"} \cup (IF Countersigning THEN {"uprooted"} ELSE {})
  /\ Leave(p)
  /\ UNCHANGED <<private, trusted, made, torn, skipped, local, stamped, latest, ops, lost, reported>>

(* The journal goes to an archive; a new one starts with the link to it.   *)
Archive(p) ==
  /\ Ready(p, "archive") /\ journal # << >> /\ written < MaxEvents
  /\ journal' = <<[Base("archive", written + 1, proc[p].key, 0)
                     EXCEPT !.count = Len(journal), !.head = HeadId(journal)]>>
  /\ written' = written + 1
  /\ disturbed' = disturbed \cup {"archive"} \cup (IF Countersigning THEN {"uprooted"} ELSE {})
  /\ Leave(p)
  /\ UNCHANGED <<private, trusted, made, torn, skipped, local, stamped, latest, ops, lost, reported>>

\* Mutant: the newest are deleted.
Prune_Newest ==
  /\ Cardinality(DOMAIN stamped) > Keep
  /\ LET kept == {n \in DOMAIN stamped : Cardinality({m \in DOMAIN stamped : m < n}) < Keep}
     IN stamped' = [n \in kept |-> stamped[n]]
  /\ UNCHANGED <<private, trusted, made, torn, skipped, proc, journal, written, local, latest, ops, lost, reported, disturbed>>

(* The oldest witnesses are deleted, by the time they were placed.         *)
Prune ==
  /\ Cardinality(DOMAIN stamped) > Keep
  /\ LET kept == {n \in DOMAIN stamped : Cardinality({m \in DOMAIN stamped : m > n}) < Keep}
     IN stamped' = [n \in kept |-> stamped[n]]
  /\ UNCHANGED <<private, trusted, made, torn, skipped, proc, journal, written, local, latest, ops, lost, reported, disturbed>>

(* The tail of the journal is lost: a disk, a backup restored over it.     *)
Lose ==
  /\ lost = {}
  /\ \E n \in 0..(Len(journal) - 1) :
       /\ journal' = SubSeq(journal, 1, n)
       /\ lost' = IdsOf(SubSeq(journal, n + 1, Len(journal)))
  /\ disturbed' = disturbed \cup (IF Countersigning THEN {"uprooted"} ELSE {})
  /\ UNCHANGED <<private, trusted, made, torn, skipped, proc, written, local, stamped, latest, ops, reported>>

Next ==
  \/ \E p \in Procs :
       \/ Start(p) \/ (IdentityStep(p) /\ UNCHANGED evars)
       \/ Sign(p) \/ RecordRotation(p) \/ Checkpoint(p)
       \/ ClearLocal(p) \/ WriteLocal(p) \/ CopyWitness(p) \/ PlaceWitness(p) \/ PlaceLatest(p)
       \/ FindCheckpoint(p) \/ Countersign(p) \/ Archive(p)
  \/ Prune \/ Lose

Spec == Init /\ [][Next]_vars

-----------------------------------------------------------------------------
Witnesses(file) == file = {} \/ (Cardinality(file) = 1 /\ \A e \in file : e.type = "checkpoint")

(***************************************************************************)
(* Type correctness: what stands in the journal has a type and an id of its *)
(* own, and a witness file is one checkpoint, or torn (_write_durable).    *)
(***************************************************************************)
TypeOK ==
  /\ KeyTypeOK
  /\ \A i \in DOMAIN journal : journal[i].type \in EventTypes /\ journal[i].id \in 1..written
  /\ Witnesses(local) /\ Witnesses(latest)
  /\ \A n \in DOMAIN stamped : n \in Nat /\ Witnesses(stamped[n])

(***************************************************************************)
(* Whoever signs has its key in the trusted set, and the file holds the    *)
(* key unless a writer is still at it or was cut short at it: creating,    *)
(* loading and rotating keys, at once and cut short, never leave an event  *)
(* that no trusted key verifies (load_or_create, rotate_key), with one     *)
(* exception the code has: rotate_key swallows the error of registering    *)
(* the outgoing key and signs the rotation's record with it all the same.  *)
(* Nothing but such a record is ever signed by a key that is not there.    *)
(***************************************************************************)
SignedIsTrusted ==
  \A i \in DOMAIN journal : LET k == journal[i].key IN
    k # CounterKey /\ k \notin torn =>
      \/ trusted[k] = "whole"
      \/ \E p \in Procs : proc[p].pc = "enroll" /\ proc[p].key = k
      \/ journal[i].type = "rotation" /\ k \in skipped /\ trusted[k] = "absent"

(***************************************************************************)
(* The journal the commands write verifies under the keys that signed it,  *)
(* whatever ran at once, was killed, lost or archived; only a              *)
(* countersignature can end up in a file without its checkpoint, when the  *)
(* journal is archived or cut between its lookup and its append            *)
(* (verify_journal).                                                       *)
(***************************************************************************)
Signers == {journal[i].key : i \in DOMAIN journal}

JournalVerifies ==
  \A issue \in JournalIssues(journal, Signers) :
    issue = "countersignature_orphan" /\ "uprooted" \in disturbed

(***************************************************************************)
(* While the journal is not archived, a shipped copy that holds a witness  *)
(* accepts the journal until what it covers is lost, and refuses it from   *)
(* then on, however the journal has grown since and whatever runs overlap  *)
(* (witness_journal, audit_witnesses). Only the copy of a run that another *)
(* overlapped may hold none: it is taken from the file beside the journal  *)
(* (_ship_witness), which the other may have truncated.                    *)
(***************************************************************************)
AllSigners == Keys \cup {CounterKey}
CoverageIssues == {"checkpoint_not_found", "checkpoint_truncation", "checkpoint_witness_invalid"}

WitnessTellsLoss ==
  "archive" \notin disturbed =>
    \A n \in DOMAIN stamped :
      /\ stamped[n] = {} => "overlap" \in disturbed
      /\ \A w \in stamped[n] :
           (IssuesAgainst(journal, AllSigners, w) \cap CoverageIssues # {}) <=> (w.id \in lost)

(***************************************************************************)
(* While nothing is archived and witness runs do not overlap, the latest   *)
(* witness is the one the last run that returned has reported, and one in  *)
(* the directory, as new, commits to as many events: during the runs that  *)
(* follow, whichever of them are killed, whatever is pruned or lost        *)
(* (witness_journal; prune_witnesses: "the newest witness subsumes every   *)
(* older prefix bound"). It fails where its premise, "counts grow with the *)
(* journal", does: a witness taken after the journal lost its tail is      *)
(* newer and may commit to fewer events, and pruning keeps it.             *)
(***************************************************************************)
CutBetween(w, v) == (\E id \in lost : w.id <= id) /\ (\A id \in lost : id < v.id)

BoundIsKept ==
  disturbed \cap {"overlap", "archive"} = {} =>
    \A id \in reported :
      /\ \E w \in latest : w.id = id
      /\ \E n \in DOMAIN stamped : \E v \in stamped[n] : \A w \in latest :
           v.id >= w.id /\ (v.count >= w.count \/ CutBetween(w, v))
=============================================================================
