-------------------------- MODULE EvidenceProofs --------------------------
(***************************************************************************)
(* Machine-checked facts about Evidence, for any number of processes,      *)
(* keys, commands and events.                                              *)
(***************************************************************************)
EXTENDS Evidence, FiniteSetTheorems, WellFoundedInduction, TLAPS

Less == {ss \in Nat \X Nat : ss[1] < ss[2]}

\* Every non-empty set of naturals has a least member.
LEMMA LeastNatural ==
  ASSUME NEW S, S \subseteq Nat, S # {}
  PROVE  \E d \in S : \A e \in S : d <= e
  <1>1. IsWellFoundedOn(Less, Nat)
    BY NatLessThanWellFounded DEF OpToRel, Less
  <1>2. PICK d \in S : \A e \in S : ~ (<<e, d>> \in Less)
    BY <1>1, WFMin
  <1>3. ASSUME NEW e \in S PROVE d <= e
    <2>1. <<e, d>> \in Nat \X Nat /\ <<e, d>>[1] = e /\ <<e, d>>[2] = d
      OBVIOUS
    <2>2. ~(e < d)
      BY <1>2, <2>1, Zenon DEF Less
    <2> QED
      BY <2>2
  <1> QED
    BY <1>3

\* A bounded set of naturals that is not empty has a greatest member.
LEMMA GreatestNatural ==
  ASSUME NEW n \in Nat, NEW S, S \subseteq 0..n, S # {}
  PROVE  \E m \in S : \A i \in S : i <= m
  <1> DEFINE T == {n - i : i \in S}
  <1>1. T \subseteq Nat /\ T # {}
    <2>1. \A i \in S : n - i \in Nat
      OBVIOUS
    <2>2. T \subseteq Nat
      BY <2>1
    <2> QED
      BY <2>2
  <1>2. PICK t \in T : \A u \in T : t <= u
    BY <1>1, LeastNatural
  <1>3. PICK m \in S : t = n - m
    BY <1>2
  <1>4. \A i \in S : n - m <= n - i
    BY <1>2, <1>3
  <1> QED
    BY <1>4

-----------------------------------------------------------------------------
Records == [type : EventTypes, id : Nat, key : Nat, prev : Nat,
            count : Nat, head : Nat, ref : Nat, successor : Nat]

\* What a witness file may hold.
WitnessFiles == {{}} \cup {{e} : e \in {e \in Records : e.type = "checkpoint"}}

Points == {"idle", "load", "truncate", "write", "register", "open", "enroll", "prior", "ready",
           "clear", "local", "copy", "place", "latest", "find", "countersign"}

ProcRecord == [op : Commands \cup {"none"}, pc : Points, key : Nat, prior : Nat, ref : Nat,
               file : WitnessFiles, slot : Nat]

TInv ==
  /\ KeyTypeOK
  /\ proc \in [Procs -> ProcRecord]
  /\ journal \in Seq(Records) /\ written \in Nat
  /\ local \in WitnessFiles /\ latest \in WitnessFiles
  /\ \E b \in Nat : DOMAIN stamped \subseteq 0..b
  /\ \A n \in DOMAIN stamped : stamped[n] \in WitnessFiles

-----------------------------------------------------------------------------
(* Journals, and what the commands append to them.                         *)

LEMMA AppendShape ==
  ASSUME NEW j \in Seq(Records), NEW e \in Records
  PROVE  /\ Append(j, e) \in Seq(Records)
         /\ Len(Append(j, e)) = Len(j) + 1 /\ Len(j) \in Nat
         /\ \A i \in 1..Len(j) : Append(j, e)[i] = j[i] /\ j[i] \in Records
         /\ Append(j, e)[Len(j) + 1] = e
  OBVIOUS

LEMMA HeadIsLast ==
  ASSUME NEW j \in Seq(Records)
  PROVE  /\ HeadId(j) \in Nat /\ Len(j) \in Nat
         /\ j # << >> => HeadId(j) = j[Len(j)].id
         /\ j = << >> => HeadId(j) = 0
  <1>1. CASE j = << >>
    BY <1>1 DEF HeadId
  <1>2. CASE j # << >>
    <2>1. Len(j) \in 1..Len(j) /\ j[Len(j)] \in Records
      BY <1>2
    <2> QED
      BY <1>2, <2>1 DEF HeadId, Last, Records
  <1> QED
    BY <1>1, <1>2

LEMMA DraftIsRecord ==
  ASSUME NEW type \in EventTypes, NEW id \in Nat, NEW key \in Nat, NEW prev \in Nat
  PROVE  LET b == Base(type, id, key, prev) IN
         /\ b \in Records
         /\ b.type = type /\ b.id = id /\ b.key = key /\ b.prev = prev
         /\ b.count = 0 /\ b.head = 0 /\ b.ref = 0 /\ b.successor = 0
  BY DEF Base, Records

\* The greatest of a bounded set of naturals.
LEMMA MaxIsMember ==
  ASSUME NEW n \in Nat, NEW S, S \subseteq 0..n, S # {}
  PROVE  Max(S) \in S /\ \A i \in S : i <= Max(S)
  <1>1. \E m \in S : \A i \in S : m >= i
    <2>1. PICK m \in S : \A i \in S : i <= m
      BY GreatestNatural
    <2> QED
      BY <2>1
  <1>2. Max(S) \in S /\ \A i \in S : Max(S) >= i
    BY <1>1 DEF Max
  <1> QED
    BY <1>2

LEMMA NewestIsCheckpoint ==
  ASSUME NEW j \in Seq(Records)
  PROVE  /\ NewestCheckpoint(j) \in 0..Len(j)
         /\ NewestCheckpoint(j) # 0 => /\ NewestCheckpoint(j) \in 1..Len(j)
                                       /\ j[NewestCheckpoint(j)].type = "checkpoint"
  <1> DEFINE S == {0} \cup {i \in DOMAIN j : j[i].type = "checkpoint"}
  <1>1. S \subseteq 0..Len(j) /\ S # {} /\ Len(j) \in Nat
    OBVIOUS
  <1>2. Max(S) \in S
    BY <1>1, MaxIsMember
  <1> QED
    BY <1>1, <1>2 DEF NewestCheckpoint

-----------------------------------------------------------------------------
(* Processes.                                                              *)

\* The record that p has after a step, and the others have theirs.
Becomes(p, r) ==
  /\ proc' = [proc EXCEPT ![p] = r]
  /\ r \in ProcRecord

LEMMA BecomesProc ==
  ASSUME TInv, NEW p \in Procs, NEW r, Becomes(p, r)
  PROVE  /\ proc' \in [Procs -> ProcRecord] /\ proc'[p] = r
         /\ \A q \in Procs : q # p => proc'[q] = proc[q]
  BY DEF TInv, Becomes

LEMMA IdleIsRecord == Idle \in ProcRecord /\ Idle.pc = "idle" /\ Idle.op = "none"
  BY DEF Idle, ProcRecord, NoKey, Points, WitnessFiles

LEMMA GotoBecomes ==
  ASSUME TInv, NEW p \in Procs, NEW pc \in Points, Goto(p, pc)
  PROVE  \E r : /\ Becomes(p, r) /\ r.pc = pc /\ r.op = proc[p].op /\ r.key = proc[p].key
                /\ r.prior = proc[p].prior /\ r.file = proc[p].file /\ r.slot = proc[p].slot
                /\ r.ref = proc[p].ref
  <1> DEFINE r == [proc[p] EXCEPT !.pc = pc]
  <1>1. proc[p] \in ProcRecord
    BY DEF TInv
  <1>2. /\ r \in ProcRecord /\ r.pc = pc /\ r.op = proc[p].op /\ r.key = proc[p].key
        /\ r.prior = proc[p].prior /\ r.file = proc[p].file /\ r.slot = proc[p].slot
        /\ r.ref = proc[p].ref
    BY <1>1 DEF ProcRecord
  <1>3. proc' = [proc EXCEPT ![p] = r]
    BY DEF TInv, Goto
  <1> QED
    BY <1>2, <1>3 DEF Becomes

LEMMA LeaveBecomes ==
  ASSUME TInv, NEW p \in Procs, Leave(p)
  PROVE  Becomes(p, Idle)
  BY IdleIsRecord DEF Leave, Becomes

\* p goes on with the private key; when it rotates, that is the outgoing one.
LEMMA LoadBecomes ==
  ASSUME TInv, NEW p \in Procs, private \in Keys,
         proc' = [proc EXCEPT ![p] = [@ EXCEPT !.key = private, !.pc = "register"]]
  PROVE  \E r : Becomes(p, r) /\ r.pc = "register" /\ r.key = private
  <1> DEFINE r == [proc[p] EXCEPT !.key = private, !.pc = "register"]
  <1>1. proc[p] \in ProcRecord /\ private \in Nat
    BY DEF TInv, Keys
  <1>2. r \in ProcRecord /\ r.pc = "register" /\ r.key = private
    BY <1>1 DEF ProcRecord, Points
  <1>3. proc' = [proc EXCEPT ![p] = r]
    BY DEF TInv
  <1> QED
    BY <1>2, <1>3 DEF Becomes

LEMMA PriorBecomes ==
  ASSUME TInv, NEW p \in Procs, private \in Keys,
         proc' = [proc EXCEPT ![p] = [@ EXCEPT !.key = private, !.prior = private, !.pc = "register"]]
  PROVE  \E r : Becomes(p, r) /\ r.pc = "register" /\ r.key = private
  <1> DEFINE r == [proc[p] EXCEPT !.key = private, !.prior = private, !.pc = "register"]
  <1>1. proc[p] \in ProcRecord /\ private \in Nat
    BY DEF TInv, Keys
  <1>2. r \in ProcRecord /\ r.pc = "register" /\ r.key = private
    BY <1>1 DEF ProcRecord, Points
  <1>3. proc' = [proc EXCEPT ![p] = r]
    BY DEF TInv
  <1> QED
    BY <1>2, <1>3 DEF Becomes

LEMMA NewKeyBecomes ==
  ASSUME TInv, NEW p \in Procs, WithNewKey(p, "truncate")
  PROVE  /\ made' = made + 1 /\ made' \in Keys /\ made' \in 0..MaxKeys
         /\ \E r : Becomes(p, r) /\ r.pc = "truncate" /\ r.key = made'
  <1> DEFINE r == [proc[p] EXCEPT !.key = made + 1, !.pc = "truncate"]
  <1>1. made \in Nat /\ made < MaxKeys /\ made' = made + 1 /\ MaxKeys \in Nat
    BY EvidenceAssumption DEF TInv, KeyTypeOK, WithNewKey, Generate
  <1>2. proc[p] \in ProcRecord /\ made + 1 \in Nat
    BY <1>1 DEF TInv
  <1>3. r \in ProcRecord /\ r.pc = "truncate" /\ r.key = made + 1
    BY <1>2 DEF ProcRecord, Points
  <1>4. proc' = [proc EXCEPT ![p] = r]
    BY DEF WithNewKey, TInv
  <1>5. Becomes(p, r)
    BY <1>3, <1>4 DEF Becomes
  <1>6. made' \in Keys /\ made' \in 0..MaxKeys
    BY <1>1 DEF Keys
  <1> HIDE DEF r
  <1> QED
    BY <1>1, <1>3, <1>5, <1>6

LEMMA StartBecomes ==
  ASSUME TInv, NEW p \in Procs, Start(p)
  PROVE  \E r : Becomes(p, r) /\ r.pc \in {"load", "prior", "find"}
  <1>1. PICK op \in Commands :
          proc' = [proc EXCEPT ![p] = [Idle EXCEPT !.op = op, !.pc = FirstStep(op)]]
    BY DEF Start
  <1>2. FirstStep(op) \in {"load", "prior", "find"}
    BY DEF FirstStep, Commands
  <1> DEFINE r == [Idle EXCEPT !.op = op, !.pc = FirstStep(op)]
  <1>3. r \in ProcRecord /\ r.pc = FirstStep(op)
    BY <1>2, IdleIsRecord DEF ProcRecord, Points
  <1> QED
    BY <1>1, <1>2, <1>3 DEF Becomes

\* A checkpoint that was appended is the witness of its run.
LEMMA CheckpointBecomes ==
  ASSUME TInv, NEW p \in Procs, Checkpoint(p)
  PROVE  \E e \in Records :
           /\ journal' = Append(journal, e) /\ written' = written + 1
           /\ e.type = "checkpoint" /\ e.id = written + 1 /\ e.key = proc[p].key
           /\ e.prev = HeadId(journal) /\ e.head = HeadId(journal) /\ e.count = Len(journal)
           /\ \E r : /\ Becomes(p, r) /\ r.pc = "clear" /\ r.file = {e}
                     /\ r.op = proc[p].op /\ r.ref = written + 1
  <1> DEFINE e == [Draft(p, "checkpoint") EXCEPT !.count = Len(journal), !.head = HeadId(journal)]
             r == [proc[p] EXCEPT !.pc = "clear", !.file = {e}, !.ref = written + 1]
  <1>1. proc[p] \in ProcRecord /\ journal \in Seq(Records) /\ written \in Nat
    BY DEF TInv
  <1>2. HeadId(journal) \in Nat /\ Len(journal) \in Nat
    BY <1>1, HeadIsLast
  <1>3. /\ e \in Records /\ e.type = "checkpoint" /\ e.id = written + 1
        /\ e.key = proc[p].key /\ e.prev = HeadId(journal)
        /\ e.head = HeadId(journal) /\ e.count = Len(journal)
    <2>1. PICK b, count, head : b = Draft(p, "checkpoint") /\ count = Len(journal) /\ head = HeadId(journal)
      OBVIOUS
    <2>2. /\ b \in Records /\ b.type = "checkpoint" /\ b.id = written + 1
          /\ b.key = proc[p].key /\ b.prev = HeadId(journal)
      BY <1>1, <1>2, <2>1 DEF Draft, Base, Records, ProcRecord, EventTypes
    <2>3. LET c == [b EXCEPT !.count = count, !.head = head] IN
          /\ c \in Records
          /\ c.type = b.type /\ c.id = b.id /\ c.key = b.key /\ c.prev = b.prev
          /\ c.count = count /\ c.head = head
      BY <2>1, <2>2, <1>2 DEF Records
    <2> QED
      BY <2>1, <2>2, <2>3
  <1>4. journal' = Append(journal, e) /\ written' = written + 1
    BY DEF Checkpoint, Put
  <1> HIDE DEF e
  <1>5. Last(journal') = e
    BY <1>1, <1>3, <1>4 DEF Last
  <1>6. proc' = [proc EXCEPT ![p] = r]
    BY <1>1, <1>5 DEF Checkpoint, TInv
  <1>7. {e} \in WitnessFiles
    BY <1>3 DEF WitnessFiles
  <1>8. /\ r \in ProcRecord /\ r.pc = "clear" /\ r.file = {e}
        /\ r.op = proc[p].op /\ r.ref = written + 1
    <2>1. written + 1 \in Nat /\ "clear" \in Points
      BY <1>1 DEF Points
    <2> HIDE DEF Points
    <2>2. \A n \in Nat, f \in WitnessFiles, c \in Points :
             LET s == [proc[p] EXCEPT !.pc = c, !.file = f, !.ref = n]
             IN  /\ s \in ProcRecord /\ s.pc = c /\ s.file = f
                 /\ s.op = proc[p].op /\ s.ref = n
      BY <1>1 DEF ProcRecord
    <2> QED
      BY <1>7, <2>1, <2>2
  <1> QED
    BY <1>3, <1>4, <1>6, <1>8 DEF Becomes

LEMMA FreeSlot ==
  ASSUME TInv
  PROVE  \E s \in Nat : /\ s # 0 /\ s = 1 + Max(DOMAIN stamped \cup {0})
                        /\ \A n \in DOMAIN stamped : n \in Nat /\ n < s
  <1> DEFINE S == DOMAIN stamped \cup {0}
  <1>1. PICK b \in Nat : DOMAIN stamped \subseteq 0..b
    BY DEF TInv
  <1>2. S \subseteq 0..b /\ S # {}
    BY <1>1
  <1>3. Max(S) \in 0..b /\ \A n \in S : n <= Max(S)
    BY <1>1, <1>2, MaxIsMember
  <1>4. PICK m \in 0..b : m = Max(S) /\ \A n \in S : n <= m
    BY <1>3
  <1>5. 1 + m \in Nat /\ 1 + m # 0 /\ \A n \in DOMAIN stamped : n \in Nat /\ n < 1 + m
    BY <1>1, <1>4
  <1> QED
    BY <1>4, <1>5

LEMMA CopyBecomes ==
  ASSUME TInv, NEW p \in Procs, CopyWitness(p)
  PROVE  \E r : /\ Becomes(p, r) /\ r.pc = "place" /\ r.slot \in Nat \ {0} /\ r.file = local
                /\ r.op = proc[p].op /\ r.ref = proc[p].ref
                /\ \A n \in DOMAIN stamped : n < r.slot
  <1>1. PICK s \in Nat : /\ s # 0 /\ s = 1 + Max(DOMAIN stamped \cup {0})
                         /\ \A n \in DOMAIN stamped : n \in Nat /\ n < s
    BY FreeSlot
  <1> DEFINE r == [proc[p] EXCEPT !.pc = "place", !.file = local, !.slot = s]
  <1>2. proc[p] \in ProcRecord /\ local \in WitnessFiles
    BY DEF TInv
  <1>3. /\ r \in ProcRecord /\ r.pc = "place" /\ r.slot = s /\ r.file = local
        /\ r.op = proc[p].op /\ r.ref = proc[p].ref
    BY <1>1, <1>2 DEF ProcRecord, Points
  <1>4. proc' = [proc EXCEPT ![p] = r]
    BY <1>1 DEF CopyWitness, TInv
  <1> QED
    BY <1>1, <1>3, <1>4 DEF Becomes

\* What a countersigner found is a checkpoint of the journal.
LEMMA FindBecomes ==
  ASSUME TInv, NEW p \in Procs, FindCheckpoint(p), ~Leave(p)
  PROVE  \E i \in 1..Len(journal) :
           /\ journal[i].type = "checkpoint"
           /\ \E r : /\ Becomes(p, r) /\ r.pc = "countersign" /\ r.key = CounterKey
                     /\ r.file = {journal[i]}
  <1> DEFINE i == NewestCheckpoint(journal)
             r == [proc[p] EXCEPT !.pc = "countersign", !.key = CounterKey, !.file = {journal[i]}]
  <1>1. /\ i # 0
        /\ proc' = [proc EXCEPT ![p] = [@ EXCEPT !.pc = "countersign", !.key = CounterKey,
                                                  !.file = {journal[i]}]]
    BY DEF FindCheckpoint
  <1>2. proc[p] \in ProcRecord /\ journal \in Seq(Records) /\ CounterKey \in Nat
    BY EvidenceAssumption DEF TInv, CounterKey
  <1>3. i \in 1..Len(journal) /\ journal[i].type = "checkpoint"
    BY <1>1, <1>2, NewestIsCheckpoint
  <1> HIDE DEF i
  <1>4. {journal[i]} \in WitnessFiles
    BY <1>2, <1>3 DEF WitnessFiles
  <1>5. r \in ProcRecord /\ r.pc = "countersign" /\ r.key = CounterKey /\ r.file = {journal[i]}
    BY <1>2, <1>4 DEF ProcRecord, Points
  <1>6. proc' = [proc EXCEPT ![p] = r]
    BY <1>1 DEF TInv
  <1> QED
    BY <1>3, <1>5, <1>6 DEF Becomes

\* The append of a rotation, by the key that hands over.
LEMMA RotationAppends ==
  ASSUME TInv, NEW p \in Procs, RecordRotation(p), journal' # journal
  PROVE  \E e \in Records :
           /\ journal' = Append(journal, e) /\ written' = written + 1
           /\ e.type = "rotation" /\ e.id = written + 1 /\ e.key = proc[p].key
           /\ e.prev = HeadId(journal) /\ e.ref = proc[p].key /\ e.successor = made + 1
  <1> DEFINE e == [Draft(p, "rotation") EXCEPT !.ref = proc[p].prior, !.successor = made + 1]
  <1>1. /\ proc[p] \in ProcRecord /\ journal \in Seq(Records) /\ written \in Nat
        /\ made \in Nat /\ proc[p].prior = proc[p].key
    BY EvidenceAssumption DEF TInv, KeyTypeOK, RecordRotation, Rotating
  <1>2. HeadId(journal) \in Nat
    BY <1>1, HeadIsLast
  <1>3. journal' = Append(journal, e) /\ written' = written + 1
    BY DEF RecordRotation, Put
  <1>4. PICK b, ref, next : b = Draft(p, "rotation") /\ ref = proc[p].prior /\ next = made + 1
    OBVIOUS
  <1>5. /\ b \in Records /\ b.type = "rotation" /\ b.id = written + 1
        /\ b.key = proc[p].key /\ b.prev = HeadId(journal)
    <2>1. proc[p].key \in Nat /\ written + 1 \in Nat /\ "rotation" \in EventTypes
      BY <1>1 DEF ProcRecord, EventTypes
    <2> QED
      BY <2>1, <1>2, <1>4, DraftIsRecord DEF Draft
  <1>6. ref \in Nat /\ next \in Nat
    BY <1>1, <1>4 DEF ProcRecord
  <1>7. LET c == [b EXCEPT !.ref = ref, !.successor = next] IN
        /\ c \in Records
        /\ c.type = b.type /\ c.id = b.id /\ c.key = b.key /\ c.prev = b.prev
        /\ c.ref = ref /\ c.successor = next
    BY <1>5, <1>6 DEF Records
  <1>8. /\ e \in Records /\ e.type = "rotation" /\ e.id = written + 1 /\ e.key = proc[p].key
        /\ e.prev = HeadId(journal) /\ e.ref = proc[p].key /\ e.successor = made + 1
    BY <1>1, <1>4, <1>5, <1>7
  <1> QED
    BY <1>3, <1>8

\* A countersignature repeats the checkpoint that was found.
LEMMA CountersignAppends ==
  ASSUME TInv, NEW p \in Procs, Countersign(p)
  PROVE  \E c \in Records, e \in Records :
           /\ proc[p].file = {c}
           /\ journal' = Append(journal, e) /\ written' = written + 1
           /\ e.type = "countersignature" /\ e.id = written + 1 /\ e.key = proc[p].key
           /\ e.prev = HeadId(journal) /\ e.ref = c.id /\ e.count = c.count /\ e.head = c.head
  <1>1. PICK c \in proc[p].file :
          Put([Draft(p, "countersignature") EXCEPT !.ref = c.id, !.count = c.count, !.head = c.head])
    BY DEF Countersign
  <1> DEFINE e == [Draft(p, "countersignature") EXCEPT !.ref = c.id, !.count = c.count, !.head = c.head]
  <1>2. proc[p] \in ProcRecord /\ journal \in Seq(Records) /\ written \in Nat
    BY DEF TInv
  <1>3. c \in Records /\ proc[p].file = {c}
    BY <1>1, <1>2 DEF ProcRecord, WitnessFiles
  <1>4. HeadId(journal) \in Nat
    BY <1>2, HeadIsLast
  <1>5. journal' = Append(journal, e) /\ written' = written + 1
    BY <1>1 DEF Put
  <1>6. PICK b : b = Draft(p, "countersignature")
    OBVIOUS
  <1>7. /\ b \in Records /\ b.type = "countersignature" /\ b.id = written + 1
        /\ b.key = proc[p].key /\ b.prev = HeadId(journal)
    <2>1. proc[p].key \in Nat /\ written + 1 \in Nat /\ "countersignature" \in EventTypes
      BY <1>2 DEF ProcRecord, EventTypes
    <2> QED
      BY <2>1, <1>4, <1>6, DraftIsRecord DEF Draft
  <1>8. LET d == [b EXCEPT !.ref = c.id, !.count = c.count, !.head = c.head] IN
        /\ d \in Records
        /\ d.type = b.type /\ d.id = b.id /\ d.key = b.key /\ d.prev = b.prev
        /\ d.ref = c.id /\ d.count = c.count /\ d.head = c.head
    BY <1>3, <1>7 DEF Records
  <1>9. /\ e \in Records /\ e.type = "countersignature" /\ e.id = written + 1
        /\ e.key = proc[p].key /\ e.prev = HeadId(journal)
        /\ e.ref = c.id /\ e.count = c.count /\ e.head = c.head
    BY <1>6, <1>7, <1>8
  <1> QED
    BY <1>3, <1>5, <1>9

\* The journal that an archive leaves: its link.
LEMMA ArchiveStarts ==
  ASSUME TInv, NEW p \in Procs, Archive(p)
  PROVE  \E e \in Records :
           /\ journal' = <<e>> /\ written' = written + 1
           /\ e.type = "archive" /\ e.id = written + 1 /\ e.key = proc[p].key
           /\ e.prev = 0 /\ e.count >= 1
  <1> DEFINE e == [Base("archive", written + 1, proc[p].key, 0)
                     EXCEPT !.count = Len(journal), !.head = HeadId(journal)]
  <1>1. /\ proc[p] \in ProcRecord /\ journal \in Seq(Records) /\ written \in Nat
        /\ journal # << >>
    BY DEF TInv, Archive
  <1>2. HeadId(journal) \in Nat /\ Len(journal) \in Nat /\ Len(journal) >= 1
    BY <1>1, HeadIsLast
  <1>3. journal' = <<e>> /\ written' = written + 1
    BY DEF Archive
  <1>4. PICK b, count, head : /\ b = Base("archive", written + 1, proc[p].key, 0)
                              /\ count = Len(journal) /\ head = HeadId(journal)
    OBVIOUS
  <1>5. /\ b \in Records /\ b.type = "archive" /\ b.id = written + 1
        /\ b.key = proc[p].key /\ b.prev = 0
    <2>1. proc[p].key \in Nat /\ written + 1 \in Nat /\ "archive" \in EventTypes
      BY <1>1 DEF ProcRecord, EventTypes
    <2> QED
      BY <2>1, <1>4, DraftIsRecord
  <1>6. LET c == [b EXCEPT !.count = count, !.head = head] IN
        /\ c \in Records
        /\ c.type = b.type /\ c.id = b.id /\ c.key = b.key /\ c.prev = b.prev
        /\ c.count = count /\ c.head = head
    BY <1>2, <1>4, <1>5 DEF Records
  <1>7. /\ e \in Records /\ e.type = "archive" /\ e.id = written + 1 /\ e.key = proc[p].key
        /\ e.prev = 0 /\ e.count >= 1
    BY <1>2, <1>4, <1>5, <1>6
  <1> QED
    BY <1>3, <1>7

LEMMA SignAppends ==
  ASSUME TInv, NEW p \in Procs, Sign(p)
  PROVE  \E e \in Records :
           /\ journal' = Append(journal, e) /\ written' = written + 1
           /\ e.type = "event" /\ e.id = written + 1 /\ e.key = proc[p].key
           /\ e.prev = HeadId(journal)
  <1>1. proc[p] \in ProcRecord /\ journal \in Seq(Records) /\ written \in Nat
    BY DEF TInv
  <1>2. HeadId(journal) \in Nat
    BY <1>1, HeadIsLast
  <1>3. proc[p].key \in Nat /\ written + 1 \in Nat /\ "event" \in EventTypes
    BY <1>1 DEF ProcRecord, EventTypes
  <1>4. PICK e : e = Draft(p, "event")
    OBVIOUS
  <1>5. journal' = Append(journal, e) /\ written' = written + 1
    BY <1>4 DEF Sign, Put
  <1>6. /\ e \in Records /\ e.type = "event" /\ e.id = written + 1 /\ e.key = proc[p].key
        /\ e.prev = HeadId(journal)
    BY <1>2, <1>3, <1>4, DraftIsRecord DEF Draft
  <1> QED
    BY <1>5, <1>6

-----------------------------------------------------------------------------
(* The keys. What makes SignedIsTrusted inductive: a key is trusted before *)
(* its holder is ready to sign, and a trusted key's file that is not whole *)
(* has a writer, or lost it.                                               *)

Holding == {"truncate", "write", "register", "open", "enroll", "ready"}

PrivateIsMade == private \in Keys => private <= made

HeldIsMade ==
  \A p \in Procs : proc[p].pc \in Holding => proc[p].key \in Keys /\ proc[p].key <= made

\* The outgoing key of a rotation may be in hand unregistered.
Outgoing(r) == r.op = "rotate" /\ r.key = r.prior /\ r.key \in skipped

ReadyIsTrusted ==
  \A p \in Procs : proc[p].pc = "ready" => trusted[proc[p].key] # "absent" \/ Outgoing(proc[p])

CountersignerIsExternal ==
  \A p \in Procs : proc[p].pc = "countersign" => proc[p].key = CounterKey

SignedIsKnown ==
  \A i \in 1..Len(journal) :
    \/ journal[i].key = CounterKey
    \/ /\ journal[i].key \in Keys
       /\ \/ trusted[journal[i].key] # "absent"
          \/ journal[i].type = "rotation" /\ journal[i].key \in skipped

TornHasWriter ==
  \A k \in Keys : trusted[k] = "torn" =>
    k \in torn \/ \E p \in Procs : proc[p].pc = "enroll" /\ proc[p].key = k

KInv == /\ TInv /\ PrivateIsMade /\ HeldIsMade /\ ReadyIsTrusted
        /\ CountersignerIsExternal /\ SignedIsKnown /\ TornHasWriter

LEMMA KeyInitially == Init => KInv
  <1> SUFFICES ASSUME Init PROVE KInv
    OBVIOUS
  <1>1. /\ private = NoKey /\ trusted = [k \in Keys |-> "absent"] /\ made = 0 /\ torn = {} /\ skipped = {}
        /\ proc = [p \in Procs |-> Idle] /\ journal = << >> /\ written = 0
        /\ local = {} /\ latest = {} /\ stamped = [n \in {} |-> {}]
    BY DEF Init, KeyInit
  <1>2. KeyTypeOK
    BY <1>1, EvidenceAssumption DEF KeyTypeOK
  <1>3. proc \in [Procs -> ProcRecord] /\ \A p \in Procs : proc[p].pc = "idle"
    BY <1>1, IdleIsRecord
  <1>4. journal \in Seq(Records) /\ Len(journal) = 0
    BY <1>1
  <1>5. local \in WitnessFiles /\ latest \in WitnessFiles
    BY <1>1 DEF WitnessFiles
  <1>6. DOMAIN stamped = {}
    BY <1>1
  <1>7. TInv
    BY <1>1, <1>2, <1>3, <1>4, <1>5, <1>6 DEF TInv
  <1>8. private \notin Keys
    BY <1>1 DEF Keys, NoKey
  <1> QED
    BY <1>1, <1>3, <1>4, <1>7, <1>8 DEF KInv, PrivateIsMade, HeldIsMade, ReadyIsTrusted, Holding,
       CountersignerIsExternal, SignedIsKnown, TornHasWriter

\* The types after a step of p that leaves the witness directory alone.
LEMMA TypedStep ==
  ASSUME TInv, NEW p \in Procs, NEW r, Becomes(p, r), KeyTypeOK',
         (journal \in Seq(Records))', (written \in Nat)',
         (local \in WitnessFiles)', (latest \in WitnessFiles)', stamped' = stamped
  PROVE  TInv'
  BY BecomesProc DEF TInv

\* Nothing that p does but sign adds a key to the journal, and nothing takes
\* a key's file away.
LEMMA KeyStep ==
  ASSUME KInv, TInv', NEW p \in Procs, NEW r, Becomes(p, r),
         made <= made', torn \subseteq torn', skipped \subseteq skipped',
         (private \in Keys => private <= made)',
         \A k \in Keys : trusted[k] # "absent" => trusted'[k] # "absent",
         \A k \in Keys : trusted'[k] = "torn" =>
            \/ k \in torn'
            \/ trusted[k] = "torn" /\ ~ (proc[p].pc = "enroll" /\ proc[p].key = k)
            \/ r.pc = "enroll" /\ r.key = k,
         r.pc \in Holding => r.key \in Keys /\ r.key <= made',
         r.pc = "ready" => trusted'[r.key] # "absent" \/ Outgoing(r)',
         r.pc = "countersign" => r.key = CounterKey,
         \A i \in 1..Len(journal') :
            \/ \E h \in 1..Len(journal) :
                 journal'[i].key = journal[h].key /\ journal'[i].type = journal[h].type
            \/ /\ proc[p].pc \in {"ready", "countersign"} /\ journal'[i].key = proc[p].key
               /\ journal'[i].type = "rotation" \/ proc[p].op # "rotate" \/ proc[p].pc = "countersign"
  PROVE  KInv'
  <1>1. proc'[p] = r /\ \A q \in Procs : q # p => proc'[q] = proc[q]
    BY BecomesProc DEF KInv
  <1>2. made \in Nat /\ made' \in Nat /\ MaxKeys \in Nat
    BY EvidenceAssumption DEF KInv, TInv, KeyTypeOK
  <1>3. PrivateIsMade'
    BY DEF PrivateIsMade
  <1>4. HeldIsMade'
    BY <1>1, <1>2 DEF KInv, HeldIsMade, Keys
  <1>5. ReadyIsTrusted'
    <2> SUFFICES ASSUME NEW q \in Procs, q # p, proc[q].pc = "ready"
                 PROVE  trusted'[proc[q].key] # "absent" \/ Outgoing(proc[q])'
      BY <1>1 DEF ReadyIsTrusted, Outgoing
    <2>1. trusted[proc[q].key] # "absent" \/ Outgoing(proc[q])
      BY DEF KInv, ReadyIsTrusted
    <2> QED
      BY <1>1, <2>1 DEF KInv, HeldIsMade, Holding, Outgoing
  <1>6. CountersignerIsExternal'
    BY <1>1 DEF KInv, CountersignerIsExternal
  <1>7. SignedIsKnown'
    <2> SUFFICES ASSUME NEW i \in 1..Len(journal')
                 PROVE  \/ journal'[i].key = CounterKey
                        \/ /\ journal'[i].key \in Keys
                           /\ \/ trusted'[journal'[i].key] # "absent"
                              \/ journal'[i].type = "rotation" /\ journal'[i].key \in skipped'
      BY DEF SignedIsKnown
    <2>1. CASE \E h \in 1..Len(journal) :
                 journal'[i].key = journal[h].key /\ journal'[i].type = journal[h].type
      BY <2>1 DEF KInv, SignedIsKnown
    <2>2. CASE /\ proc[p].pc \in {"ready", "countersign"} /\ journal'[i].key = proc[p].key
               /\ journal'[i].type = "rotation" \/ proc[p].op # "rotate" \/ proc[p].pc = "countersign"
      <3>1. CASE proc[p].pc = "countersign"
        BY <2>2, <3>1 DEF KInv, CountersignerIsExternal
      <3>2. CASE proc[p].pc = "ready"
        <4>1. trusted[proc[p].key] # "absent" \/ Outgoing(proc[p])
          BY <3>2 DEF KInv, ReadyIsTrusted
        <4>2. proc[p].key \in Keys
          BY <3>2 DEF KInv, HeldIsMade, Holding
        <4> QED
          BY <2>2, <3>2, <4>1, <4>2 DEF Outgoing
      <3> QED
        BY <2>2, <3>1, <3>2
    <2> QED
      BY <2>1, <2>2
  <1>8. TornHasWriter'
    <2> SUFFICES ASSUME NEW k \in Keys, trusted'[k] = "torn"
                 PROVE  k \in torn' \/ \E q \in Procs : proc'[q].pc = "enroll" /\ proc'[q].key = k
      BY DEF TornHasWriter
    <2>1. CASE trusted[k] = "torn" /\ ~ (proc[p].pc = "enroll" /\ proc[p].key = k)
      BY <1>1, <2>1 DEF KInv, TornHasWriter
    <2>2. CASE r.pc = "enroll" /\ r.key = k
      BY <1>1, <2>2
    <2> QED
      BY <2>1, <2>2
  <1> QED
    BY <1>3, <1>4, <1>5, <1>6, <1>7, <1>8 DEF KInv

-----------------------------------------------------------------------------
(* One lemma for each step that the keys' invariant must survive.          *)

LEMMA LoadKeyKeeps ==
  ASSUME KInv, NEW p \in Procs, LoadKey(p), UNCHANGED evars
  PROVE  KInv'
  <1>1. TInv /\ made \in Nat /\ PrivateIsMade
    BY DEF KInv, TInv, KeyTypeOK
  <1>2. /\ UNCHANGED <<private, trusted, torn, skipped, journal, written, local, stamped, latest>>
        /\ proc[p].pc = "load"
    BY DEF LoadKey, evars
  <1>3. PICK r : /\ Becomes(p, r) /\ made <= made' /\ made' \in 0..MaxKeys
                 /\ r.pc \in {"register", "truncate"} => r.key \in Keys /\ r.key <= made'
                 /\ r.pc \in {"register", "truncate", "idle"}
    <2>1. CASE /\ private \in Keys /\ UNCHANGED made
               /\ proc' = [proc EXCEPT ![p] = [@ EXCEPT !.key = private, !.pc = "register"]]
      <3>1. \E r : Becomes(p, r) /\ r.pc = "register" /\ r.key = private
        BY <1>1, <2>1, LoadBecomes
      <3>2. private <= made' /\ made <= made' /\ made' \in 0..MaxKeys
        BY <1>1, <2>1 DEF KInv, TInv, KeyTypeOK, PrivateIsMade
      <3> QED
        BY <2>1, <3>1, <3>2
    <2>2. CASE private = Torn /\ Leave(p) /\ UNCHANGED made
      <3>1. made \in 0..MaxKeys
        BY DEF KInv, TInv, KeyTypeOK
      <3> QED
        BY <1>1, <2>2, <3>1, LeaveBecomes, IdleIsRecord
    <2>3. CASE private = NoKey /\ WithNewKey(p, "truncate")
      BY <1>1, <2>3, NewKeyBecomes
    <2> QED
      BY <2>1, <2>2, <2>3 DEF LoadKey
  <1>4. KeyTypeOK'
    BY <1>1, <1>2, <1>3 DEF TInv, KeyTypeOK
  <1>5. TInv'
    BY <1>1, <1>2, <1>3, <1>4, TypedStep DEF TInv
  <1> QED
    BY <1>1, <1>2, <1>3, <1>5, KeyStep, <1>4 DEF KInv, KeyTypeOK, Keys, PrivateIsMade, Holding

LEMMA ReadPriorKeeps ==
  ASSUME KInv, NEW p \in Procs, ReadPrior(p), UNCHANGED evars
  PROVE  KInv'
  <1>1. TInv /\ made \in Nat /\ PrivateIsMade
    BY DEF KInv, TInv, KeyTypeOK
  <1>2. /\ UNCHANGED <<private, trusted, torn, skipped, journal, written, local, stamped, latest>>
        /\ proc[p].pc = "prior"
    BY DEF ReadPrior, evars
  <1>3. PICK r : /\ Becomes(p, r) /\ made <= made' /\ made' \in 0..MaxKeys
                 /\ r.key \in Keys /\ r.key <= made' /\ r.pc \in {"register", "truncate"}
    <2>1. CASE /\ private \in Keys /\ UNCHANGED made
               /\ proc' = [proc EXCEPT ![p] = [@ EXCEPT !.key = private, !.prior = private, !.pc = "register"]]
      <3>1. \E r : Becomes(p, r) /\ r.pc = "register" /\ r.key = private
        BY <1>1, <2>1, PriorBecomes
      <3>2. private <= made' /\ made <= made' /\ made' \in 0..MaxKeys
        BY <1>1, <2>1 DEF KInv, TInv, KeyTypeOK, PrivateIsMade
      <3> QED
        BY <2>1, <3>1, <3>2
    <2>2. CASE WithNewKey(p, "truncate")
      BY <1>1, <2>2, NewKeyBecomes
    <2> QED
      BY <2>1, <2>2 DEF ReadPrior
  <1>4. KeyTypeOK'
    BY <1>1, <1>2, <1>3 DEF TInv, KeyTypeOK
  <1>5. TInv'
    BY <1>1, <1>2, <1>3, <1>4, TypedStep DEF TInv
  <1> QED
    BY <1>1, <1>2, <1>3, <1>5, KeyStep, <1>4 DEF KInv, KeyTypeOK, Keys, PrivateIsMade, Holding

LEMMA TruncateKeyKeeps ==
  ASSUME KInv, NEW p \in Procs, TruncateKey(p), UNCHANGED evars
  PROVE  KInv'
  <1>1. TInv /\ made \in Nat
    BY DEF KInv, TInv, KeyTypeOK
  <1>2. /\ UNCHANGED <<trusted, made, torn, skipped, journal, written, local, stamped, latest>>
        /\ proc[p].pc = "truncate" /\ private' = Torn
    BY DEF TruncateKey, evars
  <1>3. proc[p].key \in Keys /\ proc[p].key <= made
    BY <1>2 DEF KInv, HeldIsMade, Holding
  <1>4. PICK r : Becomes(p, r) /\ r.pc = "write" /\ r.key = proc[p].key
    BY <1>1, GotoBecomes DEF TruncateKey, Points
  <1>5. KeyTypeOK' /\ private' \notin Keys
    BY <1>1, <1>2 DEF TInv, KeyTypeOK, Keys, Torn
  <1>6. TInv'
    BY <1>1, <1>2, <1>4, <1>5, TypedStep DEF TInv
  <1> QED
    BY <1>1, <1>2, <1>3, <1>4, <1>5, <1>6, KeyStep DEF KInv, Holding

LEMMA WriteKeyKeeps ==
  ASSUME KInv, NEW p \in Procs, WriteKey(p), UNCHANGED evars
  PROVE  KInv'
  <1>1. TInv /\ made \in Nat
    BY DEF KInv, TInv, KeyTypeOK
  <1>2. /\ UNCHANGED <<trusted, made, torn, skipped, journal, written, local, stamped, latest>>
        /\ proc[p].pc = "write" /\ private' = proc[p].key
    BY DEF WriteKey, evars
  <1>3. proc[p].key \in Keys /\ proc[p].key <= made
    BY <1>2 DEF KInv, HeldIsMade, Holding
  <1>4. PICK r : Becomes(p, r) /\ r.pc = "register" /\ r.key = proc[p].key
    BY <1>1, GotoBecomes DEF WriteKey, Points
  <1>5. KeyTypeOK'
    BY <1>1, <1>2, <1>3 DEF TInv, KeyTypeOK
  <1>6. TInv'
    BY <1>1, <1>2, <1>4, <1>5, TypedStep DEF TInv
  <1> QED
    BY <1>1, <1>2, <1>3, <1>4, <1>6, KeyStep DEF KInv, Holding

\* A file that is there already has a writer, or had one.
LEMMA RegisterKeeps ==
  ASSUME KInv, NEW p \in Procs, Register(p), UNCHANGED evars
  PROVE  KInv'
  <1>1. TInv /\ made \in Nat
    BY DEF KInv, TInv, KeyTypeOK
  <1>2. /\ UNCHANGED <<private, trusted, made, torn, skipped, journal, written, local, stamped, latest>>
        /\ proc[p].pc = "register"
        /\ Goto(p, IF trusted[proc[p].key] = "absent" THEN "open" ELSE "ready")
    BY DEF Register, evars
  <1>3. proc[p].key \in Keys /\ proc[p].key <= made
    BY <1>2 DEF KInv, HeldIsMade, Holding
  <1>4. PICK pc \in {"open", "ready"} :
          Goto(p, pc) /\ (pc = "ready" => trusted[proc[p].key] # "absent")
    BY <1>2
  <1>5. PICK r : Becomes(p, r) /\ r.pc = pc /\ r.key = proc[p].key
    BY <1>1, <1>4, GotoBecomes DEF Points
  <1>6. TInv'
    BY <1>1, <1>2, <1>5, TypedStep DEF TInv, KeyTypeOK
  <1> QED
    BY <1>1, <1>2, <1>3, <1>4, <1>5, <1>6, KeyStep DEF KInv, Holding, PrivateIsMade

LEMMA OpenTrustedKeeps ==
  ASSUME KInv, NEW p \in Procs, OpenTrusted(p), UNCHANGED evars
  PROVE  KInv'
  <1>1. TInv /\ made \in Nat /\ trusted \in [Keys -> {"absent", "torn", "whole"}]
    BY DEF KInv, TInv, KeyTypeOK
  <1>2. /\ UNCHANGED <<private, made, torn, skipped, journal, written, local, stamped, latest>>
        /\ proc[p].pc = "open" /\ trusted' = [trusted EXCEPT ![proc[p].key] = "torn"]
    BY DEF OpenTrusted, evars
  <1>3. proc[p].key \in Keys /\ proc[p].key <= made
    BY <1>2 DEF KInv, HeldIsMade, Holding
  <1>4. PICK r : Becomes(p, r) /\ r.pc = "enroll" /\ r.key = proc[p].key
    BY <1>1, GotoBecomes DEF OpenTrusted, Points
  <1>5. KeyTypeOK'
    BY <1>1, <1>2, <1>3 DEF TInv, KeyTypeOK
  <1>6. TInv'
    BY <1>1, <1>2, <1>4, <1>5, TypedStep DEF TInv
  <1>7. \A k \in Keys : trusted'[k] = IF k = proc[p].key THEN "torn" ELSE trusted[k]
    BY <1>1, <1>2
  <1> QED
    BY <1>1, <1>2, <1>3, <1>4, <1>6, <1>7, KeyStep DEF KInv, Holding, PrivateIsMade

LEMMA SkipPriorKeeps ==
  ASSUME KInv, NEW p \in Procs, SkipPrior(p), UNCHANGED evars
  PROVE  KInv'
  <1>1. TInv /\ made \in Nat /\ torn \subseteq Keys /\ skipped \subseteq Keys
    BY DEF KInv, TInv, KeyTypeOK
  <1>2. /\ UNCHANGED <<private, trusted, made, journal, written, local, stamped, latest>>
        /\ proc[p].pc \in {"register", "open", "enroll"}
        /\ proc[p].op = "rotate" /\ proc[p].key = proc[p].prior
        /\ skipped' = skipped \cup {proc[p].key}
        /\ torn' = IF proc[p].pc = "enroll" THEN torn \cup {proc[p].key} ELSE torn
    BY DEF SkipPrior, evars
  <1>3. proc[p].key \in Keys /\ proc[p].key <= made
    BY <1>2 DEF KInv, HeldIsMade, Holding
  <1>4. PICK r : /\ Becomes(p, r) /\ r.pc = "ready" /\ r.key = proc[p].key
                 /\ r.op = "rotate" /\ r.prior = proc[p].prior
    <2>1. proc[p] \in ProcRecord /\ proc \in [Procs -> ProcRecord]
      BY <1>1 DEF TInv
    <2>2. \E r : /\ Becomes(p, r) /\ r.pc = "ready" /\ r.key = proc[p].key
                  /\ r.op = proc[p].op /\ r.prior = proc[p].prior
      BY <1>1, GotoBecomes DEF SkipPrior, Points
    <2> QED
      BY <1>2, <2>2
  <1>5. KeyTypeOK'
    BY <1>1, <1>2, <1>3 DEF TInv, KeyTypeOK
  <1>6. TInv'
    BY <1>1, <1>2, <1>4, <1>5, TypedStep DEF TInv
  <1>7. Outgoing(r)'
    BY <1>2, <1>4 DEF Outgoing
  <1> QED
    BY <1>1, <1>2, <1>3, <1>4, <1>6, <1>7, KeyStep DEF KInv, Holding, PrivateIsMade

LEMMA EnrollKeeps ==
  ASSUME KInv, NEW p \in Procs, Enroll(p), UNCHANGED evars
  PROVE  KInv'
  <1>1. TInv /\ made \in Nat /\ trusted \in [Keys -> {"absent", "torn", "whole"}]
    BY DEF KInv, TInv, KeyTypeOK
  <1>2. /\ UNCHANGED <<private, made, torn, skipped, journal, written, local, stamped, latest>>
        /\ proc[p].pc = "enroll" /\ trusted' = [trusted EXCEPT ![proc[p].key] = "whole"]
    BY DEF Enroll, evars
  <1>3. proc[p].key \in Keys /\ proc[p].key <= made
    BY <1>2 DEF KInv, HeldIsMade, Holding
  <1>4. PICK r : Becomes(p, r) /\ r.pc = "ready" /\ r.key = proc[p].key
    BY <1>1, GotoBecomes DEF Enroll, Points
  <1>5. KeyTypeOK'
    BY <1>1, <1>2, <1>3 DEF TInv, KeyTypeOK
  <1>6. TInv'
    BY <1>1, <1>2, <1>4, <1>5, TypedStep DEF TInv
  <1>7. \A k \in Keys : trusted'[k] = IF k = proc[p].key THEN "whole" ELSE trusted[k]
    BY <1>1, <1>2
  <1> QED
    BY <1>1, <1>2, <1>3, <1>4, <1>6, <1>7, KeyStep DEF KInv, Holding, PrivateIsMade

LEMMA KillKeeps ==
  ASSUME KInv, NEW p \in Procs, Kill(p), UNCHANGED evars
  PROVE  KInv'
  <1>1. TInv /\ made \in Nat /\ torn \subseteq Keys
    BY DEF KInv, TInv, KeyTypeOK
  <1>2. /\ UNCHANGED <<private, trusted, made, skipped, journal, written, local, stamped, latest>>
        /\ torn' = IF proc[p].pc = "enroll" THEN torn \cup {proc[p].key} ELSE torn
    BY DEF Kill, evars
  <1>3. torn' \subseteq Keys
    BY <1>1, <1>2 DEF KInv, HeldIsMade, Holding
  <1>4. Becomes(p, Idle) /\ Idle.pc = "idle"
    BY <1>1, LeaveBecomes, IdleIsRecord DEF Kill
  <1>5. KeyTypeOK'
    BY <1>1, <1>2, <1>3 DEF TInv, KeyTypeOK
  <1>6. TInv'
    BY <1>1, <1>2, <1>4, <1>5, TypedStep DEF TInv
  <1> QED
    BY <1>1, <1>2, <1>4, <1>6, KeyStep DEF KInv, Holding, PrivateIsMade

\* A step that touches neither keys nor journal, and leaves no key in hand.
LEMMA QuietKeeps ==
  ASSUME KInv, TInv', NEW p \in Procs, NEW r, Becomes(p, r), proc[p].pc # "enroll",
         UNCHANGED <<private, trusted, made, torn, skipped, journal>>,
         r.pc \notin Holding, r.pc = "countersign" => r.key = CounterKey
  PROVE  KInv'
  <1>1. made \in Nat /\ PrivateIsMade
    BY DEF KInv, TInv, KeyTypeOK
  <1> QED
    BY <1>1, KeyStep DEF PrivateIsMade, Holding

\* A step that signs ends a command, or its hold of the key.
LEMMA SigningKeeps ==
  ASSUME KInv, TInv', NEW p \in Procs, NEW r, Becomes(p, r),
         proc[p].pc \in {"ready", "countersign"},
         UNCHANGED <<private, trusted, made, torn, skipped>>,
         r.pc \notin Holding, r.pc # "countersign",
         NEW e \in Records, e.key = proc[p].key,
         proc[p].op # "rotate" \/ proc[p].pc = "countersign",
         journal' = Append(journal, e) \/ journal' = <<e>>
  PROVE  KInv'
  <1>1. made \in Nat /\ PrivateIsMade /\ journal \in Seq(Records)
    BY DEF KInv, TInv, KeyTypeOK
  <1>2. \A i \in 1..Len(journal') :
          \/ \E h \in 1..Len(journal) :
               journal'[i].key = journal[h].key /\ journal'[i].type = journal[h].type
          \/ journal'[i].key = proc[p].key
    <2>1. CASE journal' = Append(journal, e)
      BY <1>1, <2>1, AppendShape
    <2>2. CASE journal' = <<e>>
      BY <2>2
    <2> QED
      BY <2>1, <2>2
  <1> QED
    BY <1>1, <1>2, KeyStep DEF PrivateIsMade, Holding

LEMMA EndRotationKeeps ==
  ASSUME KInv, NEW p \in Procs, EndRotation(p), UNCHANGED evars
  PROVE  KInv'
  <1>1. TInv /\ UNCHANGED <<private, trusted, made, torn, skipped, journal, written, local, stamped, latest>>
    BY DEF KInv, EndRotation, evars
  <1>2. Becomes(p, Idle) /\ Idle.pc = "idle" /\ proc[p].pc = "ready"
    BY <1>1, LeaveBecomes, IdleIsRecord DEF EndRotation
  <1>3. TInv'
    BY <1>1, <1>2, TypedStep DEF TInv, KeyTypeOK
  <1> QED
    BY <1>1, <1>2, <1>3, QuietKeeps DEF Holding

LEMMA StartKeeps ==
  ASSUME KInv, NEW p \in Procs, Start(p)
  PROVE  KInv'
  <1>1. /\ TInv /\ proc[p].pc = "idle"
        /\ UNCHANGED <<private, trusted, made, torn, skipped, journal, written, local, stamped, latest>>
    BY DEF KInv, Start
  <1>2. PICK r : Becomes(p, r) /\ r.pc \in {"load", "prior", "find"}
    BY <1>1, StartBecomes
  <1>3. TInv'
    BY <1>1, <1>2, TypedStep DEF TInv, KeyTypeOK
  <1> QED
    BY <1>1, <1>2, <1>3, QuietKeeps DEF Holding

LEMMA SignKeeps ==
  ASSUME KInv, NEW p \in Procs, Sign(p)
  PROVE  KInv'
  <1>1. /\ TInv /\ proc[p].pc = "ready" /\ proc[p].op = "sign"
        /\ UNCHANGED <<private, trusted, made, torn, skipped, local, stamped, latest>>
    BY DEF KInv, Sign, Ready
  <1>2. PICK e \in Records : journal' = Append(journal, e) /\ written' = written + 1 /\ e.key = proc[p].key
    BY <1>1, SignAppends
  <1>3. Becomes(p, Idle) /\ Idle.pc = "idle"
    BY <1>1, LeaveBecomes, IdleIsRecord DEF Sign
  <1>4. journal' \in Seq(Records) /\ written' \in Nat
    BY <1>1, <1>2, AppendShape DEF TInv
  <1>5. TInv'
    BY <1>1, <1>3, <1>4, TypedStep DEF TInv, KeyTypeOK
  <1> QED
    BY <1>1, <1>2, <1>3, <1>5, SigningKeeps DEF Holding

LEMMA RecordRotationKeeps ==
  ASSUME KInv, NEW p \in Procs, RecordRotation(p)
  PROVE  KInv'
  <1>1. /\ TInv /\ made \in Nat /\ proc[p].pc = "ready"
        /\ UNCHANGED <<private, trusted, torn, skipped, local, stamped, latest>>
    BY DEF KInv, TInv, KeyTypeOK, RecordRotation, Rotating
  <1>2. PICK r : Becomes(p, r) /\ r.pc = "truncate" /\ r.key = made'
    BY <1>1, NewKeyBecomes DEF RecordRotation
  <1>3. made' = made + 1 /\ made' \in Keys /\ made' \in 0..MaxKeys
    BY <1>1, NewKeyBecomes DEF RecordRotation
  <1>4. /\ journal' \in Seq(Records) /\ written' \in Nat
        /\ \A i \in 1..Len(journal') :
             \/ \E h \in 1..Len(journal) :
                  journal'[i].key = journal[h].key /\ journal'[i].type = journal[h].type
             \/ journal'[i].key = proc[p].key /\ journal'[i].type = "rotation"
    <2>1. CASE journal' = journal
      <3>1. written' \in Nat
        BY <1>1 DEF RecordRotation, Put, TInv
      <3> QED
        BY <1>1, <2>1, <3>1 DEF TInv
    <2>2. CASE journal' # journal
      <3>1. PICK e \in Records : /\ journal' = Append(journal, e) /\ written' = written + 1
                                 /\ e.key = proc[p].key /\ e.type = "rotation"
        BY <1>1, <2>2, RotationAppends
      <3> QED
        BY <1>1, <3>1, AppendShape DEF TInv
    <2> QED
      BY <2>1, <2>2
  <1>5. KeyTypeOK'
    BY <1>1, <1>3 DEF TInv, KeyTypeOK
  <1>6. TInv'
    BY <1>1, <1>2, <1>4, <1>5, TypedStep DEF TInv
  <1>7. private' \in Keys => private' <= made'
    BY <1>1, <1>3 DEF KInv, PrivateIsMade, Keys
  <1> QED
    BY <1>1, <1>2, <1>3, <1>4, <1>6, <1>7, KeyStep DEF Holding

LEMMA CheckpointKeeps ==
  ASSUME KInv, NEW p \in Procs, Checkpoint(p)
  PROVE  KInv'
  <1>1. /\ TInv /\ proc[p].pc = "ready" /\ proc[p].op = "witness"
        /\ UNCHANGED <<private, trusted, made, torn, skipped, local, stamped, latest>>
    BY DEF KInv, Checkpoint, Ready
  <1>2. PICK e \in Records : /\ journal' = Append(journal, e) /\ written' = written + 1
                             /\ e.key = proc[p].key
                             /\ \E r : Becomes(p, r) /\ r.pc = "clear" /\ r.file = {e}
    BY <1>1, CheckpointBecomes
  <1>3. PICK r : Becomes(p, r) /\ r.pc = "clear"
    BY <1>2
  <1>4. journal' \in Seq(Records) /\ written' \in Nat
    BY <1>1, <1>2, AppendShape DEF TInv
  <1>5. TInv'
    BY <1>1, <1>3, <1>4, TypedStep DEF TInv, KeyTypeOK
  <1> QED
    BY <1>1, <1>2, <1>3, <1>5, SigningKeeps DEF Holding

LEMMA WitnessKeeps ==
  ASSUME KInv, NEW p \in Procs,
         ClearLocal(p) \/ WriteLocal(p) \/ CopyWitness(p) \/ PlaceLatest(p)
  PROVE  KInv'
  <1>1. /\ TInv /\ UNCHANGED <<private, trusted, made, torn, skipped, journal, written, stamped>>
        /\ proc[p] \in ProcRecord /\ proc[p].pc # "enroll"
    BY DEF KInv, TInv, ClearLocal, WriteLocal, CopyWitness, PlaceLatest
  <1>2. local' \in WitnessFiles /\ latest' \in WitnessFiles
    BY <1>1 DEF TInv, ProcRecord, WitnessFiles, ClearLocal, WriteLocal, CopyWitness, PlaceLatest
  <1>3. \E r : Becomes(p, r) /\ r.pc \in {"local", "copy", "place", "idle"}
    <2>1. CASE ClearLocal(p)
      BY <1>1, <2>1, GotoBecomes DEF ClearLocal, Points
    <2>2. CASE WriteLocal(p)
      BY <1>1, <2>2, GotoBecomes DEF WriteLocal, Points
    <2>3. CASE CopyWitness(p)
      BY <1>1, <2>3, CopyBecomes
    <2>4. CASE PlaceLatest(p)
      BY <1>1, <2>4, LeaveBecomes, IdleIsRecord DEF PlaceLatest
    <2> QED
      BY <2>1, <2>2, <2>3, <2>4
  <1>4. PICK r : Becomes(p, r) /\ r.pc \in {"local", "copy", "place", "idle"}
    BY <1>3
  <1>5. TInv'
    BY <1>1, <1>2, <1>4, TypedStep DEF TInv, KeyTypeOK
  <1> QED
    BY <1>1, <1>4, <1>5, QuietKeeps DEF Holding

LEMMA PlaceWitnessKeeps ==
  ASSUME KInv, NEW p \in Procs, PlaceWitness(p)
  PROVE  KInv'
  <1>1. /\ TInv /\ UNCHANGED <<private, trusted, made, torn, skipped, journal, written, local, latest>>
        /\ proc[p].slot \in Nat /\ proc[p].file \in WitnessFiles /\ proc[p].pc = "place"
    BY DEF KInv, TInv, ProcRecord, PlaceWitness
  <1>2. PICK r : Becomes(p, r) /\ r.pc = "latest"
    BY <1>1, GotoBecomes DEF PlaceWitness, Points
  <1>3. stamped' = [n \in DOMAIN stamped \cup {proc[p].slot} |->
                      IF n = proc[p].slot THEN proc[p].file ELSE stamped[n]]
    BY DEF PlaceWitness
  <1>4. \E b \in Nat : DOMAIN stamped' \subseteq 0..b
    <2>1. PICK b \in Nat : DOMAIN stamped \subseteq 0..b
      BY <1>1 DEF TInv
    <2>2. DOMAIN stamped' \subseteq 0..(b + proc[p].slot) /\ b + proc[p].slot \in Nat
      BY <1>1, <1>3, <2>1
    <2> QED
      BY <2>2
  <1>5. \A n \in DOMAIN stamped' : stamped'[n] \in WitnessFiles
    BY <1>1, <1>3 DEF TInv
  <1>6. TInv'
    BY <1>1, <1>2, <1>4, <1>5, BecomesProc DEF TInv, KeyTypeOK
  <1> QED
    BY <1>1, <1>2, <1>6, QuietKeeps DEF Holding

LEMMA FindCheckpointKeeps ==
  ASSUME KInv, NEW p \in Procs, FindCheckpoint(p)
  PROVE  KInv'
  <1>1. /\ TInv /\ UNCHANGED <<private, trusted, made, torn, skipped, journal, written, local, stamped, latest>>
        /\ proc[p].pc = "find"
    BY DEF KInv, FindCheckpoint, evars
  <1>2. PICK r : /\ Becomes(p, r) /\ r.pc \in {"idle", "countersign"}
                 /\ r.pc = "countersign" => r.key = CounterKey
    <2>1. CASE Leave(p)
      BY <1>1, <2>1, LeaveBecomes, IdleIsRecord
    <2>2. CASE ~Leave(p)
      BY <1>1, <2>2, FindBecomes
    <2> QED
      BY <2>1, <2>2
  <1>3. TInv'
    BY <1>1, <1>2, TypedStep DEF TInv, KeyTypeOK
  <1> QED
    BY <1>1, <1>2, <1>3, QuietKeeps DEF Holding

LEMMA CountersignKeeps ==
  ASSUME KInv, NEW p \in Procs, Countersign(p)
  PROVE  KInv'
  <1>1. /\ TInv /\ UNCHANGED <<private, trusted, made, torn, skipped, local, stamped, latest>>
        /\ proc[p].pc = "countersign"
    BY DEF KInv, Countersign
  <1>2. PICK e \in Records : journal' = Append(journal, e) /\ written' = written + 1 /\ e.key = proc[p].key
    BY <1>1, CountersignAppends
  <1>3. Becomes(p, Idle) /\ Idle.pc = "idle"
    BY <1>1, LeaveBecomes, IdleIsRecord DEF Countersign
  <1>4. journal' \in Seq(Records) /\ written' \in Nat
    BY <1>1, <1>2, AppendShape DEF TInv
  <1>5. TInv'
    BY <1>1, <1>3, <1>4, TypedStep DEF TInv, KeyTypeOK
  <1> QED
    BY <1>1, <1>2, <1>3, <1>5, SigningKeeps DEF Holding

LEMMA ArchiveKeeps ==
  ASSUME KInv, NEW p \in Procs, Archive(p)
  PROVE  KInv'
  <1>1. /\ TInv /\ UNCHANGED <<private, trusted, made, torn, skipped, local, stamped, latest>>
        /\ proc[p].pc = "ready" /\ proc[p].op = "archive"
    BY DEF KInv, Archive, Ready
  <1>2. PICK e \in Records : journal' = <<e>> /\ written' = written + 1 /\ e.key = proc[p].key
    BY <1>1, ArchiveStarts
  <1>3. Becomes(p, Idle) /\ Idle.pc = "idle"
    BY <1>1, LeaveBecomes, IdleIsRecord DEF Archive
  <1>4. journal' \in Seq(Records) /\ written' \in Nat
    BY <1>1, <1>2 DEF TInv
  <1>5. TInv'
    BY <1>1, <1>3, <1>4, TypedStep DEF TInv, KeyTypeOK
  <1> QED
    BY <1>1, <1>2, <1>3, <1>5, SigningKeeps DEF Holding

LEMMA PruneKeeps ==
  ASSUME KInv, Prune
  PROVE  KInv'
  <1>1. /\ TInv /\ UNCHANGED <<private, trusted, made, torn, skipped, proc, journal, written, local, latest>>
    BY DEF KInv, Prune
  <1>2. DOMAIN stamped' \subseteq DOMAIN stamped /\ \A n \in DOMAIN stamped' : stamped'[n] = stamped[n]
    BY DEF Prune
  <1>3. TInv'
    BY <1>1, <1>2 DEF TInv, KeyTypeOK
  <1> QED
    BY <1>1, <1>3 DEF KInv, PrivateIsMade, HeldIsMade, ReadyIsTrusted, Outgoing, CountersignerIsExternal,
       SignedIsKnown, TornHasWriter

LEMMA LoseCuts ==
  ASSUME TInv, Lose
  PROVE  /\ UNCHANGED <<private, trusted, made, torn, skipped, proc, written, local, stamped, latest>>
         /\ journal' \in Seq(Records) /\ Len(journal') \in Nat /\ Len(journal') <= Len(journal)
         /\ \A i \in 1..Len(journal') : journal'[i] = journal[i]
  <1>1. PICK n \in 0..(Len(journal) - 1) : journal' = SubSeq(journal, 1, n)
    BY DEF Lose
  <1>2. journal \in Seq(Records) /\ n \in Nat /\ n <= Len(journal) /\ Len(journal) \in Nat
    BY <1>1 DEF TInv
  <1>3. journal' \in Seq(Records) /\ Len(journal') = n /\ \A i \in 1..n : journal'[i] = journal[i]
    BY <1>1, <1>2
  <1> QED
    BY <1>2, <1>3 DEF Lose

LEMMA LoseKeeps ==
  ASSUME KInv, Lose
  PROVE  KInv'
  <1>1. TInv /\ UNCHANGED <<private, trusted, made, torn, skipped, proc, written, local, stamped, latest>>
    BY DEF KInv, Lose
  <1>2. /\ journal' \in Seq(Records) /\ Len(journal') \in Nat /\ Len(journal') <= Len(journal)
        /\ \A i \in 1..Len(journal') : journal'[i] = journal[i]
    BY <1>1, LoseCuts
  <1>3. TInv'
    BY <1>1, <1>2 DEF TInv, KeyTypeOK
  <1>4. Len(journal) \in Nat
    BY <1>1 DEF TInv
  <1>5. SignedIsKnown'
    BY <1>1, <1>2, <1>4 DEF KInv, SignedIsKnown
  <1> QED
    BY <1>1, <1>3, <1>5 DEF KInv, PrivateIsMade, HeldIsMade, ReadyIsTrusted, Outgoing, CountersignerIsExternal,
       TornHasWriter

LEMMA KeyInduction == KInv /\ [Next]_vars => KInv'
  <1> SUFFICES ASSUME KInv, [Next]_vars PROVE KInv'
    OBVIOUS
  <1>1. ASSUME NEW p \in Procs, IdentityStep(p), UNCHANGED evars PROVE KInv'
    BY <1>1, LoadKeyKeeps, TruncateKeyKeeps, WriteKeyKeeps, RegisterKeeps, OpenTrustedKeeps,
       EnrollKeeps, ReadPriorKeeps, SkipPriorKeeps, EndRotationKeeps, KillKeeps DEF IdentityStep
  <1>2. ASSUME NEW p \in Procs,
               \/ Start(p) \/ Sign(p) \/ RecordRotation(p) \/ Checkpoint(p)
               \/ ClearLocal(p) \/ WriteLocal(p) \/ CopyWitness(p) \/ PlaceWitness(p) \/ PlaceLatest(p)
               \/ FindCheckpoint(p) \/ Countersign(p) \/ Archive(p)
        PROVE KInv'
    BY <1>2, StartKeeps, SignKeeps, RecordRotationKeeps, CheckpointKeeps, WitnessKeeps,
       PlaceWitnessKeeps, FindCheckpointKeeps, CountersignKeeps, ArchiveKeeps
  <1>3. CASE Prune \/ Lose
    BY <1>3, PruneKeeps, LoseKeeps
  <1>4. CASE UNCHANGED vars
    BY <1>4 DEF vars, evars, KInv, TInv, KeyTypeOK, PrivateIsMade, HeldIsMade, ReadyIsTrusted, Outgoing,
       CountersignerIsExternal, SignedIsKnown, TornHasWriter
  <1> QED
    BY <1>1, <1>2, <1>3, <1>4 DEF Next

(* However keys are made, loaded and rotated at once and cut short, what   *)
(* stands in the journal was signed by a key whose trusted file is whole,  *)
(* unless a writer is at it or was cut short at it; only the record of a   *)
(* rotation can be signed by a key that has none, and only if registering  *)
(* it failed (load_or_create, rotate_key).                                 *)
THEOREM SignedAlwaysTrusted == Spec => []SignedIsTrusted
  <1>1. KInv => SignedIsTrusted
    <2> SUFFICES ASSUME KInv, NEW i \in DOMAIN journal,
                        journal[i].key # CounterKey, journal[i].key \notin torn
                 PROVE  \/ trusted[journal[i].key] = "whole"
                        \/ \E p \in Procs : proc[p].pc = "enroll" /\ proc[p].key = journal[i].key
                        \/ /\ journal[i].type = "rotation" /\ journal[i].key \in skipped
                           /\ trusted[journal[i].key] = "absent"
      BY DEF SignedIsTrusted
    <2>1. i \in 1..Len(journal)
      BY DEF KInv, TInv
    <2>2. /\ journal[i].key \in Keys
          /\ \/ trusted[journal[i].key] # "absent"
             \/ journal[i].type = "rotation" /\ journal[i].key \in skipped
      BY <2>1 DEF KInv, SignedIsKnown
    <2>3. trusted[journal[i].key] \in {"absent", "torn", "whole"}
      BY <2>2 DEF KInv, TInv, KeyTypeOK
    <2> QED
      BY <2>2, <2>3 DEF KInv, TornHasWriter
  <1> QED
    BY <1>1, KeyInitially, KeyInduction, PTL DEF Spec

-----------------------------------------------------------------------------
(* The journal. What makes JournalVerifies inductive: ids grow, events are *)
(* chained, and what a countersigner holds is still what the journal says, *)
(* if the journal still says anything about it.                            *)

Ordered ==
  /\ \A i \in 1..Len(journal) : journal[i].id \in 1..written
  /\ \A h, i \in 1..Len(journal) : h < i => journal[h].id < journal[i].id

Chained ==
  \A i \in 1..Len(journal) : journal[i].prev = IF i = 1 THEN 0 ELSE journal[i - 1].id

\* What an event in place i says of itself and of the file before it.
Consistent(e, i) ==
  /\ e.type = "checkpoint" => e.head = e.prev /\ e.count = i - 1
  /\ e.type = "archive" => e.prev = 0 /\ e.count >= 1
  /\ e.type = "rotation" => e.ref = e.key /\ e.ref # e.successor

AllConsistent == \A i \in 1..Len(journal) : Consistent(journal[i], i)

Countersigned ==
  \A i \in 1..Len(journal) : journal[i].type = "countersignature" =>
    /\ \A h \in 1..(i - 1) : journal[h].type = "checkpoint" /\ journal[h].id = journal[i].ref =>
         journal[h].count = journal[i].count /\ journal[h].head = journal[i].head
    /\ "uprooted" \notin disturbed =>
         \E h \in 1..(i - 1) : journal[h].type = "checkpoint" /\ journal[h].id = journal[i].ref

FoundStands ==
  \A p \in Procs : proc[p].pc = "countersign" =>
    \A c \in proc[p].file :
      /\ c.id <= written
      /\ \A i \in 1..Len(journal) : journal[i].id = c.id => journal[i] = c
      /\ "uprooted" \notin disturbed => \E i \in 1..Len(journal) : journal[i] = c

VInv == KInv /\ Ordered /\ Chained /\ AllConsistent /\ Countersigned /\ FoundStands

\* Who is at countersigning after a step was there before, with what it found.
SamePending ==
  \A q \in Procs : proc'[q].pc = "countersign" =>
    proc[q].pc = "countersign" /\ proc'[q].file = proc[q].file

LEMMA EventsAreRecords ==
  ASSUME VInv
  PROVE  /\ Len(journal) \in Nat /\ written \in Nat /\ journal \in Seq(Records)
         /\ \A i \in 1..Len(journal) : journal[i] \in Records /\ journal[i].id \in Nat
  <1>1. journal \in Seq(Records) /\ written \in Nat
    BY DEF VInv, KInv, TInv
  <1>2. Len(journal) \in Nat /\ \A i \in 1..Len(journal) : journal[i] \in Records
    BY <1>1
  <1> QED
    BY <1>1, <1>2 DEF Records

LEMMA FoundAreRecords ==
  ASSUME VInv, NEW p \in Procs, NEW c \in proc[p].file
  PROVE  c \in Records /\ c.id \in Nat /\ c.type = "checkpoint"
  BY DEF VInv, KInv, TInv, ProcRecord, WitnessFiles, Records

\* The journal is left alone; a countersigner may have found a checkpoint in it.
LEMMA UntouchedVerifies ==
  ASSUME VInv, KInv', journal' = journal, written <= written', disturbed \subseteq disturbed',
         \A q \in Procs : proc'[q].pc = "countersign" =>
           \/ proc[q].pc = "countersign" /\ proc'[q].file = proc[q].file
           \/ \E i \in 1..Len(journal) : proc'[q].file = {journal[i]}
  PROVE  VInv'
  <1>1. /\ Len(journal) \in Nat /\ written \in Nat /\ written' \in Nat
        /\ \A i \in 1..Len(journal) : journal[i].id \in Nat
    BY EventsAreRecords DEF KInv, TInv
  <1>2. Ordered'
    BY <1>1 DEF VInv, Ordered
  <1>3. Chained' /\ AllConsistent'
    BY DEF VInv, Chained, AllConsistent, Consistent
  <1>4. Countersigned'
    BY DEF VInv, Countersigned
  <1>5. FoundStands'
    <2> SUFFICES ASSUME NEW q \in Procs, proc'[q].pc = "countersign", NEW c \in proc'[q].file
                 PROVE  /\ c.id <= written'
                        /\ \A i \in 1..Len(journal) : journal[i].id = c.id => journal[i] = c
                        /\ "uprooted" \notin disturbed' => \E i \in 1..Len(journal) : journal[i] = c
      BY DEF FoundStands
    <2>1. CASE proc[q].pc = "countersign" /\ proc'[q].file = proc[q].file
      <3>1. c.id \in Nat
        BY <2>1, FoundAreRecords
      <3> QED
        BY <1>1, <2>1, <3>1 DEF VInv, FoundStands
    <2>2. CASE \E i \in 1..Len(journal) : proc'[q].file = {journal[i]}
      <3>1. PICK i \in 1..Len(journal) : c = journal[i]
        BY <2>2
      <3>2. \A h \in 1..Len(journal) : journal[h].id = journal[i].id => h = i
        BY <1>1 DEF VInv, Ordered
      <3>3. journal[i].id <= written'
        BY <1>1 DEF VInv, Ordered
      <3> QED
        BY <3>1, <3>2, <3>3
    <2> QED
      BY <2>1, <2>2
  <1> QED
    BY <1>2, <1>3, <1>4, <1>5 DEF VInv

\* An event takes the next id, the last event's as its predecessor, and says
\* what is so; a countersignature repeats a checkpoint that was found.
LEMMA AppendVerifies ==
  ASSUME VInv, KInv', NEW e \in Records,
         journal' = Append(journal, e), written' = written + 1, disturbed' = disturbed, SamePending,
         e.id = written + 1, e.prev = HeadId(journal), Consistent(e, Len(journal) + 1),
         e.type = "countersignature" =>
           \E q \in Procs : /\ proc[q].pc = "countersign"
                            /\ \E c \in proc[q].file : e.ref = c.id /\ e.count = c.count /\ e.head = c.head
  PROVE  VInv'
  <1>1. /\ Len(journal) \in Nat /\ written \in Nat /\ journal \in Seq(Records)
        /\ \A i \in 1..Len(journal) : journal[i].id \in Nat
    BY EventsAreRecords
  <1>2. PICK m \in Nat : m = Len(journal)
    BY <1>1
  <1>3. /\ Len(journal') = m + 1 /\ journal'[m + 1] = e
        /\ \A i \in 1..m : journal'[i] = journal[i]
    BY <1>1, <1>2, AppendShape
  <1>4. \A i \in 1..(m + 1) : i \in 1..m \/ i = m + 1
    BY <1>2
  <1>5. Ordered'
    BY <1>1, <1>2, <1>3, <1>4 DEF VInv, Ordered
  <1>6. Chained'
    <2>1. e.prev = IF m + 1 = 1 THEN 0 ELSE journal[m].id
      BY <1>1, <1>2, HeadIsLast
    <2>2. ASSUME NEW i \in 1..(m + 1)
          PROVE  journal'[i].prev = IF i = 1 THEN 0 ELSE journal'[i - 1].id
      <3>1. CASE i \in 1..m
        <4>1. journal'[i] = journal[i] /\ i # 1 => journal'[i - 1] = journal[i - 1]
          BY <1>2, <1>3, <3>1
        <4>2. journal[i].prev = IF i = 1 THEN 0 ELSE journal[i - 1].id
          BY <1>2, <3>1 DEF VInv, Chained
        <4> QED
          BY <1>2, <1>3, <3>1, <4>1, <4>2
      <3>2. CASE i = m + 1
        <4>1. journal'[i] = e /\ (i # 1 => journal'[i - 1] = journal[m])
          BY <1>2, <1>3, <3>2
        <4> QED
          BY <2>1, <3>2, <4>1
      <3> QED
        BY <1>4, <3>1, <3>2
    <2> QED
      BY <1>3, <2>2 DEF Chained
  <1>7. AllConsistent'
    BY <1>2, <1>3, <1>4 DEF VInv, AllConsistent, Consistent
  <1>8. Countersigned'
    <2> SUFFICES ASSUME NEW i \in 1..(m + 1), journal'[i].type = "countersignature"
                 PROVE  /\ \A h \in 1..(i - 1) :
                             journal'[h].type = "checkpoint" /\ journal'[h].id = journal'[i].ref =>
                               journal'[h].count = journal'[i].count /\ journal'[h].head = journal'[i].head
                        /\ "uprooted" \notin disturbed =>
                             \E h \in 1..(i - 1) :
                               journal'[h].type = "checkpoint" /\ journal'[h].id = journal'[i].ref
      BY <1>3 DEF Countersigned
    <2>1. \A h \in 1..(i - 1) : h \in 1..m /\ journal'[h] = journal[h]
      BY <1>2, <1>3
    <2>2. CASE i \in 1..m
      BY <1>2, <1>3, <2>1, <2>2 DEF VInv, Countersigned
    <2>3. CASE i = m + 1
      <3>1. PICK q \in Procs : /\ proc[q].pc = "countersign"
                               /\ \E c \in proc[q].file : e.ref = c.id /\ e.count = c.count /\ e.head = c.head
        BY <1>3, <2>3
      <3>2. PICK c \in proc[q].file : e.ref = c.id /\ e.count = c.count /\ e.head = c.head
        BY <3>1
      <3>3. c.type = "checkpoint"
        BY FoundAreRecords
      <3>4. /\ \A h \in 1..m : journal[h].id = c.id => journal[h] = c
            /\ "uprooted" \notin disturbed => \E h \in 1..m : journal[h] = c
        BY <1>2, <3>1 DEF VInv, FoundStands
      <3> QED
        BY <1>2, <1>3, <2>1, <2>3, <3>2, <3>3, <3>4
    <2> QED
      BY <1>4, <2>2, <2>3
  <1>9. FoundStands'
    <2> SUFFICES ASSUME NEW q \in Procs, proc[q].pc = "countersign", NEW c \in proc[q].file
                 PROVE  /\ c.id <= written + 1
                        /\ \A i \in 1..(m + 1) : journal'[i].id = c.id => journal'[i] = c
                        /\ "uprooted" \notin disturbed => \E i \in 1..(m + 1) : journal'[i] = c
      BY <1>3 DEF FoundStands, SamePending
    <2>1. c.id \in Nat /\ c.id <= written
      BY FoundAreRecords DEF VInv, FoundStands
    <2>2. /\ \A i \in 1..m : journal[i].id = c.id => journal[i] = c
          /\ "uprooted" \notin disturbed => \E i \in 1..m : journal[i] = c
      BY <1>2 DEF VInv, FoundStands
    <2> QED
      BY <1>1, <1>2, <1>3, <1>4, <2>1, <2>2
  <1> QED
    BY <1>5, <1>6, <1>7, <1>8, <1>9 DEF VInv

\* An archive leaves nothing but its link, and whoever was countersigning
\* holds a checkpoint of another file.
LEMMA ArchivedVerifies ==
  ASSUME VInv, KInv', NEW e \in Records, journal' = <<e>>, written' = written + 1, SamePending,
         e.id = written + 1, e.type = "archive", e.prev = 0, e.count >= 1,
         "uprooted" \notin disturbed' => ~Countersigning
  PROVE  VInv'
  <1>1. written \in Nat
    BY EventsAreRecords
  <1>2. Len(journal') = 1 /\ journal'[1] = e /\ \A i \in 1..1 : i = 1
    OBVIOUS
  <1>3. Ordered'
    BY <1>1, <1>2 DEF Ordered
  <1>4. Chained'
    BY <1>2 DEF Chained
  <1>5. AllConsistent'
    BY <1>2 DEF AllConsistent, Consistent
  <1>6. Countersigned'
    BY <1>2 DEF Countersigned
  <1>7. FoundStands'
    <2> SUFFICES ASSUME NEW q \in Procs, proc[q].pc = "countersign", NEW c \in proc[q].file
                 PROVE  /\ c.id <= written + 1
                        /\ e.id = c.id => e = c
                        /\ "uprooted" \in disturbed'
      BY <1>2 DEF FoundStands, SamePending
    <2>1. c.id \in Nat /\ c.id <= written
      BY FoundAreRecords DEF VInv, FoundStands
    <2> QED
      BY <1>1, <2>1 DEF Countersigning
  <1> QED
    BY <1>3, <1>4, <1>5, <1>6, <1>7 DEF VInv

\* What is left of a journal verifies; its checkpoint may be gone for whoever
\* is about to countersign it.
LEMMA CutVerifies ==
  ASSUME VInv, KInv', Lose
  PROVE  VInv'
  <1>1. UNCHANGED <<proc, written>>
    BY DEF Lose
  <1>2. /\ Len(journal') \in Nat /\ Len(journal') <= Len(journal)
        /\ \A i \in 1..Len(journal') : journal'[i] = journal[i]
    BY LoseCuts DEF VInv, KInv
  <1>3. Len(journal) \in Nat
    BY EventsAreRecords
  <1>4. PICK n \in Nat : n = Len(journal')
    BY <1>2
  <1>5. \A i \in 1..n : /\ i \in 1..Len(journal) /\ journal'[i] = journal[i]
                        /\ i # 1 => journal'[i - 1] = journal[i - 1]
                        /\ \A h \in 1..(i - 1) : h \in 1..n
    BY <1>2, <1>3, <1>4
  <1>6. disturbed' = disturbed \cup (IF Countersigning THEN {"uprooted"} ELSE {})
    BY DEF Lose
  <1>7. Ordered' /\ AllConsistent'
    BY <1>1, <1>4, <1>5 DEF VInv, Ordered, AllConsistent, Consistent
  <1>8. Chained'
    BY <1>4, <1>5 DEF VInv, Chained
  <1>9. Countersigned'
    <2> SUFFICES ASSUME NEW i \in 1..n, journal'[i].type = "countersignature"
                 PROVE  /\ \A h \in 1..(i - 1) :
                             journal'[h].type = "checkpoint" /\ journal'[h].id = journal'[i].ref =>
                               journal'[h].count = journal'[i].count /\ journal'[h].head = journal'[i].head
                        /\ "uprooted" \notin disturbed' =>
                             \E h \in 1..(i - 1) :
                               journal'[h].type = "checkpoint" /\ journal'[h].id = journal'[i].ref
      BY <1>4 DEF Countersigned
    <2>1. journal'[i] = journal[i] /\ i \in 1..Len(journal)
      BY <1>5
    <2>2. \A h \in 1..(i - 1) : journal'[h] = journal[h]
      BY <1>5
    <2> QED
      BY <1>6, <2>1, <2>2 DEF VInv, Countersigned
  <1>10. FoundStands'
    BY <1>1, <1>4, <1>5, <1>6 DEF VInv, FoundStands, Countersigning
  <1> QED
    BY <1>7, <1>8, <1>9, <1>10 DEF VInv

LEMMA PendingSame ==
  ASSUME TInv, NEW p \in Procs, NEW r, Becomes(p, r), r.pc # "countersign"
  PROVE  SamePending
  BY BecomesProc DEF SamePending

LEMMA IdentityPending ==
  ASSUME TInv, NEW p \in Procs, IdentityStep(p)
  PROVE  SamePending
  <1>1. proc[p] \in ProcRecord /\ proc \in [Procs -> ProcRecord]
    BY DEF TInv
  <1>2. proc'[p].pc # "countersign" /\ \A q \in Procs : q # p => proc'[q] = proc[q]
    <2>1. CASE LoadKey(p)
      <3>1. CASE proc' = [proc EXCEPT ![p] = [@ EXCEPT !.key = private, !.pc = "register"]]
        BY <1>1, <3>1 DEF ProcRecord
      <3>2. CASE Leave(p)
        BY <1>1, <3>2 DEF Leave, Idle
      <3>3. CASE WithNewKey(p, "truncate")
        BY <1>1, <3>3 DEF WithNewKey, ProcRecord
      <3> QED
        BY <2>1, <3>1, <3>2, <3>3 DEF LoadKey
    <2>2. CASE ReadPrior(p)
      BY <1>1, <2>2 DEF ReadPrior, WithNewKey, ProcRecord
    <2>3. CASE TruncateKey(p) \/ WriteKey(p) \/ Register(p) \/ OpenTrusted(p) \/ Enroll(p) \/ SkipPrior(p)
      BY <1>1, <2>3 DEF TruncateKey, WriteKey, Register, OpenTrusted, Enroll, SkipPrior, Goto, ProcRecord
    <2>4. CASE EndRotation(p) \/ Kill(p)
      BY <1>1, <2>4 DEF EndRotation, Kill, Leave, Idle
    <2> QED
      BY <2>1, <2>2, <2>3, <2>4 DEF IdentityStep
  <1> QED
    BY <1>2 DEF SamePending

LEMMA VerifyInitially == Init => VInv
  <1> SUFFICES ASSUME Init PROVE VInv
    OBVIOUS
  <1>1. KInv
    BY KeyInitially
  <1>2. Len(journal) = 0 /\ \A p \in Procs : proc[p].pc = "idle"
    BY DEF Init, KeyInit, Idle
  <1> QED
    BY <1>1, <1>2 DEF VInv, Ordered, Chained, AllConsistent, Countersigned, FoundStands

LEMMA CommandVerifies ==
  ASSUME VInv, KInv', NEW p \in Procs,
         Sign(p) \/ RecordRotation(p) \/ Checkpoint(p) \/ Countersign(p) \/ Archive(p)
  PROVE  VInv'
  <1>1. /\ TInv /\ KInv /\ journal \in Seq(Records) /\ Len(journal) \in Nat /\ written \in Nat
        /\ made \in Nat
    BY EventsAreRecords DEF VInv, KInv, TInv, KeyTypeOK
  <1>2. CASE Sign(p)
    <2>1. PICK e \in Records :
            /\ journal' = Append(journal, e) /\ written' = written + 1
            /\ e.type = "event" /\ e.id = written + 1 /\ e.prev = HeadId(journal)
      BY <1>1, <1>2, SignAppends
    <2>2. SamePending /\ disturbed' = disturbed
      BY <1>1, <1>2, LeaveBecomes, IdleIsRecord, PendingSame DEF Sign
    <2>3. Consistent(e, Len(journal) + 1)
      BY <2>1 DEF Consistent
    <2> QED
      BY <2>1, <2>2, <2>3, AppendVerifies
  <1>3. CASE RecordRotation(p)
    <2>1. proc[p].key \in Nat /\ proc[p].key <= made
      BY <1>1, <1>3 DEF KInv, HeldIsMade, Holding, RecordRotation, Rotating, Keys
    <2>2. PICK r : Becomes(p, r) /\ r.pc = "truncate"
      BY <1>1, <1>3, NewKeyBecomes DEF RecordRotation
    <2>3. SamePending /\ disturbed' = disturbed
      BY <1>1, <1>3, <2>2, PendingSame DEF RecordRotation
    <2>4. CASE journal' = journal
      <3>1. written <= written'
        BY <1>1, <1>3 DEF RecordRotation, Put
      <3> QED
        BY <2>3, <2>4, <3>1, UntouchedVerifies DEF SamePending
    <2>5. CASE journal' # journal
      <3>1. PICK e \in Records :
              /\ journal' = Append(journal, e) /\ written' = written + 1
              /\ e.type = "rotation" /\ e.id = written + 1 /\ e.prev = HeadId(journal)
              /\ e.ref = proc[p].key /\ e.key = proc[p].key /\ e.successor = made + 1
        BY <1>1, <1>3, <2>5, RotationAppends
      <3>2. Consistent(e, Len(journal) + 1)
        BY <1>1, <2>1, <3>1 DEF Consistent
      <3> QED
        BY <2>3, <3>1, <3>2, AppendVerifies
    <2> QED
      BY <2>4, <2>5
  <1>4. CASE Checkpoint(p)
    <2>1. PICK e \in Records :
            /\ journal' = Append(journal, e) /\ written' = written + 1
            /\ e.type = "checkpoint" /\ e.id = written + 1 /\ e.prev = HeadId(journal)
            /\ e.head = HeadId(journal) /\ e.count = Len(journal)
            /\ \E r : Becomes(p, r) /\ r.pc = "clear" /\ r.file = {e}
      BY <1>1, <1>4, CheckpointBecomes
    <2>2. PICK r : Becomes(p, r) /\ r.pc = "clear"
      BY <2>1
    <2>3. SamePending /\ disturbed' = disturbed
      BY <1>1, <1>4, <2>2, PendingSame DEF Checkpoint
    <2>4. Consistent(e, Len(journal) + 1)
      BY <1>1, <2>1 DEF Consistent
    <2> QED
      BY <2>1, <2>3, <2>4, AppendVerifies
  <1>5. CASE Countersign(p)
    <2>1. PICK c \in Records, e \in Records :
            /\ proc[p].file = {c} /\ journal' = Append(journal, e) /\ written' = written + 1
            /\ e.type = "countersignature" /\ e.id = written + 1 /\ e.prev = HeadId(journal)
            /\ e.ref = c.id /\ e.count = c.count /\ e.head = c.head
      BY <1>1, <1>5, CountersignAppends
    <2>2. SamePending /\ disturbed' = disturbed
      BY <1>1, <1>5, LeaveBecomes, IdleIsRecord, PendingSame DEF Countersign
    <2>3. Consistent(e, Len(journal) + 1)
      BY <2>1 DEF Consistent
    <2>4. /\ proc[p].pc = "countersign"
          /\ \E d \in proc[p].file : e.ref = d.id /\ e.count = d.count /\ e.head = d.head
      BY <1>5, <2>1 DEF Countersign
    <2> QED
      BY <2>1, <2>2, <2>3, <2>4, AppendVerifies
  <1>6. CASE Archive(p)
    <2>1. PICK e \in Records :
            /\ journal' = <<e>> /\ written' = written + 1
            /\ e.type = "archive" /\ e.id = written + 1 /\ e.prev = 0 /\ e.count >= 1
      BY <1>1, <1>6, ArchiveStarts
    <2>2. SamePending
      BY <1>1, <1>6, LeaveBecomes, IdleIsRecord, PendingSame DEF Archive
    <2>3. "uprooted" \notin disturbed' => ~Countersigning
      BY <1>6 DEF Archive
    <2> QED
      BY <2>1, <2>2, <2>3, ArchivedVerifies
  <1> QED
    BY <1>2, <1>3, <1>4, <1>5, <1>6

LEMMA QuietVerifies ==
  ASSUME VInv, KInv', NEW p \in Procs,
         \/ Start(p) \/ ClearLocal(p) \/ WriteLocal(p) \/ CopyWitness(p)
         \/ PlaceWitness(p) \/ PlaceLatest(p)
  PROVE  VInv'
  <1>1. TInv /\ written \in Nat
    BY DEF VInv, KInv, TInv
  <1>2. PICK r : Becomes(p, r) /\ r.pc # "countersign"
    <2>1. CASE Start(p)
      BY <1>1, <2>1, StartBecomes
    <2>2. CASE ClearLocal(p)
      BY <1>1, <2>2, GotoBecomes DEF ClearLocal, Points
    <2>3. CASE WriteLocal(p)
      BY <1>1, <2>3, GotoBecomes DEF WriteLocal, Points
    <2>4. CASE CopyWitness(p)
      BY <1>1, <2>4, CopyBecomes
    <2>5. CASE PlaceWitness(p)
      BY <1>1, <2>5, GotoBecomes DEF PlaceWitness, Points
    <2>6. CASE PlaceLatest(p)
      BY <1>1, <2>6, LeaveBecomes, IdleIsRecord DEF PlaceLatest
    <2> QED
      BY <2>1, <2>2, <2>3, <2>4, <2>5, <2>6
  <1>3. SamePending
    BY <1>1, <1>2, PendingSame
  <1>4. journal' = journal /\ written <= written' /\ disturbed \subseteq disturbed'
    <2>1. CASE Start(p)
      <3>1. journal' = journal /\ written' = written
        BY <2>1 DEF Start
      <3>2. PICK op \in Commands :
              disturbed' = IF op = "witness" /\ \E q \in Procs : proc[q].op = "witness"
                           THEN disturbed \cup {"overlap"} ELSE disturbed
        BY <2>1 DEF Start
      <3>3. disturbed \subseteq disturbed'
        BY <3>2
      <3> QED
        BY <1>1, <3>1, <3>3
    <2>2. CASE ~Start(p)
      BY <1>1, <2>2 DEF ClearLocal, WriteLocal, CopyWitness, PlaceWitness, PlaceLatest
    <2> QED
      BY <2>1, <2>2
  <1> QED
    BY <1>3, <1>4, UntouchedVerifies DEF SamePending

LEMMA FindVerifies ==
  ASSUME VInv, KInv', NEW p \in Procs, FindCheckpoint(p)
  PROVE  VInv'
  <1>1. /\ TInv /\ journal' = journal /\ written <= written' /\ disturbed \subseteq disturbed'
    BY DEF VInv, KInv, TInv, FindCheckpoint, evars
  <1>2. CASE Leave(p)
    BY <1>1, <1>2, LeaveBecomes, IdleIsRecord, PendingSame, UntouchedVerifies DEF SamePending
  <1>3. CASE ~Leave(p)
    <2>1. PICK i \in 1..Len(journal) : \E r : Becomes(p, r) /\ r.file = {journal[i]}
      BY <1>1, <1>3, FindBecomes
    <2>2. proc'[p].file = {journal[i]} /\ \A q \in Procs : q # p => proc'[q] = proc[q]
      BY <1>1, <2>1, BecomesProc
    <2> QED
      BY <1>1, <2>2, UntouchedVerifies
  <1> QED
    BY <1>2, <1>3

LEMMA VerifyInduction == VInv /\ [Next]_vars => VInv'
  <1> SUFFICES ASSUME VInv, [Next]_vars PROVE VInv'
    OBVIOUS
  <1>1. TInv /\ KInv' /\ written \in Nat
    BY KeyInduction DEF VInv, KInv, TInv
  <1>2. ASSUME NEW p \in Procs, IdentityStep(p), UNCHANGED evars PROVE VInv'
    <2>1. journal' = journal /\ written <= written' /\ disturbed \subseteq disturbed'
      BY <1>1, <1>2 DEF evars
    <2> QED
      BY <1>1, <1>2, <2>1, IdentityPending, UntouchedVerifies DEF SamePending
  <1>3. ASSUME NEW p \in Procs,
               \/ Start(p) \/ ClearLocal(p) \/ WriteLocal(p) \/ CopyWitness(p)
               \/ PlaceWitness(p) \/ PlaceLatest(p) \/ FindCheckpoint(p)
        PROVE VInv'
    BY <1>1, <1>3, QuietVerifies, FindVerifies
  <1>4. ASSUME NEW p \in Procs,
               Sign(p) \/ RecordRotation(p) \/ Checkpoint(p) \/ Countersign(p) \/ Archive(p)
        PROVE VInv'
    BY <1>1, <1>4, CommandVerifies
  <1>5. CASE Prune
    BY <1>1, <1>5, UntouchedVerifies DEF Prune
  <1>6. CASE Lose
    BY <1>1, <1>6, CutVerifies
  <1>7. CASE UNCHANGED vars
    BY <1>1, <1>7, UntouchedVerifies DEF vars, evars
  <1> QED
    BY <1>2, <1>3, <1>4, <1>5, <1>6, <1>7 DEF Next

\* The events before place i end in its predecessor.
LEMMA HeadOfPrefix ==
  ASSUME NEW j \in Seq(Records), NEW i \in 1..Len(j)
  PROVE  HeadId(SubSeq(j, 1, i - 1)) = IF i = 1 THEN 0 ELSE j[i - 1].id
  <1>1. PICK s : s = SubSeq(j, 1, i - 1)
    OBVIOUS
  <1>2. s \in Seq(Records) /\ Len(s) = i - 1 /\ \A h \in 1..(i - 1) : s[h] = j[h]
    BY <1>1
  <1>3. CASE i = 1
    <2>1. s = << >>
      BY <1>2, <1>3
    <2> QED
      BY <1>1, <1>3, <2>1 DEF HeadId
  <1>4. CASE i # 1
    <2>1. Len(s) \in 1..(i - 1) /\ s # << >>
      BY <1>2, <1>4
    <2>2. HeadId(s) = s[Len(s)].id
      BY <1>2, <2>1, HeadIsLast
    <2> QED
      BY <1>1, <1>2, <1>4, <2>1, <2>2
  <1> QED
    BY <1>3, <1>4

\* A journal's own newest checkpoint never counts more than the journal has.
LEMMA CoversItself ==
  ASSUME VInv
  PROVE  Coverage(journal, {}) = {}
  <1>1. journal \in Seq(Records) /\ Len(journal) \in Nat
    BY EventsAreRecords
  <1>2. PICK newest : newest = NewestCheckpoint(journal)
    OBVIOUS
  <1>3. newest # 0 => newest \in 1..Len(journal) /\ journal[newest].count = newest - 1
    BY <1>1, <1>2, NewestIsCheckpoint DEF VInv, AllConsistent, Consistent
  <1> DEFINE counts == {w.count : w \in {w \in {} : w.id \in IdsOf(journal)}}
                         \cup (IF newest = 0 THEN {} ELSE {journal[newest].count})
  <1>4. \A n \in counts : Truncation(journal, n) = {}
    BY <1>1, <1>3 DEF Truncation
  <1>5. UNION {Truncation(journal, n) : n \in {n \in counts : \A c \in counts : c <= n}} = {}
    BY <1>4
  <1>6. {} \ {w \in {} : w.id \in IdsOf(journal)} = {}
    OBVIOUS
  <1>7. UNION {Truncation(journal, w.count) : w \in {}} = {}
    OBVIOUS
  <1> QED
    BY <1>2, <1>5, <1>6, <1>7 DEF Coverage

LEMMA EventsVerify ==
  ASSUME VInv, NEW i \in 1..Len(journal), NEW issue \in EventIssues(journal, i, Signers)
  PROVE  issue = "countersignature_orphan" /\ "uprooted" \in disturbed
  <1>1. journal \in Seq(Records) /\ Len(journal) \in Nat /\ journal[i].type \in EventTypes
    BY EventsAreRecords DEF Records
  <1>2. journal[i].key \in Signers
    BY <1>1 DEF Signers
  <1>3. journal[i].prev = HeadId(SubSeq(journal, 1, i - 1))
    BY <1>1, HeadOfPrefix DEF VInv, Chained
  <1>4. issue \in TypeIssues(journal, i)
    BY <1>2, <1>3 DEF EventIssues
  <1>5. Consistent(journal[i], i)
    BY DEF VInv, AllConsistent
  <1>6. CASE journal[i].type = "countersignature"
    <2> DEFINE found == CheckpointBefore(journal, i, journal[i].ref)
    <2>1. issue \in CountersignatureIssues(journal, i)
      BY <1>4, <1>6 DEF TypeIssues
    <2>2. \A k \in found : journal[i].count = journal[k].count /\ journal[i].head = journal[k].head
      BY <1>6 DEF CheckpointBefore, VInv, Countersigned
    <2>3. CASE found = {}
      <3>1. "uprooted" \in disturbed
        BY <1>6, <2>3 DEF CheckpointBefore, VInv, Countersigned
      <3> QED
        BY <2>1, <2>3, <3>1 DEF CountersignatureIssues
    <2>4. CASE found # {}
      <3>1. PICK k \in found :
              issue \in (IF journal[i].count # journal[k].count THEN {"countersignature_count_mismatch"} ELSE {}) \cup
                        (IF journal[i].head # journal[k].head THEN {"countersignature_head_mismatch"} ELSE {})
        BY <2>1, <2>4 DEF CountersignatureIssues
      <3> QED
        BY <2>2, <3>1
    <2> QED
      BY <2>3, <2>4
  <1>7. CASE journal[i].type # "countersignature"
    <2>1. TypeIssues(journal, i) = {}
      <3>1. CASE journal[i].type = "checkpoint"
        BY <1>5, <3>1 DEF TypeIssues, CheckpointIssues, Consistent
      <3>2. CASE journal[i].type = "archive"
        <4>1. journal[i].prev = 0 /\ journal[i].count >= 1 /\ journal[i].count \in Nat
          BY <1>5, <3>2, EventsAreRecords DEF Consistent, Records
        <4> QED
          BY <3>2, <4>1 DEF TypeIssues, ArchiveIssues
      <3>3. CASE journal[i].type = "rotation"
        BY <1>5, <3>3 DEF TypeIssues, RotationIssues, Consistent
      <3>4. CASE journal[i].type = "event"
        BY <3>4 DEF TypeIssues
      <3> QED
        BY <1>1, <1>7, <3>1, <3>2, <3>3, <3>4 DEF EventTypes
    <2> QED
      BY <1>4, <2>1
  <1> QED
    BY <1>6, <1>7

(* Whatever commands run at once, are killed, and whatever tail of the     *)
(* journal is lost or archived between two steps, the journal verifies     *)
(* under the keys that signed it, but for a countersignature whose         *)
(* checkpoint was taken away between its lookup and its append             *)
(* (verify_journal).                                                       *)
THEOREM JournalAlwaysVerifies == Spec => []JournalVerifies
  <1>1. VInv => JournalVerifies
    <2> SUFFICES ASSUME VInv, NEW issue \in JournalIssues(journal, Signers)
                 PROVE  issue = "countersignature_orphan" /\ "uprooted" \in disturbed
      BY DEF JournalVerifies
    <2>1. PICK i \in DOMAIN journal : issue \in EventIssues(journal, i, Signers)
      BY CoversItself DEF JournalIssues
    <2>2. i \in 1..Len(journal)
      BY EventsAreRecords
    <2> QED
      BY <2>1, <2>2, EventsVerify
  <1> QED
    BY <1>1, VerifyInitially, VerifyInduction, PTL DEF Spec

(* The types of the evidence home, and that every file that holds a        *)
(* witness holds one checkpoint or nothing.                                *)
THEOREM EvidenceTyped == Spec => []TypeOK
  <1>1. VInv => TypeOK
    <2> SUFFICES ASSUME VInv PROVE TypeOK
      OBVIOUS
    <2>1. \A i \in DOMAIN journal : journal[i].type \in EventTypes /\ journal[i].id \in 1..written
      <3>1. DOMAIN journal = 1..Len(journal) /\ \A i \in 1..Len(journal) : journal[i] \in Records
        BY EventsAreRecords
      <3>2. \A e \in Records : e.type \in EventTypes
        BY DEF Records
      <3> QED
        BY <3>1, <3>2 DEF VInv, Ordered
    <2>2. \A f \in WitnessFiles : Witnesses(f)
      <3> SUFFICES ASSUME NEW e \in Records, e.type = "checkpoint" PROVE Witnesses({e})
        BY DEF WitnessFiles, Witnesses
      <3> QED
        BY FS_Singleton DEF Witnesses
    <2> QED
      BY <2>1, <2>2 DEF TypeOK, VInv, KInv, TInv
  <1> QED
    BY <1>1, VerifyInitially, VerifyInduction, PTL DEF Spec

-----------------------------------------------------------------------------
(* The witnesses. What makes WitnessTellsLoss inductive, while nothing is  *)
(* archived: what was written stands in the journal or is lost, and every  *)
(* witness file that is not empty holds a checkpoint as it was written.    *)
(* What makes BoundIsKept inductive, while witness runs do not overlap     *)
(* either: later files hold later checkpoints, and a run has done what its *)
(* place in the command says.                                              *)

Quiet == disturbed \cap {"overlap", "archive"} = {}

\* How far the loss has moved an event of that id down the journal.
Gap(id) == IF \A x \in lost : x < id THEN Cardinality(lost) ELSE 0

\* Every event ever written is in the journal, or lost, and not both; and
\* the places of those in the journal are known.
Placed ==
  /\ Len(journal) = written - Cardinality(lost)
  /\ \A i \in 1..Len(journal) : journal[i].id = i + Gap(journal[i].id)

Accounted ==
  /\ lost \subseteq 1..written
  /\ \A id \in 1..written : id \in lost <=> \A i \in 1..Len(journal) : journal[i].id # id
  /\ Placed

\* A checkpoint as it was written, in the journal too if it is in it at all.
Stands(w) ==
  /\ w \in Records /\ w.type = "checkpoint" /\ w.head = w.prev /\ w.key \in AllSigners
  /\ w.id \in 1..written
  /\ \A i \in 1..Len(journal) : journal[i].id = w.id => journal[i] = w
  /\ "archive" \notin disturbed => w.count = w.id - 1 - Gap(w.id)

Shipping == {"clear", "local", "copy", "place", "latest"}

OneRun ==
  \A p, q \in Procs : proc[p].op = "witness" /\ proc[q].op = "witness" => p = q

FilesStand ==
  /\ \A w \in local : Stands(w)
  /\ \A w \in latest : Stands(w)
  /\ \A n \in DOMAIN stamped : \A w \in stamped[n] : Stands(w)
  /\ \A p \in Procs : proc[p].op = "witness" => \A w \in proc[p].file : Stands(w)
  /\ \A p \in Procs : proc[p].pc \in Shipping => proc[p].op = "witness"

StampedWhole == \A n \in DOMAIN stamped : stamped[n] # {}

\* A later name has a later witness.
StampedInOrder ==
  \A m, n \in DOMAIN stamped : m < n =>
    \A v \in stamped[m], w \in stamped[n] : v.id < w.id

Bound(id) == \E n \in DOMAIN stamped : \E w \in stamped[n] : w.id >= id

StampedBefore(id) == \A n \in DOMAIN stamped : \A w \in stamped[n] : w.id < id

\* What a witness run has done when it stands at a step.
Shipped(p) ==
  /\ proc[p].pc \in {"clear", "local"} => \E e \in proc[p].file : e.id = proc[p].ref
  /\ proc[p].pc \in {"copy", "place", "latest"} => \E e \in local : e.id = proc[p].ref
  /\ proc[p].pc = "place" =>
       /\ \E e \in proc[p].file : e.id = proc[p].ref
       /\ \A n \in DOMAIN stamped : n < proc[p].slot
  /\ proc[p].pc \in {"clear", "local", "copy", "place"} => StampedBefore(proc[p].ref)
  /\ proc[p].pc = "latest" => Bound(proc[p].ref)

ReportedIsBound ==
  \A id \in reported : (\E w \in latest : w.id = id) /\ Bound(id)

Witnessed ==
  /\ OneRun /\ StampedWhole /\ StampedInOrder /\ ReportedIsBound
  /\ \A p \in Procs : Shipped(p)

WInv == /\ VInv /\ FilesStand
        /\ "archive" \notin disturbed => Accounted
        /\ Quiet => Witnessed

-----------------------------------------------------------------------------
(* The journal as the witnesses see it.                                    *)

\* What the journal has after a step it had before, or is a new event; what
\* is lost is lost once.
JournalKept ==
  /\ written <= written'
  /\ \A i \in 1..Len(journal)' :
       journal'[i].id > written \/ \E h \in 1..Len(journal) : journal'[i] = journal[h]

LostKept ==
  "archive" \notin disturbed' =>
    /\ "archive" \notin disturbed
    /\ lost' = lost \/ (lost = {} /\ written \in lost')

LEMMA StandsKept ==
  ASSUME VInv, KInv', JournalKept, LostKept, NEW w, Stands(w)
  PROVE  Stands(w)'
  <1>1. written \in Nat /\ written' \in Nat /\ w.id \in 1..written'
    BY EventsAreRecords DEF KInv, TInv, Stands, JournalKept
  <1>2. Len(journal)' \in Nat /\ journal' \in Seq(Records)
    BY DEF KInv, TInv
  <1>3. ASSUME NEW i \in 1..Len(journal)', journal'[i].id = w.id PROVE journal'[i] = w
    BY <1>1, <1>3 DEF Stands, JournalKept
  <1>4. ASSUME "archive" \notin disturbed' PROVE w.count = w.id - 1 - Gap(w.id)'
    <2>1. w.count = w.id - 1 - Gap(w.id)
      BY <1>4 DEF Stands, LostKept
    <2>2. CASE lost' = lost
      BY <2>1, <2>2 DEF Gap
    <2>3. CASE lost = {} /\ written \in lost'
      <3>1. Gap(w.id) = 0
        BY <2>3, FS_EmptySet DEF Gap
      <3>2. w.id \in Nat /\ w.id <= written
        BY <1>1 DEF Stands
      <3>3. Gap(w.id)' = 0
        BY <1>1, <2>3, <3>2 DEF Gap
      <3> QED
        BY <2>1, <3>1, <3>3
    <2> QED
      BY <1>4, <2>2, <2>3 DEF LostKept
  <1> QED
    BY <1>1, <1>3, <1>4 DEF Stands

\* The four ways of a step with the journal.
Appends ==
  \E e \in Records : journal' = Append(journal, e) /\ written' = written + 1 /\ e.id = written + 1

Untouched == journal' = journal /\ written' = written

LEMMA AppendKept ==
  ASSUME VInv, Appends
  PROVE  JournalKept
  <1>1. PICK e \in Records :
          journal' = Append(journal, e) /\ written' = written + 1 /\ e.id = written + 1
    BY DEF Appends
  <1>2. journal \in Seq(Records) /\ written \in Nat
    BY EventsAreRecords
  <1>3. /\ Len(journal') = Len(journal) + 1 /\ Len(journal) \in Nat
        /\ \A i \in 1..Len(journal) : journal'[i] = journal[i]
        /\ journal'[Len(journal) + 1] = e
    BY <1>1, <1>2, AppendShape
  <1>4. ASSUME NEW i \in 1..Len(journal')
        PROVE  journal'[i].id > written \/ \E h \in 1..Len(journal) : journal'[i] = journal[h]
    <2>1. i \in 1..Len(journal) \/ i = Len(journal) + 1
      BY <1>3
    <2> QED
      BY <1>1, <1>2, <1>3, <2>1
  <1> QED
    BY <1>1, <1>2, <1>4 DEF JournalKept

LEMMA UntouchedKept ==
  ASSUME VInv, Untouched
  PROVE  JournalKept
  BY EventsAreRecords DEF Untouched, JournalKept

LEMMA LoseKept ==
  ASSUME VInv, Lose
  PROVE  JournalKept
  <1>1. /\ Len(journal') \in Nat /\ Len(journal') <= Len(journal) /\ written' = written
        /\ \A i \in 1..Len(journal') : journal'[i] = journal[i]
    BY LoseCuts DEF VInv, KInv
  <1> QED
    BY <1>1, EventsAreRecords DEF JournalKept

LEMMA ArchiveKept ==
  ASSUME VInv, NEW p \in Procs, Archive(p)
  PROVE  JournalKept
  <1>1. PICK e \in Records : journal' = <<e>> /\ written' = written + 1 /\ e.id = written + 1
    BY ArchiveStarts DEF VInv, KInv
  <1>2. written \in Nat
    BY EventsAreRecords
  <1> QED
    BY <1>1, <1>2 DEF JournalKept

LEMMA LostIsCounted ==
  ASSUME VInv, lost \subseteq 1..written
  PROVE  written \in Nat /\ Cardinality(lost) \in Nat
  <1>1. written \in Nat
    BY EventsAreRecords
  <1>2. IsFiniteSet(1..written)
    BY <1>1, FS_Interval
  <1> QED
    BY <1>1, <1>2, FS_Subset, FS_CardinalityType

LEMMA AppendPlaced ==
  ASSUME VInv, Accounted, Appends, lost' = lost
  PROVE  Placed'
  <1>1. PICK e \in Records :
          journal' = Append(journal, e) /\ written' = written + 1 /\ e.id = written + 1
    BY DEF Appends
  <1>2. journal \in Seq(Records) /\ written \in Nat
    BY EventsAreRecords
  <1>3. /\ Len(journal') = Len(journal) + 1 /\ Len(journal) \in Nat
        /\ \A i \in 1..Len(journal) : journal'[i] = journal[i]
        /\ journal'[Len(journal) + 1] = e
    BY <1>1, <1>2, AppendShape
  <1>4. Cardinality(lost) \in Nat /\ Len(journal) = written - Cardinality(lost)
    BY LostIsCounted DEF Accounted, Placed
  <1>5. \A id : Gap(id)' = Gap(id)
    BY DEF Gap
  <1>6. ASSUME NEW i \in 1..Len(journal') PROVE journal'[i].id = i + Gap(journal'[i].id)
    <2>1. CASE i \in 1..Len(journal)
      BY <1>3, <2>1 DEF Accounted, Placed
    <2>2. CASE i = Len(journal) + 1
      <3>1. \A x \in lost : x < written + 1
        BY <1>2 DEF Accounted
      <3>2. Gap(written + 1) = Cardinality(lost)
        BY <3>1 DEF Gap
      <3> QED
        BY <1>1, <1>2, <1>3, <1>4, <2>2, <3>2
    <2> QED
      BY <1>3, <2>1, <2>2
  <1> QED
    BY <1>1, <1>2, <1>3, <1>4, <1>5, <1>6 DEF Placed

\* Before the one loss an event's id is its place in the journal.
LEMMA LosePlaced ==
  ASSUME VInv, Accounted, Lose
  PROVE  Placed' /\ written \in lost' /\ lost = {}
  <1>1. PICK n \in 0..(Len(journal) - 1) :
          /\ journal' = SubSeq(journal, 1, n)
          /\ lost' = IdsOf(SubSeq(journal, n + 1, Len(journal)))
    BY DEF Lose
  <1>2. /\ journal \in Seq(Records) /\ written \in Nat /\ written' = written /\ lost = {}
        /\ n \in Nat /\ n < Len(journal) /\ Len(journal) \in Nat
    BY <1>1, EventsAreRecords DEF Lose
  <1>3. Len(journal') = n /\ \A i \in 1..n : journal'[i] = journal[i]
    BY <1>1, <1>2
  <1>4. Cardinality(lost) = 0 /\ \A id : Gap(id) = 0
    BY <1>2, FS_EmptySet DEF Gap
  <1>5. /\ Len(journal) = written
        /\ \A i \in 1..Len(journal) : journal[i].id = i
    <2>1. Len(journal) = written
      BY <1>2, <1>4 DEF Accounted, Placed
    <2>2. ASSUME NEW i \in 1..Len(journal) PROVE journal[i].id = i
      <3>1. journal[i].id = i + Gap(journal[i].id)
        BY DEF Accounted, Placed
      <3>2. Gap(journal[i].id) = 0
        BY <1>4
      <3> QED
        BY <3>1, <3>2
    <2> QED
      BY <2>1, <2>2
  <1>6. PICK tail : tail = SubSeq(journal, n + 1, Len(journal))
    OBVIOUS
  <1>7. DOMAIN tail = 1..(Len(journal) - n) /\ \A i \in 1..(Len(journal) - n) : tail[i] = journal[n + i]
    BY <1>2, <1>6
  <1>8. lost' = (n + 1)..written
    <2>1. ASSUME NEW id \in lost' PROVE id \in (n + 1)..written
      <3>1. PICK k \in 1..(Len(journal) - n) : id = tail[k].id
        BY <1>1, <1>6, <1>7, <2>1 DEF IdsOf
      <3>2. n + k \in 1..Len(journal) /\ n + k >= n + 1
        BY <1>2
      <3> QED
        BY <1>2, <1>5, <1>7, <3>1, <3>2
    <2>2. ASSUME NEW id \in (n + 1)..written PROVE id \in lost'
      <3>1. id - n \in 1..(Len(journal) - n) /\ n + (id - n) = id /\ id \in 1..Len(journal)
        BY <1>2, <1>5
      <3>2. tail[id - n].id = id
        BY <1>5, <1>7, <3>1
      <3> QED
        BY <1>1, <1>6, <1>7, <3>1, <3>2 DEF IdsOf
    <2> QED
      BY <2>1, <2>2
  <1>9. Cardinality(lost') = written - n
    <2>1. n + 1 \in Int /\ written \in Int /\ ~(n + 1 > written)
      BY <1>2, <1>5
    <2>2. Cardinality((n + 1)..written) = written - (n + 1) + 1
      BY <2>1, FS_Interval
    <2> QED
      BY <1>2, <1>8, <2>2
  <1>10. \A i \in 1..n : journal'[i].id = i
    BY <1>2, <1>3, <1>5
  <1>11. \A i \in 1..n : ~(\A x \in lost' : x < journal'[i].id)
    <2>1. n + 1 \in lost'
      BY <1>2, <1>5, <1>8
    <2> QED
      BY <1>2, <1>10, <2>1
  <1>12. Placed'
    BY <1>2, <1>3, <1>9, <1>10, <1>11 DEF Placed, Gap
  <1> QED
    BY <1>2, <1>5, <1>8, <1>12

LEMMA AppendAccounted ==
  ASSUME VInv, Accounted, Appends, lost' = lost
  PROVE  Accounted'
  <1>1. PICK e \in Records :
          journal' = Append(journal, e) /\ written' = written + 1 /\ e.id = written + 1
    BY DEF Appends
  <1>2. journal \in Seq(Records) /\ written \in Nat
    BY EventsAreRecords
  <1>3. /\ Len(journal') = Len(journal) + 1 /\ Len(journal) \in Nat
        /\ \A i \in 1..Len(journal) : journal'[i] = journal[i]
        /\ journal'[Len(journal) + 1] = e
    BY <1>1, <1>2, AppendShape
  <1>4. lost' \subseteq 1..written'
    BY <1>1, <1>2 DEF Accounted
  <1>5. ASSUME NEW id \in 1..written'
        PROVE  id \in lost' <=> \A i \in 1..Len(journal') : journal'[i].id # id
    <2>1. CASE id = written + 1
      BY <1>1, <1>2, <1>3, <2>1 DEF Accounted
    <2>2. CASE id # written + 1
      <3>1. id \in 1..written /\ e.id # id
        BY <1>1, <1>2, <2>2
      <3>2. id \in lost <=> \A i \in 1..Len(journal) : journal[i].id # id
        BY <3>1 DEF Accounted
      <3>3. (\A i \in 1..Len(journal') : journal'[i].id # id)
              <=> (\A i \in 1..Len(journal) : journal[i].id # id)
        <4>1. 1..Len(journal') = 1..Len(journal) \cup {Len(journal) + 1}
          BY <1>3
        <4> QED
          BY <1>3, <3>1, <4>1
      <3> QED
        BY <3>2, <3>3
    <2> QED
      BY <2>1, <2>2
  <1> QED
    BY <1>4, <1>5, AppendPlaced DEF Accounted

\* The ids of what is cut off are those that the rest has not.
LEMMA LoseAccounted ==
  ASSUME VInv, Accounted, Lose
  PROVE  Accounted'
  <1>1. PICK n \in 0..(Len(journal) - 1) :
          /\ journal' = SubSeq(journal, 1, n)
          /\ lost' = IdsOf(SubSeq(journal, n + 1, Len(journal)))
    BY DEF Lose
  <1>2. /\ journal \in Seq(Records) /\ written \in Nat /\ written' = written /\ lost = {}
        /\ n \in Nat /\ n < Len(journal) /\ Len(journal) \in Nat
    BY <1>1, EventsAreRecords DEF Lose
  <1>3. Len(journal') = n /\ \A i \in 1..n : journal'[i] = journal[i]
    BY <1>1, <1>2
  <1>4. PICK tail : tail = SubSeq(journal, n + 1, Len(journal))
    OBVIOUS
  <1>5. DOMAIN tail = 1..(Len(journal) - n) /\ \A i \in 1..(Len(journal) - n) : tail[i] = journal[n + i]
    BY <1>2, <1>4
  <1>6. \A id : id \in lost' <=> \E i \in (n + 1)..Len(journal) : journal[i].id = id
    <2>1. ASSUME NEW i \in (n + 1)..Len(journal) PROVE journal[i].id \in lost'
      <3>1. i - n \in 1..(Len(journal) - n) /\ n + (i - n) = i
        BY <1>2
      <3> QED
        BY <1>1, <1>4, <1>5, <3>1 DEF IdsOf
    <2>2. ASSUME NEW id \in lost' PROVE \E i \in (n + 1)..Len(journal) : journal[i].id = id
      <3>1. PICK k \in 1..(Len(journal) - n) : id = tail[k].id
        BY <1>1, <1>4, <1>5 DEF IdsOf
      <3>2. n + k \in (n + 1)..Len(journal)
        BY <1>2
      <3> QED
        BY <1>5, <3>1, <3>2
    <2> QED
      BY <2>1, <2>2
  <1>7. lost' \subseteq 1..written'
    <2>1. \A i \in (n + 1)..Len(journal) : i \in 1..Len(journal)
      BY <1>2
    <2> QED
      BY <1>2, <1>6, <2>1 DEF VInv, Ordered
  <1>8. ASSUME NEW id \in 1..written
        PROVE  id \in lost' <=> \A i \in 1..n : journal[i].id # id
    <2>1. PICK k \in 1..Len(journal) : journal[k].id = id
      BY <1>2 DEF Accounted
    <2>2. \A i \in 1..Len(journal) : journal[i].id = id => i = k
      <3>1. \A h, i \in 1..Len(journal) : h < i => journal[h].id < journal[i].id
        BY DEF VInv, Ordered
      <3>2. \A i \in 1..Len(journal) : journal[i].id \in Nat
        BY EventsAreRecords
      <3> QED
        BY <1>2, <2>1, <3>1, <3>2
    <2>3. CASE k <= n
      BY <1>2, <1>6, <2>1, <2>2, <2>3
    <2>4. CASE k > n
      BY <1>2, <1>6, <2>1, <2>2, <2>4
    <2> QED
      BY <1>2, <2>3, <2>4
  <1> QED
    BY <1>2, <1>3, <1>7, <1>8, LosePlaced DEF Accounted

-----------------------------------------------------------------------------
(* A step beside the shipping: of a command that is not at it, or of none. *)

ShippedSame == UNCHANGED <<local, stamped, latest, reported>>

\* p's step takes it to no step of a witness run but the first; what a
\* witness run holds stands.
Beside(p) ==
  /\ \A q \in Procs : q # p => proc'[q] = proc[q]
  /\ proc'[p].pc \notin Shipping
  /\ proc'[p].op = "witness" =>
       \/ proc[p].op = "witness" /\ proc'[p].file = proc[p].file
       \/ \A w \in proc'[p].file : Stands(w)

\* No other witness run is under way when p's starts.
Alone(p) ==
  proc'[p].op = "witness" => proc[p].op = "witness" \/ \A q \in Procs : proc[q].op # "witness"

\* Files whose witnesses stood, or stand now, still stand.
LEMMA FilesKept ==
  ASSUME VInv, KInv', JournalKept, LostKept,
         \A w \in local' : Stands(w) \/ Stands(w)',
         \A w \in latest' : Stands(w) \/ Stands(w)',
         \A n \in DOMAIN stamped' : \A w \in stamped'[n] : Stands(w) \/ Stands(w)',
         \A q \in Procs : proc'[q].op = "witness" =>
           \A w \in proc'[q].file : Stands(w) \/ Stands(w)',
         \A q \in Procs : proc'[q].pc \in Shipping => proc'[q].op = "witness"
  PROVE  FilesStand'
  <1>1. \A w : Stands(w) \/ Stands(w)' => Stands(w)'
    BY StandsKept
  <1> QED
    BY <1>1 DEF FilesStand

LEMMA BesideFiles ==
  ASSUME VInv, KInv', FilesStand, JournalKept, LostKept, UNCHANGED <<local, stamped, latest>>,
         NEW p \in Procs, Beside(p)
  PROVE  FilesStand'
  <1>1. ASSUME NEW q \in Procs, proc'[q].op = "witness", NEW w \in proc'[q].file
        PROVE  Stands(w)
    <2>1. CASE q = p
      BY <1>1, <2>1 DEF Beside, FilesStand
    <2>2. CASE q # p
      BY <1>1, <2>2 DEF Beside, FilesStand
    <2> QED
      BY <2>1, <2>2
  <1>2. ASSUME NEW q \in Procs, proc'[q].pc \in Shipping PROVE proc'[q].op = "witness"
    BY <1>2 DEF Beside, FilesStand
  <1>3. /\ \A w \in local' : Stands(w)
        /\ \A w \in latest' : Stands(w)
        /\ \A n \in DOMAIN stamped' : \A w \in stamped'[n] : Stands(w)
    BY DEF FilesStand
  <1> QED
    BY <1>1, <1>2, <1>3, FilesKept

LEMMA BesideWitnessed ==
  ASSUME Witnessed, ShippedSame, NEW p \in Procs, Beside(p), Alone(p)
  PROVE  Witnessed'
  <1>1. OneRun'
    BY DEF Witnessed, OneRun, Beside, Alone
  <1>2. StampedWhole' /\ StampedInOrder' /\ ReportedIsBound'
    BY DEF ShippedSame, Witnessed, StampedWhole, StampedInOrder, ReportedIsBound, Bound
  <1>3. ASSUME NEW q \in Procs PROVE Shipped(q)'
    <2>1. CASE q = p
      BY <2>1 DEF Beside, Shipped, Shipping
    <2>2. CASE q # p
      BY <2>2 DEF Beside, Witnessed, ShippedSame, Shipped, StampedBefore, Bound
    <2> QED
      BY <2>1, <2>2
  <1> QED
    BY <1>1, <1>2, <1>3 DEF Witnessed

LEMMA StutterWitnessed ==
  ASSUME Witnessed, ShippedSame, proc' = proc
  PROVE  Witnessed'
  BY DEF ShippedSame, Witnessed, OneRun, StampedWhole, StampedInOrder, ReportedIsBound, Bound,
     Shipped, StampedBefore

\* An identity step keeps its command, or ends it.
LEMMA IdentityBeside ==
  ASSUME VInv, NEW p \in Procs, IdentityStep(p)
  PROVE  Beside(p) /\ Alone(p)
  <1>1. proc[p] \in ProcRecord /\ proc \in [Procs -> ProcRecord]
    BY DEF VInv, KInv, TInv
  <1>2. ASSUME Leave(p)
        PROVE  /\ proc'[p].pc \notin Shipping /\ \A q \in Procs : q # p => proc'[q] = proc[q]
               /\ proc'[p].op = "none"
    <2>1. proc'[p] = Idle /\ \A q \in Procs : q # p => proc'[q] = proc[q]
      BY <1>2, LeaveBecomes, BecomesProc DEF VInv, KInv
    <2> QED
      BY <2>1, IdleIsRecord DEF Shipping
  <1>3. /\ proc'[p].pc \notin Shipping /\ \A q \in Procs : q # p => proc'[q] = proc[q]
        /\ \/ proc'[p].op = "none"
           \/ proc'[p].op = proc[p].op /\ proc'[p].file = proc[p].file
    <2>1. CASE LoadKey(p)
      <3>1. CASE proc' = [proc EXCEPT ![p] = [@ EXCEPT !.key = private, !.pc = "register"]]
        BY <1>1, <3>1 DEF ProcRecord, Shipping
      <3>2. CASE Leave(p)
        BY <1>2, <3>2
      <3>3. CASE WithNewKey(p, "truncate")
        BY <1>1, <3>3 DEF WithNewKey, ProcRecord, Shipping
      <3> QED
        BY <2>1, <3>1, <3>2, <3>3 DEF LoadKey
    <2>2. CASE ReadPrior(p)
      <3>1. CASE proc' = [proc EXCEPT ![p] = [@ EXCEPT !.key = private, !.prior = private, !.pc = "register"]]
        BY <1>1, <3>1 DEF ProcRecord, Shipping
      <3>2. CASE WithNewKey(p, "truncate")
        BY <1>1, <3>2 DEF WithNewKey, ProcRecord, Shipping
      <3> QED
        BY <2>2, <3>1, <3>2 DEF ReadPrior
    <2>3. CASE TruncateKey(p) \/ WriteKey(p) \/ Register(p) \/ OpenTrusted(p) \/ Enroll(p) \/ SkipPrior(p)
      BY <1>1, <2>3 DEF TruncateKey, WriteKey, Register, OpenTrusted, Enroll, SkipPrior, Goto,
         ProcRecord, Shipping
    <2>4. CASE EndRotation(p) \/ Kill(p)
      BY <1>2, <2>4 DEF EndRotation, Kill
    <2> QED
      BY <2>1, <2>2, <2>3, <2>4 DEF IdentityStep
  <1>4. CASE proc'[p].op = "none"
    BY <1>3, <1>4 DEF Beside, Alone
  <1>5. CASE proc'[p].op = proc[p].op /\ proc'[p].file = proc[p].file
    BY <1>3, <1>5 DEF Beside, Alone
  <1> QED
    BY <1>3, <1>4, <1>5

LEMMA LeaveBeside ==
  ASSUME VInv, NEW p \in Procs, Leave(p)
  PROVE  Beside(p) /\ Alone(p)
  <1>1. proc'[p] = Idle /\ \A q \in Procs : q # p => proc'[q] = proc[q]
    BY LeaveBecomes, BecomesProc DEF VInv, KInv
  <1> QED
    BY <1>1, IdleIsRecord DEF Beside, Alone, Shipping

\* A witness run that starts is the only one, or the runs overlap.
LEMMA StartBeside ==
  ASSUME VInv, NEW p \in Procs, Start(p)
  PROVE  Beside(p) /\ (Quiet' => Alone(p))
  <1>1. PICK op \in Commands :
          /\ proc' = [proc EXCEPT ![p] = [Idle EXCEPT !.op = op, !.pc = FirstStep(op)]]
          /\ disturbed' = IF op = "witness" /\ \E q \in Procs : proc[q].op = "witness"
                          THEN disturbed \cup {"overlap"} ELSE disturbed
    BY DEF Start
  <1>2. FirstStep(op) \in {"load", "prior", "find"}
    BY DEF FirstStep, Commands
  <1>3. /\ proc'[p].op = op /\ proc'[p].pc = FirstStep(op) /\ proc'[p].file = {}
        /\ \A q \in Procs : q # p => proc'[q] = proc[q]
    BY <1>1 DEF Idle, VInv, KInv, TInv
  <1>4. Quiet' /\ op = "witness" => \A q \in Procs : proc[q].op # "witness"
    BY <1>1 DEF Quiet
  <1> QED
    BY <1>2, <1>3, <1>4 DEF Beside, Alone, Shipping

CheckpointsStand ==
  \A i \in 1..Len(journal) : journal[i].type = "checkpoint" => Stands(journal[i])

LEMMA JournalStands == VInv /\ ("archive" \notin disturbed => Accounted) => CheckpointsStand
  <1> SUFFICES ASSUME VInv, "archive" \notin disturbed => Accounted,
                      NEW i \in 1..Len(journal), journal[i].type = "checkpoint"
               PROVE  Stands(journal[i])
    BY DEF CheckpointsStand
  <1>1. /\ Len(journal) \in Nat /\ journal[i] \in Records
        /\ \A h \in 1..Len(journal) : journal[h].id \in Nat
    BY EventsAreRecords
  <1>2. ASSUME NEW h \in 1..Len(journal), journal[h].id = journal[i].id PROVE h = i
    BY <1>1, <1>2 DEF VInv, Ordered
  <1>3. journal[i].key \in AllSigners
    BY DEF VInv, KInv, SignedIsKnown, AllSigners
  <1>4. /\ journal[i].head = journal[i].prev /\ journal[i].id \in 1..written
        /\ journal[i].count = i - 1
    BY DEF VInv, Ordered, AllConsistent, Consistent
  <1>5. ASSUME "archive" \notin disturbed
        PROVE  journal[i].count = journal[i].id - 1 - Gap(journal[i].id)
    <2>1. Gap(journal[i].id) \in Nat
      BY <1>5, LostIsCounted DEF Accounted, Gap
    <2>2. journal[i].id = i + Gap(journal[i].id)
      BY <1>5 DEF Accounted, Placed
    <2> QED
      BY <1>1, <1>4, <2>1, <2>2
  <1> QED
    BY <1>1, <1>2, <1>3, <1>4, <1>5 DEF Stands

LEMMA FindBeside ==
  ASSUME VInv, CheckpointsStand, NEW p \in Procs, FindCheckpoint(p)
  PROVE  Beside(p) /\ Alone(p)
  <1>1. CASE Leave(p)
    BY <1>1, LeaveBeside
  <1>2. CASE ~Leave(p)
    <2> DEFINE i == NewestCheckpoint(journal)
    <2>1. proc' = [proc EXCEPT ![p] = [@ EXCEPT !.pc = "countersign", !.key = CounterKey,
                                                !.file = {journal[i]}]]
          /\ i # 0
      BY <1>2 DEF FindCheckpoint
    <2>2. journal \in Seq(Records) /\ proc[p] \in ProcRecord /\ proc \in [Procs -> ProcRecord]
      BY DEF VInv, KInv, TInv
    <2>3. i \in 1..Len(journal) /\ journal[i].type = "checkpoint"
      BY <2>1, <2>2, NewestIsCheckpoint
    <2>4. Stands(journal[i])
      BY <2>3 DEF CheckpointsStand
    <2> HIDE DEF i
    <2>5. /\ proc'[p].op = proc[p].op /\ proc'[p].pc = "countersign" /\ proc'[p].file = {journal[i]}
          /\ \A q \in Procs : q # p => proc'[q] = proc[q]
      BY <2>1, <2>2 DEF ProcRecord
    <2> QED
      BY <2>4, <2>5 DEF Beside, Alone, Shipping
  <1> QED
    BY <1>1, <1>2

LEMMA RotationBeside ==
  ASSUME VInv, NEW p \in Procs, RecordRotation(p)
  PROVE  Beside(p) /\ Alone(p)
  <1>1. proc[p] \in ProcRecord /\ proc \in [Procs -> ProcRecord] /\ proc[p].op = "rotate"
    BY DEF VInv, KInv, TInv, RecordRotation, Rotating
  <1>2. /\ proc'[p].op = "rotate" /\ proc'[p].pc = "truncate"
        /\ \A q \in Procs : q # p => proc'[q] = proc[q]
    BY <1>1 DEF RecordRotation, WithNewKey, ProcRecord
  <1> QED
    BY <1>2 DEF Beside, Alone, Shipping

-----------------------------------------------------------------------------
(* The steps of a witness run: what the files hold stands.                 *)

\* What a step of a witness run that ships asks of the files.
LEMMA ShippingFiles ==
  ASSUME VInv, KInv', FilesStand, Untouched, LostKept, NEW p \in Procs, proc[p].op = "witness",
         NEW r, Becomes(p, r), r.op \in {"witness", "none"}, r.pc \in Shipping => r.op = "witness",
         \A w \in r.file : Stands(w),
         \A w \in local' : Stands(w), \A w \in latest' : Stands(w),
         \A n \in DOMAIN stamped' : \A w \in stamped'[n] : Stands(w)
  PROVE  FilesStand'
  <1>1. proc'[p] = r /\ \A q \in Procs : q # p => proc'[q] = proc[q]
    BY BecomesProc DEF VInv, KInv
  <1>2. JournalKept
    BY UntouchedKept
  <1>3. \A q \in Procs : proc'[q].op = "witness" => \A w \in proc'[q].file : Stands(w)
    BY <1>1 DEF FilesStand
  <1>4. \A q \in Procs : proc'[q].pc \in Shipping => proc'[q].op = "witness"
    BY <1>1 DEF FilesStand
  <1> QED
    BY <1>2, <1>3, <1>4, FilesKept

LEMMA RunShips ==
  ASSUME FilesStand, NEW p \in Procs, proc[p].pc \in Shipping
  PROVE  proc[p].op = "witness" /\ \A w \in proc[p].file : Stands(w)
  BY DEF FilesStand

LEMMA ShipFiles ==
  ASSUME VInv, KInv', FilesStand, LostKept, NEW p \in Procs,
         ClearLocal(p) \/ WriteLocal(p) \/ CopyWitness(p) \/ PlaceWitness(p) \/ PlaceLatest(p)
  PROVE  FilesStand'
  <1>1. TInv
    BY DEF VInv, KInv
  <1>2. /\ Untouched /\ proc[p].pc \in Shipping
    BY DEF ClearLocal, WriteLocal, CopyWitness, PlaceWitness, PlaceLatest, Untouched, Shipping
  <1>3. proc[p].op = "witness" /\ \A w \in proc[p].file : Stands(w)
    BY <1>2, RunShips
  <1>4. /\ \A w \in local : Stands(w)
        /\ \A w \in latest : Stands(w)
        /\ \A n \in DOMAIN stamped : \A w \in stamped[n] : Stands(w)
    BY DEF FilesStand
  <1>5. CASE ClearLocal(p)
    <2>1. \E r : Becomes(p, r) /\ r.op = "witness" /\ r.file = proc[p].file
      BY <1>1, <1>3, <1>5, GotoBecomes DEF ClearLocal, Points
    <2>2. local' = {} /\ latest' = latest /\ stamped' = stamped
      BY <1>5 DEF ClearLocal
    <2> QED
      BY <1>2, <1>3, <1>4, <2>1, <2>2, ShippingFiles
  <1>6. CASE WriteLocal(p)
    <2>1. \E r : Becomes(p, r) /\ r.op = "witness" /\ r.file = proc[p].file
      BY <1>1, <1>3, <1>6, GotoBecomes DEF WriteLocal, Points
    <2>2. local' = proc[p].file /\ latest' = latest /\ stamped' = stamped
      BY <1>6 DEF WriteLocal
    <2> QED
      BY <1>2, <1>3, <1>4, <2>1, <2>2, ShippingFiles
  <1>7. CASE CopyWitness(p)
    <2>1. \E r : Becomes(p, r) /\ r.op = "witness" /\ r.file = local
      BY <1>1, <1>3, <1>7, CopyBecomes
    <2>2. local' = local /\ latest' = latest /\ stamped' = stamped
      BY <1>7 DEF CopyWitness
    <2> QED
      BY <1>2, <1>3, <1>4, <2>1, <2>2, ShippingFiles
  <1>8. CASE PlaceWitness(p)
    <2>1. \E r : Becomes(p, r) /\ r.op = "witness" /\ r.file = proc[p].file
      BY <1>1, <1>3, <1>8, GotoBecomes DEF PlaceWitness, Points
    <2>2. /\ local' = local /\ latest' = latest
          /\ stamped' = [n \in DOMAIN stamped \cup {proc[p].slot} |->
                           IF n = proc[p].slot THEN proc[p].file ELSE stamped[n]]
      BY <1>8 DEF PlaceWitness
    <2>3. \A n \in DOMAIN stamped' : \A w \in stamped'[n] : Stands(w)
      BY <1>3, <1>4, <2>2
    <2>4. \A w \in local' : Stands(w)
      BY <1>4, <2>2
    <2>5. \A w \in latest' : Stands(w)
      BY <1>4, <2>2
    <2> QED
      BY <1>2, <1>3, <2>1, <2>3, <2>4, <2>5, ShippingFiles
  <1>9. CASE PlaceLatest(p)
    <2>1. Becomes(p, Idle) /\ Idle.op = "none" /\ Idle.pc = "idle" /\ Idle.file = {}
      BY <1>1, <1>9, LeaveBecomes, IdleIsRecord DEF PlaceLatest, Idle
    <2>2. local' = local /\ latest' = local /\ stamped' = stamped
      BY <1>9 DEF PlaceLatest
    <2> QED
      BY <1>2, <1>3, <1>4, <2>1, <2>2, ShippingFiles DEF Shipping
  <1> QED
    BY <1>5, <1>6, <1>7, <1>8, <1>9

LEMMA CheckpointFiles ==
  ASSUME VInv, VInv', FilesStand, LostKept, ("archive" \notin disturbed => Accounted)',
         NEW p \in Procs, Checkpoint(p)
  PROVE  FilesStand'
  <1>1. PICK e \in Records :
          /\ journal' = Append(journal, e) /\ written' = written + 1
          /\ e.type = "checkpoint" /\ e.id = written + 1
          /\ \E r : /\ Becomes(p, r) /\ r.pc = "clear" /\ r.file = {e}
                    /\ r.op = proc[p].op /\ r.ref = written + 1
    BY CheckpointBecomes DEF VInv, KInv
  <1>2. PICK r : Becomes(p, r) /\ r.file = {e} /\ r.op = proc[p].op
    BY <1>1
  <1>3. /\ UNCHANGED <<local, stamped, latest>> /\ proc[p].op = "witness"
    BY DEF Checkpoint, Ready
  <1>4. proc'[p] = r /\ \A q \in Procs : q # p => proc'[q] = proc[q]
    BY <1>2, BecomesProc DEF VInv, KInv
  <1>5. KInv' /\ journal \in Seq(Records) /\ written \in Nat
    BY EventsAreRecords DEF VInv
  <1>6. JournalKept
    BY <1>1, AppendKept DEF Appends
  <1>7. Stands(e)'
    <2>1. PICK i \in 1..Len(journal') : journal'[i] = e
      <3>1. /\ Len(journal') = Len(journal) + 1 /\ Len(journal) \in Nat
            /\ journal'[Len(journal) + 1] = e
        BY <1>1, <1>5, AppendShape
      <3> QED
        BY <3>1
    <2>2. CheckpointsStand'
      BY JournalStands, PTL
    <2> QED
      BY <1>1, <2>1, <2>2 DEF CheckpointsStand
  <1>8. \A q \in Procs : proc'[q].op = "witness" =>
          \A w \in proc'[q].file : Stands(w) \/ Stands(w)'
    BY <1>2, <1>4, <1>7 DEF FilesStand
  <1>9. \A q \in Procs : proc'[q].pc \in Shipping => proc'[q].op = "witness"
    BY <1>2, <1>3, <1>4 DEF FilesStand
  <1>10. /\ \A w \in local' : Stands(w)
         /\ \A w \in latest' : Stands(w)
         /\ \A n \in DOMAIN stamped' : \A w \in stamped'[n] : Stands(w)
    BY <1>3 DEF FilesStand
  <1> QED
    BY <1>5, <1>6, <1>8, <1>9, <1>10, FilesKept

\* What neither a command nor a process does only takes files away.
LEMMA QuietFiles ==
  ASSUME VInv, KInv', FilesStand, JournalKept, LostKept, UNCHANGED <<proc, local, latest>>,
         \A n \in DOMAIN stamped' : n \in DOMAIN stamped /\ stamped'[n] = stamped[n]
  PROVE  FilesStand'
  <1>1. /\ \A w \in local' : Stands(w)
        /\ \A w \in latest' : Stands(w)
        /\ \A n \in DOMAIN stamped' : \A w \in stamped'[n] : Stands(w)
        /\ \A q \in Procs : proc'[q].op = "witness" => \A w \in proc'[q].file : Stands(w)
        /\ \A q \in Procs : proc'[q].pc \in Shipping => proc'[q].op = "witness"
    BY DEF FilesStand
  <1> QED
    BY <1>1, FilesKept

-----------------------------------------------------------------------------
(* The steps of a witness run that no other overlaps.                      *)

LEMMA AtShipping ==
  ASSUME FilesStand, Witnessed, NEW p \in Procs, proc[p].pc \in Shipping
  PROVE  /\ proc[p].op = "witness" /\ Shipped(p)
         /\ \A q \in Procs : q # p => proc[q].op # "witness" /\ proc[q].pc \notin Shipping
  BY DEF FilesStand, Witnessed, OneRun

\* While p alone ships, the others have nothing shipped.
LEMMA OthersShipNothing ==
  ASSUME FilesStand, Witnessed, NEW p \in Procs, proc[p].pc \in Shipping,
         \A q \in Procs : q # p => proc'[q] = proc[q]
  PROVE  /\ OneRun'
         /\ \A q \in Procs : q # p => Shipped(q)'
         /\ \A q \in Procs : q # p => proc'[q].op # "witness"
  <1>1. \A q \in Procs : q # p => proc[q].op # "witness" /\ proc[q].pc \notin Shipping
    BY AtShipping
  <1>2. OneRun'
    BY <1>1 DEF OneRun
  <1>3. ASSUME NEW q \in Procs, q # p PROVE Shipped(q)'
    <2>1. proc'[q].pc \notin Shipping
      BY <1>1, <1>3
    <2> QED
      BY <2>1 DEF Shipped, Shipping
  <1> QED
    BY <1>1, <1>2, <1>3

LEMMA ClearLocalWitnessed ==
  ASSUME VInv, KInv', FilesStand, Witnessed, NEW p \in Procs, ClearLocal(p)
  PROVE  Witnessed'
  <1>1. /\ proc[p].pc = "clear" /\ local' = {} /\ Untouched /\ UNCHANGED <<stamped, latest, reported>>
    BY DEF ClearLocal, Untouched
  <1>2. PICK r : /\ Becomes(p, r) /\ r.pc = "local" /\ r.op = proc[p].op
                 /\ r.file = proc[p].file /\ r.ref = proc[p].ref
    BY GotoBecomes DEF ClearLocal, VInv, KInv, Points
  <1>3. proc'[p] = r /\ \A q \in Procs : q # p => proc'[q] = proc[q]
    BY <1>2, BecomesProc DEF VInv, KInv
  <1>4. proc[p].op = "witness" /\ Shipped(p)
    BY <1>1, AtShipping DEF Shipping
  <1>5. /\ OneRun' /\ \A q \in Procs : q # p => Shipped(q)'
        /\ \A q \in Procs : q # p => proc'[q].op # "witness"
    BY <1>1, <1>3, OthersShipNothing DEF Shipping
  <1>8. StampedWhole' /\ StampedInOrder' /\ ReportedIsBound'
    BY <1>1 DEF Witnessed, StampedWhole, StampedInOrder, ReportedIsBound, Bound
  <1>9. Shipped(p)'
    <2>1. /\ \E e \in proc[p].file : e.id = proc[p].ref
          /\ StampedBefore(proc[p].ref)
      BY <1>1, <1>4 DEF Shipped
    <2> QED
      BY <1>1, <1>2, <1>3, <1>4, <2>1 DEF Shipped, StampedBefore, Shipping
  <1> QED
    BY <1>5, <1>8, <1>9 DEF Witnessed

LEMMA WriteLocalWitnessed ==
  ASSUME VInv, KInv', FilesStand, Witnessed, NEW p \in Procs, WriteLocal(p)
  PROVE  Witnessed'
  <1>1. /\ proc[p].pc = "local" /\ local' = proc[p].file /\ Untouched
        /\ UNCHANGED <<stamped, latest, reported>>
    BY DEF WriteLocal, Untouched
  <1>2. PICK r : /\ Becomes(p, r) /\ r.pc = "copy" /\ r.op = proc[p].op
                 /\ r.file = proc[p].file /\ r.ref = proc[p].ref
    BY GotoBecomes DEF WriteLocal, VInv, KInv, Points
  <1>3. proc'[p] = r /\ \A q \in Procs : q # p => proc'[q] = proc[q]
    BY <1>2, BecomesProc DEF VInv, KInv
  <1>4. proc[p].op = "witness" /\ Shipped(p)
    BY <1>1, AtShipping DEF Shipping
  <1>5. /\ OneRun' /\ \A q \in Procs : q # p => Shipped(q)'
        /\ \A q \in Procs : q # p => proc'[q].op # "witness"
    BY <1>1, <1>3, OthersShipNothing DEF Shipping
  <1>8. StampedWhole' /\ StampedInOrder' /\ ReportedIsBound'
    BY <1>1 DEF Witnessed, StampedWhole, StampedInOrder, ReportedIsBound, Bound
  <1>9. Shipped(p)'
    <2>1. /\ \E e \in proc[p].file : e.id = proc[p].ref
          /\ StampedBefore(proc[p].ref)
      BY <1>1, <1>4 DEF Shipped
    <2> QED
      BY <1>1, <1>2, <1>3, <1>4, <2>1 DEF Shipped, StampedBefore, Shipping
  <1> QED
    BY <1>5, <1>8, <1>9 DEF Witnessed

LEMMA CopyWitnessed ==
  ASSUME VInv, KInv', FilesStand, Witnessed, NEW p \in Procs, CopyWitness(p)
  PROVE  Witnessed'
  <1>1. /\ proc[p].pc = "copy" /\ Untouched /\ UNCHANGED <<local, stamped, latest, reported>>
    BY DEF CopyWitness, Untouched
  <1>2. PICK r : /\ Becomes(p, r) /\ r.pc = "place" /\ r.op = proc[p].op
                 /\ r.file = local /\ r.ref = proc[p].ref
                 /\ \A n \in DOMAIN stamped : n < r.slot
    BY CopyBecomes DEF VInv, KInv
  <1>3. proc'[p] = r /\ \A q \in Procs : q # p => proc'[q] = proc[q]
    BY <1>2, BecomesProc DEF VInv, KInv
  <1>4. proc[p].op = "witness" /\ Shipped(p)
    BY <1>1, AtShipping DEF Shipping
  <1>5. /\ OneRun' /\ \A q \in Procs : q # p => Shipped(q)'
        /\ \A q \in Procs : q # p => proc'[q].op # "witness"
    BY <1>1, <1>3, OthersShipNothing DEF Shipping
  <1>8. StampedWhole' /\ StampedInOrder' /\ ReportedIsBound'
    BY <1>1 DEF Witnessed, StampedWhole, StampedInOrder, ReportedIsBound, Bound
  <1>9. Shipped(p)'
    <2>1. /\ \E e \in local : e.id = proc[p].ref
          /\ StampedBefore(proc[p].ref)
      BY <1>1, <1>4 DEF Shipped
    <2> QED
      BY <1>1, <1>2, <1>3, <1>4, <2>1 DEF Shipped, StampedBefore, Shipping
  <1> QED
    BY <1>5, <1>8, <1>9 DEF Witnessed

LEMMA PlaceWitnessed ==
  ASSUME VInv, KInv', FilesStand, Witnessed, NEW p \in Procs, PlaceWitness(p)
  PROVE  Witnessed'
  <1>1. /\ proc[p].pc = "place" /\ Untouched /\ UNCHANGED <<local, latest, reported>>
    BY DEF PlaceWitness, Untouched
  <1>2. PICK r : /\ Becomes(p, r) /\ r.pc = "latest" /\ r.op = proc[p].op
                 /\ r.file = proc[p].file /\ r.ref = proc[p].ref
    BY GotoBecomes DEF PlaceWitness, VInv, KInv, Points
  <1>3. proc'[p] = r /\ \A q \in Procs : q # p => proc'[q] = proc[q]
    BY <1>2, BecomesProc DEF VInv, KInv
  <1>4. proc[p].op = "witness" /\ Shipped(p)
    BY <1>1, AtShipping DEF Shipping
  <1>5. /\ OneRun' /\ \A q \in Procs : q # p => Shipped(q)'
        /\ \A q \in Procs : q # p => proc'[q].op # "witness"
    BY <1>1, <1>3, OthersShipNothing DEF Shipping
  <1>7. PICK s, f, id : s = proc[p].slot /\ f = proc[p].file /\ id = proc[p].ref
    OBVIOUS
  <1>8. /\ \A n \in DOMAIN stamped : n < s
        /\ \E e \in local : e.id = id
        /\ \E e \in f : e.id = id
        /\ \A n \in DOMAIN stamped : \A w \in stamped[n] : w.id < id
    BY <1>1, <1>4, <1>7 DEF Shipped, StampedBefore
  <1>9. /\ s \in Nat /\ id \in Nat /\ f \in WitnessFiles
        /\ \A n \in DOMAIN stamped : n \in Nat /\ stamped[n] \in WitnessFiles
    <2>1. proc[p] \in ProcRecord /\ \A n \in DOMAIN stamped : stamped[n] \in WitnessFiles
      BY DEF VInv, KInv, TInv
    <2>2. PICK b \in Nat : DOMAIN stamped \subseteq 0..b
      BY DEF VInv, KInv, TInv
    <2>3. \A n \in DOMAIN stamped : n \in Nat
      BY <2>2
    <2> QED
      BY <1>7, <2>1, <2>3 DEF ProcRecord
  <1>10. PICK e \in f : f = {e} /\ e.id = id
    BY <1>8, <1>9 DEF WitnessFiles
  <1>11. stamped' = [n \in DOMAIN stamped \cup {s} |-> IF n = s THEN f ELSE stamped[n]]
    BY <1>7 DEF PlaceWitness
  <1>12. s \notin DOMAIN stamped
    BY <1>8, <1>9
  <1>13. /\ DOMAIN stamped' = DOMAIN stamped \cup {s} /\ stamped'[s] = {e}
         /\ \A n \in DOMAIN stamped : stamped'[n] = stamped[n]
    BY <1>10, <1>11, <1>12
  <1>15. StampedWhole'
    BY <1>13 DEF Witnessed, StampedWhole
  <1>16. StampedInOrder'
    <2> SUFFICES ASSUME NEW m \in DOMAIN stamped', NEW n \in DOMAIN stamped', m < n,
                        NEW v \in stamped'[m], NEW w \in stamped'[n]
                 PROVE  v.id < w.id
      BY DEF StampedInOrder
    <2>1. m # s
      BY <1>8, <1>9, <1>13
    <2>2. CASE n = s
      BY <1>8, <1>10, <1>13, <2>1, <2>2
    <2>3. CASE n # s
      BY <1>13, <2>1, <2>3 DEF Witnessed, StampedInOrder
    <2> QED
      BY <2>2, <2>3
  <1>17. \A i : Bound(i) => Bound(i)'
    BY <1>13 DEF Bound
  <1>18. ReportedIsBound'
    BY <1>1, <1>17 DEF Witnessed, ReportedIsBound
  <1>19. Shipped(p)'
    <2>1. \E w \in stamped'[s] : w.id >= id
      BY <1>9, <1>10, <1>13
    <2>2. \E n \in DOMAIN stamped' : \E w \in stamped'[n] : w.id >= id
      BY <1>13, <2>1
    <2> QED
      BY <1>1, <1>2, <1>3, <1>4, <1>7, <1>8, <2>2 DEF Shipped, Bound
  <1> QED
    BY <1>5, <1>15, <1>16, <1>18, <1>19 DEF Witnessed

LEMMA PlaceLatestWitnessed ==
  ASSUME VInv, KInv', FilesStand, Witnessed, NEW p \in Procs, PlaceLatest(p)
  PROVE  Witnessed'
  <1>1. /\ proc[p].pc = "latest" /\ Untouched /\ UNCHANGED <<local, stamped>>
        /\ latest' = local /\ reported' = {proc[p].ref}
    BY DEF PlaceLatest, Untouched
  <1>2. proc'[p] = Idle /\ \A q \in Procs : q # p => proc'[q] = proc[q]
    BY LeaveBecomes, BecomesProc DEF PlaceLatest, VInv, KInv
  <1>3. Shipped(p)
    BY <1>1, AtShipping DEF Shipping
  <1>4. /\ OneRun' /\ \A q \in Procs : q # p => Shipped(q)'
        /\ \A q \in Procs : q # p => proc'[q].op # "witness"
    BY <1>1, <1>2, OthersShipNothing DEF Shipping
  <1>7. StampedWhole' /\ StampedInOrder'
    BY <1>1 DEF Witnessed, StampedWhole, StampedInOrder
  <1>8. ReportedIsBound'
    <2>1. (\E e \in local : e.id = proc[p].ref) /\ Bound(proc[p].ref)
      BY <1>1, <1>3 DEF Shipped
    <2>2. PICK id : id = proc[p].ref
      OBVIOUS
    <2>3. reported' = {id} /\ (\E e \in latest' : e.id = id) /\ Bound(id)'
      BY <1>1, <2>1, <2>2 DEF Bound
    <2> QED
      BY <2>3 DEF ReportedIsBound
  <1>9. Shipped(p)'
    BY <1>2, IdleIsRecord DEF Shipped, Shipping
  <1> QED
    BY <1>4, <1>7, <1>8, <1>9 DEF Witnessed

LEMMA CheckpointWitnessed ==
  ASSUME VInv, VInv', FilesStand, Witnessed, NEW p \in Procs, Checkpoint(p)
  PROVE  Witnessed'
  <1>1. PICK e \in Records :
          /\ journal' = Append(journal, e) /\ written' = written + 1
          /\ e.type = "checkpoint" /\ e.id = written + 1
          /\ \E r : /\ Becomes(p, r) /\ r.pc = "clear" /\ r.file = {e}
                    /\ r.op = proc[p].op /\ r.ref = written + 1
    BY CheckpointBecomes DEF VInv, KInv
  <1>2. PICK r : /\ Becomes(p, r) /\ r.pc = "clear" /\ r.file = {e}
                 /\ r.op = proc[p].op /\ r.ref = written + 1
    BY <1>1
  <1>3. /\ UNCHANGED <<local, stamped, latest, reported>> /\ proc[p].op = "witness"
    BY DEF Checkpoint, Ready
  <1>4. proc'[p] = r /\ \A q \in Procs : q # p => proc'[q] = proc[q]
    BY <1>2, BecomesProc DEF VInv, KInv
  <1>5. KInv' /\ journal \in Seq(Records) /\ written \in Nat
    BY EventsAreRecords DEF VInv
  <1>7. \A q \in Procs : q # p => proc[q].op # "witness" /\ proc[q].pc \notin Shipping
    BY <1>3 DEF FilesStand, Witnessed, OneRun
  <1>8. OneRun' /\ \A q \in Procs : q # p => Shipped(q)'
    <2>1. OneRun'
      BY <1>4, <1>7 DEF OneRun
    <2>2. ASSUME NEW q \in Procs, q # p PROVE Shipped(q)'
      <3>1. proc'[q].pc \notin Shipping
        BY <1>4, <1>7, <2>2
      <3> QED
        BY <3>1 DEF Shipped, Shipping
    <2> QED
      BY <2>1, <2>2
  <1>11. StampedWhole' /\ StampedInOrder' /\ ReportedIsBound'
    BY <1>3 DEF Witnessed, StampedWhole, StampedInOrder, ReportedIsBound, Bound
  <1>12. Shipped(p)'
    <2>1. \A n \in DOMAIN stamped : \A w \in stamped[n] : w.id \in 1..written
      BY DEF FilesStand, Stands
    <2>2. \A n \in DOMAIN stamped : \A w \in stamped[n] : w.id < written + 1
      BY <1>5, <2>1
    <2>3. PICK id : id = written + 1
      OBVIOUS
    <2>4. StampedBefore(id)'
      BY <1>3, <2>2, <2>3 DEF StampedBefore
    <2>5. /\ r.op = "witness" /\ r.ref = id /\ \E w \in r.file : w.id = id
      BY <1>1, <1>2, <1>3, <2>3
    <2> QED
      BY <1>1, <1>2, <1>4, <2>4, <2>5 DEF Shipped, Shipping
  <1> QED
    BY <1>8, <1>11, <1>12 DEF Witnessed

\* The newest witness outlives the pruning, whatever is kept besides.
LEMMA NewestIsKept ==
  ASSUME VInv, Prune, NEW n \in DOMAIN stamped
  PROVE  \E m \in DOMAIN stamped' : m \in DOMAIN stamped /\ n <= m
  <1>1. PICK b \in Nat : DOMAIN stamped \subseteq 0..b
    BY DEF VInv, KInv, TInv
  <1>2. PICK m \in DOMAIN stamped : \A k \in DOMAIN stamped : k <= m
    BY <1>1, GreatestNatural
  <1>3. {k \in DOMAIN stamped : k > m} = {}
    BY <1>1, <1>2
  <1>4. Cardinality({k \in DOMAIN stamped : k > m}) < Keep
    BY <1>3, FS_EmptySet, EvidenceAssumption
  <1>5. m \in DOMAIN stamped'
    BY <1>4 DEF Prune
  <1> QED
    BY <1>2, <1>5

LEMMA PruneWitnessed ==
  ASSUME VInv, FilesStand, Witnessed, Prune
  PROVE  Witnessed'
  <1>1. Untouched /\ UNCHANGED <<proc, local, latest, reported>>
    BY DEF Prune, Untouched
  <1>2. /\ DOMAIN stamped' \subseteq DOMAIN stamped
        /\ \A n \in DOMAIN stamped' : stamped'[n] = stamped[n]
    BY DEF Prune
  <1>5. ASSUME NEW id \in Nat, Bound(id) PROVE Bound(id)'
    <2>1. PICK n \in DOMAIN stamped : \E w \in stamped[n] : w.id >= id
      BY <1>5 DEF Bound
    <2>2. PICK w \in stamped[n] : w.id >= id
      BY <2>1
    <2>3. PICK m \in DOMAIN stamped' : m \in DOMAIN stamped /\ n <= m
      BY NewestIsKept
    <2>4. PICK v : v \in stamped[m]
      BY <2>3 DEF Witnessed, StampedWhole
    <2>5. v.id \in Nat /\ w.id \in Nat
      <3>1. Stands(v) /\ Stands(w)
        BY <2>2, <2>3, <2>4 DEF FilesStand
      <3> QED
        BY <3>1 DEF Stands, Records
    <2>6. n = m \/ n < m
      <3>1. n \in Nat /\ m \in Nat
        <4>1. PICK b \in Nat : DOMAIN stamped \subseteq 0..b
          BY DEF VInv, KInv, TInv
        <4> QED
          BY <2>3, <4>1
      <3> QED
        BY <2>3, <3>1
    <2>7. \E u \in stamped[m] : u.id >= id
      <3>1. CASE n = m
        BY <2>2, <3>1
      <3>2. CASE n < m
        <4>1. w.id < v.id
          BY <2>2, <2>3, <2>4, <3>2 DEF Witnessed, StampedInOrder
        <4> QED
          BY <2>2, <2>4, <2>5, <4>1
      <3> QED
        BY <2>6, <3>1, <3>2
    <2> QED
      BY <1>2, <2>3, <2>7 DEF Bound
  <1>6. OneRun' /\ StampedWhole' /\ StampedInOrder'
    BY <1>1, <1>2 DEF Witnessed, OneRun, StampedWhole, StampedInOrder
  <1>7. ReportedIsBound'
    <2>1. ASSUME NEW id \in reported PROVE (\E w \in latest : w.id = id) /\ Bound(id)'
      <3>1. PICK w \in latest : w.id = id
        BY DEF Witnessed, ReportedIsBound
      <3>2. id \in Nat
        BY <3>1 DEF VInv, KInv, TInv, WitnessFiles, Records
      <3> QED
        BY <1>5, <3>1, <3>2 DEF Witnessed, ReportedIsBound
    <2> QED
      BY <1>1, <2>1 DEF ReportedIsBound
  <1>8. ASSUME NEW q \in Procs PROVE Shipped(q)'
    <2>1. Shipped(q) /\ proc[q].ref \in Nat
      BY DEF Witnessed, VInv, KInv, TInv, ProcRecord
    <2>2. \A id : StampedBefore(id) => StampedBefore(id)'
      BY <1>2 DEF StampedBefore
    <2>3. PICK id, s : id = proc[q].ref /\ s = proc[q].slot
      OBVIOUS
    <2>4. /\ StampedBefore(id) => StampedBefore(id)'
          /\ Bound(id) => Bound(id)'
          /\ (\A n \in DOMAIN stamped : n < s) => \A n \in DOMAIN stamped' : n < s
      BY <1>2, <1>5, <2>1, <2>2, <2>3
    <2> QED
      BY <1>1, <2>1, <2>3, <2>4 DEF Shipped
  <1> QED
    BY <1>6, <1>7, <1>8 DEF Witnessed

-----------------------------------------------------------------------------
(* The induction.                                                          *)

LEMMA WitnessInitially == Init => WInv
  <1> SUFFICES ASSUME Init PROVE WInv
    OBVIOUS
  <1>1. VInv
    BY VerifyInitially
  <1>2. /\ written = 0 /\ lost = {} /\ local = {} /\ latest = {} /\ reported = {}
        /\ DOMAIN stamped = {} /\ Len(journal) = 0
        /\ \A p \in Procs : proc[p] = Idle
    BY DEF Init, KeyInit
  <1>3. Cardinality(lost) = 0
    BY <1>2, FS_EmptySet
  <1>4. Accounted
    BY <1>2, <1>3 DEF Accounted, Placed
  <1>5. FilesStand
    BY <1>2, IdleIsRecord DEF FilesStand, Shipping
  <1>6. Witnessed
    <2>1. \A p \in Procs : Shipped(p) /\ proc[p].op # "witness"
      BY <1>2, IdleIsRecord DEF Shipped
    <2> QED
      BY <1>2, <2>1 DEF Witnessed, OneRun, StampedWhole, StampedInOrder, ReportedIsBound
  <1> QED
    BY <1>1, <1>4, <1>5, <1>6 DEF WInv

\* What happened stays on record.
LEMMA DisturbedGrows ==
  ASSUME [Next]_vars
  PROVE  disturbed \subseteq disturbed'
  <1>1. ASSUME NEW p \in Procs, Start(p) PROVE disturbed \subseteq disturbed'
    BY <1>1 DEF Start
  <1>2. ASSUME NEW p \in Procs, Archive(p) PROVE disturbed \subseteq disturbed'
    BY <1>2 DEF Archive
  <1>3. ASSUME NEW p \in Procs,
               \/ IdentityStep(p) /\ UNCHANGED evars
               \/ Sign(p) \/ RecordRotation(p) \/ Checkpoint(p)
               \/ ClearLocal(p) \/ WriteLocal(p) \/ CopyWitness(p) \/ PlaceWitness(p) \/ PlaceLatest(p)
               \/ FindCheckpoint(p) \/ Countersign(p)
        PROVE  disturbed' = disturbed
    BY <1>3 DEF evars, Sign, RecordRotation, Checkpoint, ClearLocal, WriteLocal, CopyWitness,
       PlaceWitness, PlaceLatest, FindCheckpoint, Countersign
  <1>4. CASE Prune \/ Lose
    BY <1>4 DEF Prune, Lose
  <1>5. CASE UNCHANGED vars
    BY <1>5 DEF vars, evars
  <1> QED
    BY <1>1, <1>2, <1>3, <1>4, <1>5 DEF Next

LEMMA CommandAppends ==
  ASSUME VInv, NEW p \in Procs, Sign(p) \/ RecordRotation(p) \/ Checkpoint(p) \/ Countersign(p)
  PROVE  (Appends \/ Untouched) /\ lost' = lost
  <1>1. TInv
    BY DEF VInv, KInv
  <1>2. CASE Sign(p)
    BY <1>1, <1>2, SignAppends DEF Appends, Sign
  <1>3. CASE RecordRotation(p)
    <2>1. CASE journal' = journal /\ written' = written
      BY <1>3, <2>1 DEF RecordRotation, Untouched
    <2>2. CASE ~(journal' = journal /\ written' = written)
      <3>1. journal' # journal
        <4>1. PICK e : journal' = Append(journal, e)
          BY <1>3, <2>2 DEF RecordRotation, Put
        <4>2. journal \in Seq(Records)
          BY <1>1 DEF TInv
        <4>3. Len(Append(journal, e)) # Len(journal)
          BY <4>2
        <4> QED
          BY <4>1, <4>3
      <3> QED
        BY <1>1, <1>3, <3>1, RotationAppends DEF Appends, RecordRotation
    <2> QED
      BY <2>1, <2>2
  <1>4. CASE Checkpoint(p)
    BY <1>1, <1>4, CheckpointBecomes DEF Appends, Checkpoint
  <1>5. CASE Countersign(p)
    BY <1>1, <1>5, CountersignAppends DEF Appends, Countersign
  <1> QED
    BY <1>2, <1>3, <1>4, <1>5

LEMMA QuietUntouched ==
  ASSUME NEW p \in Procs,
         \/ Start(p) \/ (IdentityStep(p) /\ UNCHANGED evars)
         \/ ClearLocal(p) \/ WriteLocal(p) \/ CopyWitness(p) \/ PlaceWitness(p) \/ PlaceLatest(p)
         \/ FindCheckpoint(p)
  PROVE  Untouched /\ lost' = lost
  BY DEF evars, Start, ClearLocal, WriteLocal, CopyWitness, PlaceWitness, PlaceLatest,
     FindCheckpoint, Untouched

LEMMA AccountedKept ==
  ASSUME VInv, [Next]_vars, Accounted, "archive" \notin disturbed'
  PROVE  Accounted'
  <1>1. ASSUME Untouched, lost' = lost PROVE Accounted'
    BY <1>1 DEF Untouched, Accounted, Placed, Gap
  <1>2. ASSUME NEW p \in Procs,
               Sign(p) \/ RecordRotation(p) \/ Checkpoint(p) \/ Countersign(p)
        PROVE  Accounted'
    BY <1>1, <1>2, CommandAppends, AppendAccounted
  <1>3. ASSUME NEW p \in Procs,
               \/ Start(p) \/ (IdentityStep(p) /\ UNCHANGED evars)
               \/ ClearLocal(p) \/ WriteLocal(p) \/ CopyWitness(p) \/ PlaceWitness(p) \/ PlaceLatest(p)
               \/ FindCheckpoint(p)
        PROVE  Accounted'
    BY <1>1, <1>3, QuietUntouched
  <1>4. \A p \in Procs : ~Archive(p)
    BY DEF Archive
  <1>5. CASE Prune
    BY <1>1, <1>5 DEF Prune, Untouched
  <1>6. CASE Lose
    BY <1>6, LoseAccounted
  <1>7. CASE UNCHANGED vars
    BY <1>1, <1>7 DEF vars, evars, Untouched
  <1> QED
    BY <1>2, <1>3, <1>4, <1>5, <1>6, <1>7 DEF Next

\* What a step does to the journal and to what is lost.
LEMMA StepKept ==
  ASSUME VInv, "archive" \notin disturbed => Accounted, [Next]_vars
  PROVE  JournalKept /\ LostKept
  <1>1. disturbed \subseteq disturbed'
    BY DisturbedGrows
  <1>2. ASSUME NEW p \in Procs,
               Sign(p) \/ RecordRotation(p) \/ Checkpoint(p) \/ Countersign(p)
        PROVE  JournalKept /\ LostKept
    <2>1. (Appends \/ Untouched) /\ lost' = lost
      BY <1>2, CommandAppends
    <2> QED
      BY <1>1, <2>1, AppendKept, UntouchedKept DEF LostKept
  <1>3. ASSUME NEW p \in Procs,
               \/ Start(p) \/ (IdentityStep(p) /\ UNCHANGED evars)
               \/ ClearLocal(p) \/ WriteLocal(p) \/ CopyWitness(p) \/ PlaceWitness(p) \/ PlaceLatest(p)
               \/ FindCheckpoint(p)
        PROVE  JournalKept /\ LostKept
    <2>1. Untouched /\ lost' = lost
      BY <1>3, QuietUntouched
    <2> QED
      BY <1>1, <2>1, UntouchedKept DEF LostKept
  <1>4. ASSUME NEW p \in Procs, Archive(p) PROVE JournalKept /\ LostKept
    <2>1. "archive" \in disturbed'
      BY <1>4 DEF Archive
    <2> QED
      BY <1>4, <2>1, ArchiveKept DEF LostKept
  <1>5. CASE Prune \/ UNCHANGED vars
    <2>1. Untouched /\ lost' = lost
      BY <1>5 DEF Prune, vars, evars, Untouched
    <2> QED
      BY <1>1, <2>1, UntouchedKept DEF LostKept
  <1>6. CASE Lose
    <2>1. JournalKept
      BY <1>6, LoseKept
    <2>2. "archive" \notin disturbed' => lost = {} /\ written \in lost'
      BY <1>1, <1>6, LosePlaced
    <2> QED
      BY <1>1, <2>1, <2>2 DEF LostKept
  <1> QED
    BY <1>2, <1>3, <1>4, <1>5, <1>6 DEF Next

LEMMA FilesStay ==
  ASSUME VInv, VInv', FilesStand, CheckpointsStand, JournalKept, LostKept, [Next]_vars,
         ("archive" \notin disturbed => Accounted)'
  PROVE  FilesStand'
  <1>1. KInv'
    BY DEF VInv
  <1>2. ASSUME NEW p \in Procs,
               \/ Sign(p) \/ RecordRotation(p) \/ Countersign(p) \/ Archive(p)
               \/ Start(p) \/ (IdentityStep(p) /\ UNCHANGED evars) \/ FindCheckpoint(p)
        PROVE  FilesStand'
    <2>1. Beside(p)
      BY <1>2, LeaveBeside, RotationBeside, StartBeside, IdentityBeside, FindBeside
         DEF Sign, Countersign, Archive
    <2>2. UNCHANGED <<local, stamped, latest>>
      BY <1>2 DEF evars, Sign, RecordRotation, Countersign, Archive, Start, FindCheckpoint
    <2> QED
      BY <1>1, <2>1, <2>2, BesideFiles
  <1>3. ASSUME NEW p \in Procs,
               ClearLocal(p) \/ WriteLocal(p) \/ CopyWitness(p) \/ PlaceWitness(p) \/ PlaceLatest(p)
        PROVE  FilesStand'
    BY <1>1, <1>3, ShipFiles
  <1>4. ASSUME NEW p \in Procs, Checkpoint(p) PROVE FilesStand'
    BY <1>4, CheckpointFiles
  <1>5. CASE Prune \/ Lose \/ UNCHANGED vars
    <2>1. /\ UNCHANGED <<proc, local, latest>>
          /\ \A n \in DOMAIN stamped' : n \in DOMAIN stamped /\ stamped'[n] = stamped[n]
      BY <1>5 DEF Prune, Lose, vars, evars
    <2> QED
      BY <1>1, <2>1, QuietFiles
  <1> QED
    BY <1>2, <1>3, <1>4, <1>5 DEF Next

LEMMA WitnessedKept ==
  ASSUME VInv, VInv', [Next]_vars, FilesStand, CheckpointsStand, Witnessed, Quiet'
  PROVE  Witnessed'
  <1>1. KInv'
    BY DEF VInv
  <1>2. ASSUME NEW p \in Procs,
               \/ Sign(p) \/ RecordRotation(p) \/ Countersign(p)
               \/ Start(p) \/ (IdentityStep(p) /\ UNCHANGED evars) \/ FindCheckpoint(p)
        PROVE  Witnessed'
    <2>1. Beside(p) /\ Alone(p)
      BY <1>2, LeaveBeside, RotationBeside, StartBeside, IdentityBeside, FindBeside
         DEF Sign, Countersign
    <2>2. ShippedSame
      BY <1>2 DEF evars, Sign, RecordRotation, Countersign, Start, FindCheckpoint, ShippedSame
    <2> QED
      BY <2>1, <2>2, BesideWitnessed
  <1>3. ASSUME NEW p \in Procs,
               \/ ClearLocal(p) \/ WriteLocal(p) \/ CopyWitness(p) \/ PlaceWitness(p) \/ PlaceLatest(p)
               \/ Checkpoint(p)
        PROVE  Witnessed'
    BY <1>1, <1>3, ClearLocalWitnessed, WriteLocalWitnessed, CopyWitnessed, PlaceWitnessed,
       PlaceLatestWitnessed, CheckpointWitnessed
  <1>4. \A p \in Procs : ~Archive(p)
    BY DEF Archive, Quiet
  <1>5. CASE Prune
    BY <1>5, PruneWitnessed
  <1>6. CASE Lose \/ UNCHANGED vars
    <2>1. ShippedSame /\ proc' = proc
      BY <1>6 DEF Lose, vars, evars, ShippedSame
    <2> QED
      BY <2>1, StutterWitnessed
  <1> QED
    BY <1>2, <1>3, <1>4, <1>5, <1>6 DEF Next

LEMMA WitnessInduction == WInv /\ [Next]_vars => WInv'
  <1> SUFFICES ASSUME WInv, [Next]_vars PROVE WInv'
    OBVIOUS
  <1>1. VInv /\ VInv' /\ disturbed \subseteq disturbed'
    BY VerifyInduction, DisturbedGrows DEF WInv
  <1>2. "archive" \notin disturbed' => Accounted'
    BY <1>1, AccountedKept DEF WInv
  <1>3. JournalKept /\ LostKept /\ FilesStand /\ CheckpointsStand
    BY <1>1, StepKept, JournalStands DEF WInv
  <1>4. FilesStand'
    BY <1>1, <1>2, <1>3, FilesStay
  <1>5. Quiet' => Witnessed'
    <2> SUFFICES ASSUME Quiet' PROVE Witnessed'
      OBVIOUS
    <2>1. Quiet
      BY <1>1 DEF Quiet
    <2> QED
      BY <1>1, <1>3, <2>1, WitnessedKept DEF WInv
  <1> QED
    BY <1>1, <1>2, <1>4, <1>5 DEF WInv

-----------------------------------------------------------------------------
(* What verification says of a journal and a witness.                      *)

\* What an event is refused for is never its coverage.
LEMMA EventsSayNothingOfCoverage ==
  ASSUME NEW j \in Seq(Records), NEW i \in 1..Len(j), NEW keys,
         NEW issue \in EventIssues(j, i, keys)
  PROVE  issue \notin CoverageIssues
  <1>1. CASE issue \in TypeIssues(j, i)
    <2>1. j[i] \in Records
      OBVIOUS
    <2>2. CASE j[i].type = "checkpoint"
      BY <1>1, <2>2 DEF TypeIssues, CheckpointIssues, CoverageIssues
    <2>3. CASE j[i].type = "countersignature"
      BY <1>1, <2>3 DEF TypeIssues, CountersignatureIssues, CoverageIssues
    <2>4. CASE j[i].type = "archive"
      BY <1>1, <2>4 DEF TypeIssues, ArchiveIssues, CoverageIssues
    <2>5. CASE j[i].type = "rotation"
      BY <1>1, <2>5 DEF TypeIssues, RotationIssues, CoverageIssues
    <2>6. CASE j[i].type = "event"
      BY <1>1, <2>6 DEF TypeIssues
    <2> QED
      BY <2>1, <2>2, <2>3, <2>4, <2>5, <2>6 DEF Records, EventTypes
  <1>2. CASE issue \notin TypeIssues(j, i)
    BY <1>2 DEF EventIssues, CoverageIssues
  <1> QED
    BY <1>1, <1>2

\* A witness that stands covers the journal as long as the journal has it.
LEMMA CoversWitness ==
  ASSUME VInv, NEW w, Stands(w), NEW k \in 1..Len(journal), journal[k].id = w.id
  PROVE  Coverage(journal, {w}) = {}
  <1>1. journal \in Seq(Records) /\ Len(journal) \in Nat
    BY EventsAreRecords
  <1>2. PICK newest : newest = NewestCheckpoint(journal)
    OBVIOUS
  <1>3. newest # 0 => newest \in 1..Len(journal) /\ journal[newest].count = newest - 1
    BY <1>1, <1>2, NewestIsCheckpoint DEF VInv, AllConsistent, Consistent
  <1>4. w.count = k - 1
    BY DEF Stands, VInv, AllConsistent, Consistent
  <1>5. w.id \in IdsOf(journal)
    BY <1>1 DEF IdsOf
  <1>6. PICK found : found = {v \in {w} : v.id \in IdsOf(journal)}
    OBVIOUS
  <1>7. found = {w}
    BY <1>5, <1>6
  <1> DEFINE counts == {v.count : v \in found}
                         \cup (IF newest = 0 THEN {} ELSE {journal[newest].count})
  <1>8. \A n \in counts : Truncation(journal, n) = {}
    BY <1>1, <1>3, <1>4, <1>7 DEF Truncation
  <1>9. UNION {Truncation(journal, n) : n \in {n \in counts : \A c \in counts : c <= n}} = {}
    BY <1>8
  <1>10. {w} \ found = {}
    BY <1>7
  <1>11. UNION {Truncation(journal, v.count) : v \in {}} = {}
    OBVIOUS
  <1> QED
    BY <1>2, <1>6, <1>9, <1>10, <1>11 DEF Coverage

LEMMA IssuesOfValidWitness ==
  ASSUME NEW j, NEW keys, NEW w, WitnessIssues(w, keys) = {}
  PROVE  \A issue : issue \in IssuesAgainst(j, keys, w) <=>
           \/ issue \in Coverage(j, {w})
           \/ \E i \in DOMAIN j : issue \in EventIssues(j, i, keys)
  BY DEF IssuesAgainst

LEMMA MissesWitness ==
  ASSUME NEW w, w.id \notin IdsOf(journal)
  PROVE  "checkpoint_not_found" \in Coverage(journal, {w})
  <1>1. {w} \ {v \in {w} : v.id \in IdsOf(journal)} # {}
    OBVIOUS
  <1> QED
    BY <1>1 DEF Coverage

(* While the journal is not archived, its verification against a shipped   *)
(* witness speaks of coverage exactly when the checkpoint is among the     *)
(* lost, however the journal has grown since and whatever runs overlap;    *)
(* only an overlapped run may ship none (witness_journal, audit_witnesses).*)
THEOREM WitnessAlwaysTellsLoss == Spec => []WitnessTellsLoss
  <1>1. WInv => WitnessTellsLoss
    <2> SUFFICES ASSUME WInv, "archive" \notin disturbed, NEW n \in DOMAIN stamped
                 PROVE  /\ stamped[n] = {} => "overlap" \in disturbed
                        /\ \A w \in stamped[n] :
                             (IssuesAgainst(journal, AllSigners, w) \cap CoverageIssues # {})
                               <=> (w.id \in lost)
      BY DEF WitnessTellsLoss
    <2>1. VInv /\ Accounted /\ FilesStand
      BY DEF WInv
    <2>2. journal \in Seq(Records) /\ DOMAIN journal = 1..Len(journal)
      BY <2>1, EventsAreRecords
    <2>3. \A w \in stamped[n] : Stands(w)
      BY <2>1 DEF FilesStand
    <2>9. stamped[n] = {} => "overlap" \in disturbed
      BY DEF WInv, Quiet, Witnessed, StampedWhole
    <2>4. ASSUME NEW w \in stamped[n]
          PROVE  (IssuesAgainst(journal, AllSigners, w) \cap CoverageIssues # {}) <=> (w.id \in lost)
      <3>1. Stands(w)
        BY <2>3
      <3>2. WitnessIssues(w, AllSigners) = {}
        BY <3>1 DEF Stands, WitnessIssues
      <3>3. \A issue : issue \in IssuesAgainst(journal, AllSigners, w) <=>
              \/ issue \in Coverage(journal, {w})
              \/ \E i \in DOMAIN journal : issue \in EventIssues(journal, i, AllSigners)
        BY <3>2, IssuesOfValidWitness
      <3>4. \A i \in DOMAIN journal : \A issue \in EventIssues(journal, i, AllSigners) :
              issue \notin CoverageIssues
        BY <2>2, EventsSayNothingOfCoverage
      <3>5. w.id \in lost <=> \A i \in 1..Len(journal) : journal[i].id # w.id
        BY <2>1, <3>1 DEF Accounted, Stands
      <3>6. CASE w.id \in lost
        <4>1. w.id \notin IdsOf(journal)
          BY <2>2, <3>5, <3>6 DEF IdsOf
        <4>2. "checkpoint_not_found" \in IssuesAgainst(journal, AllSigners, w)
          BY <3>3, <4>1, MissesWitness
        <4>3. "checkpoint_not_found" \in CoverageIssues
          BY DEF CoverageIssues
        <4> QED
          BY <3>6, <4>2, <4>3
      <3>7. CASE w.id \notin lost
        <4>1. PICK k \in 1..Len(journal) : journal[k].id = w.id
          BY <3>5, <3>7
        <4>2. Coverage(journal, {w}) = {}
          BY <2>1, <3>1, <4>1, CoversWitness
        <4>3. \A issue \in IssuesAgainst(journal, AllSigners, w) : issue \notin CoverageIssues
          BY <3>3, <3>4, <4>2
        <4> QED
          BY <3>7, <4>3
      <3> QED
        BY <3>6, <3>7
    <2> QED
      BY <2>4, <2>9
  <1> QED
    BY <1>1, WitnessInitially, WitnessInduction, PTL DEF Spec

\* A later witness commits to fewer events only if the journal was cut
\* between the two.
LEMMA CountsGrow ==
  ASSUME VInv, Accounted, "archive" \notin disturbed,
         NEW w, NEW v, Stands(w), Stands(v), v.id >= w.id
  PROVE  v.count >= w.count \/ CutBetween(w, v)
  <1>1. written \in Nat /\ Cardinality(lost) \in Nat /\ \A x \in lost : x \in Nat
    BY LostIsCounted DEF Accounted
  <1>2. /\ w.id \in Nat /\ v.id \in Nat
        /\ w.count = w.id - 1 - Gap(w.id) /\ v.count = v.id - 1 - Gap(v.id)
    BY <1>1 DEF Stands
  <1>3. CASE \A x \in lost : x < w.id
    <2>1. \A x \in lost : x < v.id
      BY <1>1, <1>2, <1>3
    <2>2. Gap(w.id) = Cardinality(lost) /\ Gap(v.id) = Cardinality(lost)
      BY <1>3, <2>1 DEF Gap
    <2> QED
      BY <1>1, <1>2, <2>2
  <1>4. CASE \E x \in lost : ~(x < w.id)
    <2>1. Gap(w.id) = 0
      BY <1>4 DEF Gap
    <2>2. CASE \A x \in lost : x < v.id
      BY <1>1, <1>2, <1>4, <2>2 DEF CutBetween
    <2>3. CASE \E x \in lost : ~(x < v.id)
      <3>1. Gap(v.id) = 0
        BY <2>3 DEF Gap
      <3> QED
        BY <1>2, <2>1, <3>1
    <2> QED
      BY <2>2, <2>3
  <1> QED
    BY <1>3, <1>4

(* What a witness run has reported stays bounded by the latest witness and *)
(* by one, no older, of those that pruning leaves, which commits to as     *)
(* many events unless the journal lost its tail between the two            *)
(* (witness_journal, prune_witnesses).                                     *)
THEOREM BoundIsAlwaysKept == Spec => []BoundIsKept
  <1>1. WInv => BoundIsKept
    <2> SUFFICES ASSUME WInv, Quiet, NEW id \in reported
                 PROVE  /\ \E w \in latest : w.id = id
                        /\ \E n \in DOMAIN stamped : \E v \in stamped[n] : \A w \in latest :
                             v.id >= w.id /\ (v.count >= w.count \/ CutBetween(w, v))
      BY DEF BoundIsKept, Quiet
    <2>1. VInv /\ Accounted /\ FilesStand /\ Witnessed /\ "archive" \notin disturbed
      BY DEF WInv, Quiet
    <2>2. PICK e \in latest : e.id = id
      BY <2>1 DEF Witnessed, ReportedIsBound
    <2>3. latest = {e}
      BY <2>1, <2>2 DEF VInv, KInv, TInv, WitnessFiles
    <2>4. PICK n \in DOMAIN stamped : \E v \in stamped[n] : v.id >= e.id
      BY <2>1, <2>2 DEF Witnessed, ReportedIsBound, Bound
    <2>5. PICK v \in stamped[n] : v.id >= e.id
      BY <2>4
    <2>6. Stands(e) /\ Stands(v)
      BY <2>1, <2>2, <2>5 DEF FilesStand
    <2>7. v.count >= e.count \/ CutBetween(e, v)
      BY <2>1, <2>5, <2>6, CountsGrow
    <2> QED
      BY <2>2, <2>3, <2>5, <2>7
  <1> QED
    BY <1>1, WitnessInitially, WitnessInduction, PTL DEF Spec
=============================================================================
