--------------------------- MODULE SidecarProofs ---------------------------
(***************************************************************************)
(* Machine-checked facts about SidecarGuard, for any number of processes,  *)
(* fibers and keys: what the process's own mutex promises, whatever        *)
(* becomes of the journal lock; what the journal lock promises while no    *)
(* gap was entered; and the state's types.                                 *)
(***************************************************************************)
EXTENDS SidecarGuard, FiniteSetTheorems, WellFoundedInduction, TLAPS

Less == {ss \in Nat \X Nat : ss[1] < ss[2]}

\* Every non-empty set of naturals has a least member.
LEMMA LeastNatural ==
  ASSUME NEW S, S \subseteq Nat, S # {}
  PROVE  \E d \in S : \A e \in S : d <= e
  <1>1. IsWellFoundedOn(Less, Nat)
    BY NatLessThanWellFounded DEF OpToRel, Less
  <1>2. PICK d \in S : \A e \in S : ~ (<<e, d>> \in Less)
    BY <1>1, WFMin
  <1>3. ASSUME NEW e \in S PROVE d <= e
    <2>1. <<e, d>> \in Nat \X Nat /\ <<e, d>>[1] = e /\ <<e, d>>[2] = d
      OBVIOUS
    <2>2. ~(e < d)
      BY <1>2, <2>1, Zenon DEF Less
    <2> QED
      BY <2>2
  <1> QED
    BY <1>3

-----------------------------------------------------------------------------
\* The sidecar has no resolutions.
SidecarEvent == {e \in Event : e.type # "resolution"} \cup {Checkpoint}

Drafts == [event : SidecarEvent \cup {[type |-> "nothing"]}, count : Nat, prev : Nat]

Tags == [prev : Nat, count : Nat, by : Fibers]

CallRecord == [key : Keys \cup {NoKey}, dry : BOOLEAN, verdict : Verdicts, id : Nat]

\* The fiber has an event to append, and has not appended it yet.
PendingSteps == {"enter", "claim", "record", "stat", "read", "reclaim", "poll",
                 "count", "tail", "append"}
Pending(f) == at[f] \in PendingSteps

CallPlaces == {"known", "scan", "approve", "mutex", "recheck", "rescan", "reserve",
               "run", "outcome", "mark"}
InCall(f) == pc[f] \in CallPlaces

PermitPlaces == {"recheck", "rescan", "reserve"}

\* The types the argument needs, and who is where.
SType ==
  /\ at \in [Fibers -> Steps] /\ pc \in [Fibers -> Places]
  /\ draft \in [Fibers -> Drafts] /\ answer \in [Fibers -> Nat]
  /\ journal \in Seq(SidecarEvent) /\ written \in Seq(Tags)
  /\ Len(written) = Len(journal)
  /\ call \in [Callers -> CallRecord]
  /\ mutex \in [Processes -> SUBSET Fibers]
  /\ \A f \in Fibers : /\ InCall(f) => f \in Callers
                       /\ Pending(f) => draft[f].event \in SidecarEvent

Reserves(e) == e.type = "decision" /\ e.value = "allowed" /\ ~e.dry

\* Every reservation of key k by process p has failed on record.
Spent(p, k) ==
  \A d \in ReservationsOf(journal, k) : ProcessOf(written[d].by) = p => Failed(journal, d)

\* Who is between the rescan and the end of its append has the permit.
PermitIsExclusive ==
  \A f \in Fibers : pc[f] \in PermitPlaces => mutex[ProcessOf(f)] = {f}

\* A reservation about to be appended was found free, and still is, in its process.
ReservingIsSafe ==
  \A f \in Fibers : Pending(f) /\ Reserves(draft[f].event) =>
    pc[f] = "reserve" /\ Spent(ProcessOf(f), draft[f].event.key)

SInv == SType /\ PermitIsExclusive /\ ReservingIsSafe /\ OneReservationPerProcess

-----------------------------------------------------------------------------
LEMMA ProcessIsUnique ==
  ASSUME NEW f \in Fibers
  PROVE  /\ ProcessOf(f) \in Processes /\ f \in ProcessOf(f)
         /\ \A p \in Processes : f \in p => p = ProcessOf(f)
  <1>1. \E p \in Processes : f \in p
    BY DEF Fibers
  <1>2. ProcessOf(f) \in Processes /\ f \in ProcessOf(f)
    BY <1>1 DEF ProcessOf
  <1> QED
    BY <1>2, ProcessAssumption

\* First returns a member of the set, or 0.
LEMMA FirstIsMember ==
  ASSUME NEW S, S \subseteq Nat
  PROVE  /\ First(S) \in Nat
         /\ S # {} => First(S) \in S
  BY LeastNatural DEF First

LEMMA EventShapes ==
  /\ \A k \in Keys \cup {NoKey}, v \in Decisions, dry \in BOOLEAN, prior \in Nat :
       Decision(k, v, dry, prior) \in SidecarEvent
  /\ \A d \in Nat, s \in Statuses : Outcome(d, s) \in SidecarEvent /\ ~Reserves(Outcome(d, s))
  /\ \A k, dry, prior : ~Reserves(Decision(k, "duplicate", dry, prior))
  /\ Checkpoint \in SidecarEvent /\ ~Reserves(Checkpoint)
  BY DEF Decision, Outcome, Checkpoint, SidecarEvent, Event, Decisions, Verdicts, Statuses, Reserves

LEMMA AppendShape ==
  ASSUME NEW j \in Seq(SidecarEvent), NEW e \in SidecarEvent
  PROVE  /\ Append(j, e) \in Seq(SidecarEvent)
         /\ Len(Append(j, e)) = Len(j) + 1 /\ Len(j) \in Nat
         /\ \A i \in 1..Len(j) : Append(j, e)[i] = j[i] /\ j[i] \in SidecarEvent
         /\ Append(j, e)[Len(j) + 1] = e
  OBVIOUS

\* What failed stays failed.
LEMMA FailureStays ==
  ASSUME NEW j \in Seq(SidecarEvent), NEW e \in SidecarEvent, NEW d, Failed(j, d)
  PROVE  Failed(Append(j, e), d)
  BY AppendShape DEF Failed, OutcomesOf

LEMMA ReservationsGrow ==
  ASSUME NEW j \in Seq(SidecarEvent), NEW e \in SidecarEvent, NEW k
  PROVE  ReservationsOf(Append(j, e), k) =
           IF Reserves(e) /\ e.key = k
           THEN ReservationsOf(j, k) \cup {Len(j) + 1} ELSE ReservationsOf(j, k)
  <1>1. \A i : i \in 1..Len(Append(j, e)) <=> i \in 1..Len(j) \/ i = Len(j) + 1
    BY AppendShape
  <1>2. Len(j) + 1 \notin 1..Len(j)
    BY AppendShape
  <1> QED
    BY <1>1, <1>2, AppendShape DEF ReservationsOf, IsReservation, Reserves

(***************************************************************************)
(* A key that the scan finds free has only failed reservations: nobody     *)
(* resolves anything here, so one without an outcome would block.          *)
(***************************************************************************)
LEMMA FreeIsSpent ==
  ASSUME SType, NEW k, First(Blocking(journal, k)) = 0, NEW p
  PROVE  Spent(p, k)
  <1>1. Blocking(journal, k) \subseteq 1..Len(journal) /\ Len(journal) \in Nat
    BY DEF SType, Blocking, ReservationsOf
  <1>2. Blocking(journal, k) = {}
    BY <1>1, FirstIsMember
  <1>0. \A e \in SidecarEvent : /\ e.type # "resolution"
                                /\ e.type = "outcome" => e.value \in Statuses
    <2>1. \A e \in Event : e.type = "outcome" => e.value \in Statuses
      BY DEF Event
    <2>2. Checkpoint.type = "checkpoint"
      BY DEF Checkpoint
    <2> QED
      BY <2>1, <2>2 DEF SidecarEvent
  <1>3. \A d : ResolutionsOf(journal, d) = {}
    <2>1. \A i \in 1..Len(journal) : journal[i] \in SidecarEvent
      BY DEF SType
    <2> QED
      BY <1>0, <2>1 DEF ResolutionsOf
  <1> SUFFICES ASSUME NEW d \in ReservationsOf(journal, k) PROVE Failed(journal, d)
    BY DEF Spent
  <1>4. OutcomesOf(journal, d) # {} /\ ~Succeeded(journal, d)
    BY <1>2, <1>3 DEF Blocking, Cleared
  <1>5. PICK i \in OutcomesOf(journal, d) : journal[i].value # "succeeded"
    BY <1>4 DEF Succeeded
  <1>6. journal[i] \in SidecarEvent /\ journal[i].type = "outcome"
    BY <1>5 DEF SType, OutcomesOf
  <1>7. journal[i].value = "failed"
    BY <1>0, <1>5, <1>6 DEF Statuses
  <1> QED
    BY <1>5, <1>7 DEF Failed

-----------------------------------------------------------------------------
(* Types.                                                                  *)

\* One fiber moves; its step and what it drafts keep their types.
LEMMA LogType ==
  ASSUME SType, NEW f \in Fibers, NEW e \in SidecarEvent, Log(f, e)
  PROVE  /\ at' = [at EXCEPT ![f] = "enter"] /\ at' \in [Fibers -> Steps]
         /\ draft' \in [Fibers -> Drafts] /\ draft'[f].event = e
         /\ \A g \in Fibers : g # f => draft'[g] = draft[g]
         /\ UNCHANGED <<answer, journal, written>>
         /\ \A g \in Fibers : Pending(g)' => draft'[g].event \in SidecarEvent
  <1> DEFINE d == [event |-> e, count |-> 0, prev |-> 0]
  <1>1. d \in Drafts /\ d.event = e
    BY DEF Drafts
  <1>2. draft' = [draft EXCEPT ![f] = d] /\ at' = [at EXCEPT ![f] = "enter"]
    BY DEF Log, GoesTo
  <1>3. draft'[f] = d /\ \A g \in Fibers : g # f => draft'[g] = draft[g]
    BY <1>2 DEF SType
  <1> QED
    BY <1>1, <1>2, <1>3 DEF SType, Steps, Log, Pending, PendingSteps

LEMMA ForgetType ==
  ASSUME SType, NEW f \in Fibers, at[f] = "out", Forget(f)
  PROVE  /\ draft' \in [Fibers -> Drafts] /\ answer' \in [Fibers -> Nat]
         /\ \A g \in Fibers : g # f => draft'[g] = draft[g]
         /\ UNCHANGED <<at, journal, written>>
         /\ \A g \in Fibers : Pending(g)' => draft'[g].event \in SidecarEvent
  <1>1. NoDraft \in Drafts
    BY DEF NoDraft, Drafts
  <1>2. draft' \in [Fibers -> Drafts] /\ \A g \in Fibers : g # f => draft'[g] = draft[g]
    BY <1>1 DEF SType, Forget
  <1>3. answer' \in [Fibers -> Nat] /\ UNCHANGED <<at, journal, written>>
    BY DEF SType, Forget
  <1>4. ~Pending(f) /\ \A g \in Fibers : Pending(g)' <=> Pending(g)
    BY <1>3 DEF Pending, PendingSteps
  <1> QED
    BY <1>2, <1>3, <1>4 DEF SType

\* What a step inside withJournalLock leaves as it was.
Steady ==
  \A g \in Fibers : draft'[g].event = draft[g].event /\ (Pending(g)' => Pending(g))

\* f appends what it drafted.
Appends(f) ==
  /\ Pending(f) /\ ~Pending(f)'
  /\ journal' = Append(journal, draft[f].event)
  /\ \E w \in Tags : w.by = f /\ written' = Append(written, w)

LEMMA QuietLock ==
  ASSUME SType, NEW f \in Fibers, NEW step \in Steps, GoesTo(f, step),
         Pending(f) \/ step \notin PendingSteps,
         UNCHANGED <<draft, journal, written, pc, call, mutex>>,
         answer' = answer \/ answer' = [answer EXCEPT ![f] = 0]
  PROVE  SType' /\ Steady /\ UNCHANGED <<journal, written>>
  <1>1. at' \in [Fibers -> Steps] /\ answer' \in [Fibers -> Nat]
    BY DEF SType, GoesTo
  <1>2. \A g \in Fibers : Pending(g)' => Pending(g)
    BY DEF SType, GoesTo, Pending
  <1>3. \A g \in Fibers : /\ InCall(g)' <=> InCall(g)
                          /\ draft'[g].event = draft[g].event
    BY DEF InCall
  <1> QED
    BY <1>1, <1>2, <1>3 DEF SType, Steady

LEMMA DraftUpdate ==
  ASSUME SType, NEW f \in Fibers, NEW d \in Drafts, d.event = draft[f].event,
         draft' = [draft EXCEPT ![f] = d]
  PROVE  draft' \in [Fibers -> Drafts] /\ \A g \in Fibers : draft'[g].event = draft[g].event
  BY DEF SType

\* A step that only notes what it read on the draft.
LEMMA NotingLock ==
  ASSUME SType, NEW f \in Fibers, NEW step \in Steps, GoesTo(f, step), Pending(f),
         draft' = [draft EXCEPT ![f].count = Len(journal)]
           \/ draft' = [draft EXCEPT ![f].prev = Len(journal)],
         UNCHANGED <<answer, journal, written, pc, call, mutex>>
  PROVE  SType' /\ Steady /\ UNCHANGED <<journal, written>>
  <1>1. at' \in [Fibers -> Steps] /\ Len(journal) \in Nat
    BY DEF SType, GoesTo
  <1>2. /\ draft[f] \in Drafts
        /\ \A d \in Drafts, n \in Nat :
             /\ [d EXCEPT !.count = n] \in Drafts /\ [d EXCEPT !.count = n].event = d.event
             /\ [d EXCEPT !.prev = n] \in Drafts /\ [d EXCEPT !.prev = n].event = d.event
    BY DEF SType, Drafts
  <1>3. draft' \in [Fibers -> Drafts] /\ \A g \in Fibers : draft'[g].event = draft[g].event
    BY <1>1, <1>2, DraftUpdate
  <1>4. \A g \in Fibers : Pending(g)' => Pending(g)
    BY DEF SType, GoesTo, Pending
  <1>5. \A g \in Fibers : InCall(g)' <=> InCall(g)
    BY DEF InCall
  <1> QED
    BY <1>1, <1>3, <1>4, <1>5 DEF SType, Steady

LEMMA WriteStep ==
  ASSUME SType, NEW f \in Fibers, WriteEvent(f), UNCHANGED <<pc, call, mutex>>
  PROVE  SType' /\ Steady /\ (UNCHANGED <<journal, written>> \/ Appends(f))
  <1> DEFINE e == draft[f].event
             w == [prev |-> draft[f].prev, count |-> draft[f].count, by |-> f]
  <1>1. /\ at[f] = "append" /\ GoesTo(f, "release")
        /\ draft' = [draft EXCEPT ![f].prev = 0, ![f].count = 0]
        /\ \/ /\ journal' = Append(journal, e) /\ written' = Append(written, w)
              /\ \E id \in {0, Len(journal) + 1} : answer' = [answer EXCEPT ![f] = id]
           \/ answer' = [answer EXCEPT ![f] = 0] /\ UNCHANGED <<journal, written>>
    BY DEF WriteEvent
  <1>2. Pending(f) /\ e \in SidecarEvent
    BY <1>1 DEF SType, Pending, PendingSteps
  <1>3. draft[f] \in Drafts /\ w \in Tags /\ w.by = f
    BY DEF SType, Drafts, Tags
  <1>4. /\ at' \in [Fibers -> Steps] /\ ~Pending(f)'
        /\ \A g \in Fibers : Pending(g)' => Pending(g)
    BY <1>1 DEF SType, GoesTo, Pending, PendingSteps, Steps
  <1>5. \A d \in Drafts : /\ [d EXCEPT !.prev = 0, !.count = 0] \in Drafts
                          /\ [d EXCEPT !.prev = 0, !.count = 0].event = d.event
    BY DEF Drafts
  <1>6. draft' \in [Fibers -> Drafts] /\ \A g \in Fibers : draft'[g].event = draft[g].event
    <2>1. draft' = [draft EXCEPT ![f] = [draft[f] EXCEPT !.prev = 0, !.count = 0]]
      BY <1>1 DEF SType
    <2> QED
      BY <1>3, <1>5, <2>1, DraftUpdate
  <1>7. answer' \in [Fibers -> Nat]
    <2>1. Len(journal) \in Nat
      BY DEF SType
    <2>2. PICK id \in Nat : answer' = [answer EXCEPT ![f] = id]
      BY <1>1, <2>1
    <2> QED
      BY <2>2 DEF SType
  <1>8. journal' \in Seq(SidecarEvent) /\ written' \in Seq(Tags) /\ Len(written') = Len(journal')
    <2>1. CASE UNCHANGED <<journal, written>>
      BY <2>1 DEF SType
    <2>2. CASE journal' = Append(journal, e) /\ written' = Append(written, w)
      <3> HIDE DEF e, w
      <3>1. /\ journal \in Seq(SidecarEvent) /\ written \in Seq(Tags)
            /\ Len(written) = Len(journal)
        BY DEF SType
      <3>2. journal' \in Seq(SidecarEvent) /\ Len(journal') = Len(journal) + 1
        BY <1>2, <2>2, <3>1
      <3>3. written' \in Seq(Tags) /\ Len(written') = Len(written) + 1
        BY <1>3, <2>2, <3>1
      <3> QED
        BY <3>1, <3>2, <3>3
    <2> QED
      BY <1>1, <2>1, <2>2
  <1>9. \A g \in Fibers : InCall(g)' <=> InCall(g)
    BY DEF InCall
  <1>10. UNCHANGED <<journal, written>> \/ Appends(f)
    BY <1>1, <1>2, <1>3, <1>4 DEF Appends
  <1> QED
    BY <1>4, <1>6, <1>7, <1>8, <1>9, <1>10 DEF SType, Steady

LEMMA LockStep ==
  ASSUME SType, NEW f \in Fibers, Locking(f), UNCHANGED <<pc, call, completed, mutex>>
  PROVE  SType' /\ Steady /\ (UNCHANGED <<journal, written>> \/ Appends(f))
  <1>s. /\ PendingSteps \subseteq Steps /\ {"out", "release", "drop"} \subseteq Steps
        /\ {"out", "release", "drop"} \cap PendingSteps = {}
        /\ Entry(f) \in PendingSteps
    BY DEF PendingSteps, Steps, Entry
  <1>1. CASE Enter(f)
    <2>1. \E step \in PendingSteps : GoesTo(f, step)
      BY <1>s, <1>1 DEF Enter, PendingSteps
    <2> QED
      BY <1>s, <1>1, <2>1, QuietLock DEF Enter, Pending, PendingSteps
  <1>2. CASE Claim(f)
    <2>1. \E step \in PendingSteps \cup {"out"} : GoesTo(f, step)
      BY <1>2 DEF Claim, PendingSteps, Fails
    <2> QED
      BY <1>s, <1>2, <2>1, QuietLock DEF Claim, Fails, Pending, PendingSteps
  <1>3. CASE Record(f)
    <2>1. \E step \in PendingSteps \cup {"out"} : GoesTo(f, step)
      BY <1>s, <1>3 DEF Record, Fails
    <2> QED
      BY <1>s, <1>3, <2>1, QuietLock DEF Record, Fails, Pending, PendingSteps
  <1>4. CASE Stat(f) \/ Read(f) \/ Reclaim(f)
    <2>1. \E step \in PendingSteps : GoesTo(f, step)
      BY <1>4 DEF Stat, Read, Reclaim, PendingSteps
    <2> QED
      BY <1>s, <1>4, <2>1, QuietLock DEF Stat, Read, Reclaim, Pending, PendingSteps
  <1>5. CASE GiveUp(f)
    BY <1>s, <1>5, QuietLock DEF GiveUp, Fails
  <1>6. CASE Count(f) \/ ReadTail(f)
    <2>1. \E step \in PendingSteps : GoesTo(f, step)
      BY <1>6 DEF Count, ReadTail, PendingSteps
    <2> QED
      BY <1>s, <1>6, <2>1, NotingLock DEF Count, ReadTail, Pending, PendingSteps
  <1>7. CASE WriteEvent(f)
    BY <1>7, WriteStep
  <1>8. CASE Release(f) \/ Drop(f)
    <2>1. \E step \in {"out", "drop"} : GoesTo(f, step)
      BY <1>8 DEF Release, Drop
    <2> QED
      BY <1>s, <1>8, <2>1, QuietLock DEF Release, Drop
  <1> QED
    BY <1>1, <1>2, <1>3, <1>4, <1>5, <1>6, <1>7, <1>8 DEF Locking

-----------------------------------------------------------------------------
(* Steps of a call.                                                        *)

\* Only f moves, and nothing is appended.
OnlyMoves(f) ==
  /\ UNCHANGED <<journal, written>>
  /\ \A g \in Fibers \ {f} : pc'[g] = pc[g] /\ at'[g] = at[g] /\ draft'[g] = draft[g]

LEMMA CallMove ==
  ASSUME SType, NEW f \in Fibers, at[f] = "out", NEW place \in Places, Goes(f, place),
         place \in CallPlaces => f \in Callers,
         call' \in [Callers -> CallRecord], mutex' \in [Processes -> SUBSET Fibers],
         \/ UNCHANGED lockVars \/ Forget(f)
         \/ \E e \in SidecarEvent : Log(f, e)
  PROVE  /\ SType' /\ OnlyMoves(f) /\ pc'[f] = place
         /\ UNCHANGED lockVars \/ Forget(f) => ~Pending(f)'
         /\ \A e \in SidecarEvent : Log(f, e) => draft'[f].event = e
  <1>1. /\ pc' \in [Fibers -> Places] /\ pc'[f] = place
        /\ \A g \in Fibers \ {f} : pc'[g] = pc[g]
    BY DEF SType, Goes
  <1>2. \A g \in Fibers : InCall(g)' => g \in Callers
    BY <1>1 DEF SType, InCall
  <1>3. CASE UNCHANGED lockVars
    <2>1. UNCHANGED <<at, draft, answer, journal, written>>
      BY <1>3 DEF lockVars
    <2>2. ~Pending(f)' /\ \A g \in Fibers : Pending(g)' <=> Pending(g)
      BY <2>1 DEF Pending, PendingSteps
    <2>3. \A e \in SidecarEvent : ~Log(f, e)
      BY <2>1 DEF Log, GoesTo, SType
    <2> QED
      BY <1>1, <1>2, <2>1, <2>2, <2>3 DEF SType, OnlyMoves
  <1>4. CASE Forget(f)
    <2>1. UNCHANGED <<at, journal, written>> /\ ~Pending(f)'
      BY <1>4 DEF Forget, Pending, PendingSteps
    <2>2. \A e \in SidecarEvent : ~Log(f, e)
      BY <2>1 DEF Log, GoesTo, SType
    <2> QED
      BY <1>1, <1>2, <1>4, <2>1, <2>2, ForgetType DEF SType, OnlyMoves
  <1>5. ASSUME NEW e \in SidecarEvent, Log(f, e)
        PROVE  /\ SType' /\ OnlyMoves(f) /\ draft'[f].event = e
               /\ ~UNCHANGED lockVars /\ ~Forget(f)
    <2>1. /\ at' = [at EXCEPT ![f] = "enter"] /\ at' \in [Fibers -> Steps]
          /\ draft' \in [Fibers -> Drafts] /\ draft'[f].event = e
          /\ \A g \in Fibers : g # f => draft'[g] = draft[g]
          /\ UNCHANGED <<answer, journal, written>>
          /\ \A g \in Fibers : Pending(g)' => draft'[g].event \in SidecarEvent
      BY <1>5, LogType
    <2>2. at'[f] = "enter" /\ \A g \in Fibers \ {f} : at'[g] = at[g]
      BY <2>1 DEF SType
    <2> QED
      BY <1>1, <1>2, <2>1, <2>2 DEF SType, OnlyMoves, lockVars, Forget
  <1> QED
    BY <1>1, <1>3, <1>4, <1>5

LEMMA PermitKept ==
  ASSUME SInv, NEW f \in Fibers, NEW place \in Places, Goes(f, place), UNCHANGED mutex,
         place \notin PermitPlaces \/ pc[f] \in PermitPlaces
  PROVE  PermitIsExclusive' /\ mutex' \in [Processes -> SUBSET Fibers]
  BY DEF SInv, SType, PermitIsExclusive, Goes

LEMMA PermitGivenBack ==
  ASSUME SInv, NEW f \in Fibers, NEW place \in Places, Goes(f, place), place \notin PermitPlaces,
         mutex' = [mutex EXCEPT ![ProcessOf(f)] = @ \ {f}]
  PROVE  PermitIsExclusive' /\ mutex' \in [Processes -> SUBSET Fibers]
  <1>1. mutex \in [Processes -> SUBSET Fibers] /\ ProcessOf(f) \in Processes
    BY ProcessIsUnique DEF SInv, SType
  <1>2. \A g \in Fibers : pc'[g] \in PermitPlaces => g # f /\ mutex[ProcessOf(g)] = {g}
    BY DEF SInv, SType, PermitIsExclusive, Goes
  <1>3. \A g \in Fibers : g # f /\ mutex[ProcessOf(g)] = {g} => mutex'[ProcessOf(g)] = {g}
    BY <1>1, ProcessIsUnique
  <1> QED
    BY <1>1, <1>2, <1>3 DEF PermitIsExclusive

LEMMA PermitTaken ==
  ASSUME SInv, NEW f \in Fibers, Enqueue(f)
  PROVE  PermitIsExclusive' /\ mutex' \in [Processes -> SUBSET Fibers]
  <1>1. mutex \in [Processes -> SUBSET Fibers] /\ ProcessOf(f) \in Processes
    BY ProcessIsUnique DEF SInv, SType
  <1>2. /\ mutex[ProcessOf(f)] = {} /\ mutex' = [mutex EXCEPT ![ProcessOf(f)] = {f}]
        /\ pc' = [pc EXCEPT ![f] = "recheck"]
    BY DEF Enqueue, Goes
  <1>3. ASSUME NEW g \in Fibers, pc'[g] \in PermitPlaces PROVE mutex'[ProcessOf(g)] = {g}
    <2>1. CASE g = f
      BY <1>1, <1>2, <2>1
    <2>2. CASE g # f
      <3>1. mutex[ProcessOf(g)] = {g}
        BY <1>2, <1>3, <2>2 DEF SInv, SType, PermitIsExclusive
      <3>2. ProcessOf(g) # ProcessOf(f)
        BY <1>2, <3>1
      <3> QED
        BY <1>1, <1>2, <3>1, <3>2
    <2> QED
      BY <2>1, <2>2
  <1> QED
    BY <1>1, <1>2, <1>3 DEF PermitIsExclusive

\* A step of a call keeps the invariant if what it drafts is safe.
LEMMA SafeMove ==
  ASSUME SInv, NEW f \in Fibers, SType', PermitIsExclusive', OnlyMoves(f),
         Pending(f)' /\ Reserves(draft'[f].event) =>
           pc'[f] = "reserve" /\ Spent(ProcessOf(f), draft'[f].event.key)
  PROVE  SInv'
  <1>1. \A p, k : Spent(p, k)' <=> Spent(p, k)
    BY DEF OnlyMoves, Spent
  <1>2. OneReservationPerProcess'
    BY DEF SInv, OneReservationPerProcess, OnlyMoves
  <1>3. ReservingIsSafe'
    BY <1>1 DEF SInv, ReservingIsSafe, OnlyMoves, Pending
  <1> QED
    BY <1>2, <1>3 DEF SInv

LEMMA EndsType ==
  ASSUME SType, NEW f \in Fibers, Ends(f)
  PROVE  Goes(f, "end") /\ Forget(f) /\ call' \in [Callers -> CallRecord]
  BY DEF SType, Ends, NoCall, CallRecord, Verdicts

LEMMA CallType ==
  ASSUME SType, NEW f \in Callers
  PROVE  /\ call[f] \in CallRecord /\ call[f].key \in Keys \cup {NoKey}
         /\ Blocker(f) \in Nat
         /\ \A prior \in Nat : Duplicate(f, prior) \in SidecarEvent /\ ~Reserves(Duplicate(f, prior))
         /\ Allowed(f) \in SidecarEvent /\ Allowed(f).key = call[f].key
         /\ \A k \in Keys : [call EXCEPT ![f].key = k] \in [Callers -> CallRecord]
         /\ \A v \in Verdicts : [call EXCEPT ![f].verdict = v] \in [Callers -> CallRecord]
         /\ \A v \in Verdicts, dry \in BOOLEAN :
              [call EXCEPT ![f].verdict = v, ![f].dry = dry] \in [Callers -> CallRecord]
         /\ \A n \in Nat : [call EXCEPT ![f].id = n] \in [Callers -> CallRecord]
  <1>1. call[f] \in CallRecord
    BY DEF SType
  <1>2. /\ call[f].key \in Keys \cup {NoKey} /\ call[f].verdict \in Decisions
        /\ call[f].dry \in BOOLEAN
    BY <1>1 DEF CallRecord, Decisions
  <1>3. Blocking(journal, call[f].key) \subseteq Nat
    BY DEF SType, Blocking, ReservationsOf
  <1>4. Blocker(f) \in Nat
    BY <1>3, FirstIsMember DEF Blocker
  <1>5. \A prior \in Nat : Duplicate(f, prior) \in SidecarEvent /\ ~Reserves(Duplicate(f, prior))
    BY <1>2, EventShapes DEF Duplicate, Decisions
  <1>6. Allowed(f) \in SidecarEvent /\ Allowed(f).key = call[f].key
    <2>1. Allowed(f) \in SidecarEvent
      BY <1>2, EventShapes DEF Allowed
    <2> QED
      BY <2>1 DEF Allowed, Decision
  <1>7. \A r \in CallRecord : /\ \A k \in Keys : [r EXCEPT !.key = k] \in CallRecord
                              /\ \A v \in Verdicts : [r EXCEPT !.verdict = v] \in CallRecord
                              /\ \A v \in Verdicts, dry \in BOOLEAN :
                                   [r EXCEPT !.verdict = v, !.dry = dry] \in CallRecord
                              /\ \A n \in Nat : [r EXCEPT !.id = n] \in CallRecord
    BY DEF CallRecord
  <1>8. \A r \in CallRecord : [call EXCEPT ![f] = r] \in [Callers -> CallRecord]
    BY DEF SType
  <1> QED
    BY <1>1, <1>2, <1>4, <1>5, <1>6, <1>7, <1>8

\* A step after which f has nothing to reserve.
LEMMA PlainStep ==
  ASSUME SInv, NEW f \in Fibers, at[f] = "out", NEW place \in Places, Goes(f, place),
         place \in CallPlaces => f \in Callers,
         call' \in [Callers -> CallRecord],
         \/ UNCHANGED lockVars \/ Forget(f)
         \/ \E e \in SidecarEvent : Log(f, e) /\ ~Reserves(e),
         \/ UNCHANGED mutex /\ (place \notin PermitPlaces \/ pc[f] \in PermitPlaces)
         \/ mutex' = [mutex EXCEPT ![ProcessOf(f)] = @ \ {f}] /\ place \notin PermitPlaces
  PROVE  SInv'
  <1>1. PermitIsExclusive' /\ mutex' \in [Processes -> SUBSET Fibers]
    BY PermitKept, PermitGivenBack
  <1>2. SType
    BY DEF SInv
  <1>3. SType' /\ OnlyMoves(f)
    BY <1>1, <1>2, CallMove
  <1>4. ~(Pending(f)' /\ Reserves(draft'[f].event))
    BY <1>1, <1>2, CallMove
  <1> QED
    BY <1>1, <1>3, <1>4, SafeMove

\* The authoritative scan finds the key free, and what it drafts is safe.
LEMMA RescanStep ==
  ASSUME SInv, NEW f \in Fibers, Rescan(f)
  PROVE  SInv'
  <1>1. SType /\ f \in Callers /\ at[f] = "out" /\ pc[f] = "rescan" /\ Goes(f, "reserve")
    BY DEF SInv, SType, Rescan, Ready, InCall, CallPlaces
  <1>2. "reserve" \in Places
    BY DEF Places
  <1>3. CASE /\ Blocker(f) # 0 /\ Log(f, Duplicate(f, Blocker(f)))
             /\ call' = [call EXCEPT ![f].verdict = "denied"]
    <2>1. call' \in [Callers -> CallRecord]
      BY <1>1, <1>3, CallType DEF Verdicts
    <2>2. \E e \in SidecarEvent : Log(f, e) /\ ~Reserves(e)
      BY <1>1, <1>3, CallType
    <2> QED
      BY <1>1, <1>2, <2>1, <2>2, PlainStep DEF Rescan, PermitPlaces
  <1>4. CASE Blocker(f) = 0 /\ Log(f, Allowed(f)) /\ UNCHANGED call
    <2>1. PermitIsExclusive' /\ mutex' \in [Processes -> SUBSET Fibers]
      BY <1>1, <1>2, PermitKept DEF Rescan, PermitPlaces
    <2>2. call' \in [Callers -> CallRecord] /\ Allowed(f) \in SidecarEvent
          /\ Allowed(f).key = call[f].key
      BY <1>1, <1>4, CallType DEF SType
    <2>3. SType' /\ OnlyMoves(f) /\ pc'[f] = "reserve" /\ draft'[f].event = Allowed(f)
      BY <1>1, <1>2, <1>4, <2>1, <2>2, CallMove
    <2>4. Spent(ProcessOf(f), call[f].key)
      BY <1>1, <1>4, FreeIsSpent DEF Blocker
    <2> QED
      BY <2>1, <2>2, <2>3, <2>4, SafeMove
  <1> QED
    BY <1>3, <1>4 DEF Rescan

LEMMA CallStep ==
  ASSUME SInv, NEW f \in Fibers, Call(f)
  PROVE  SInv'
  <1>t. SType /\ call \in [Callers -> CallRecord]
    BY DEF SInv, SType
  <1>p. /\ {"idle", "refuse", "end"} \cup CallPlaces \subseteq Places
        /\ {"idle", "refuse", "end"} \cap CallPlaces = {} /\ PermitPlaces \subseteq CallPlaces
        /\ {"known", "scan", "approve", "mutex", "run", "outcome", "mark"} \cap PermitPlaces = {}
        /\ {"known", "scan", "approve", "mutex", "run", "outcome", "mark"} \subseteq CallPlaces
    BY DEF Places, CallPlaces, PermitPlaces
  <1>c. ASSUME NEW place \in CallPlaces, Ready(f, place) PROVE f \in Callers /\ at[f] = "out"
    BY <1>t, <1>c DEF Ready, SType, InCall
  <1>1. CASE Begin(f)
    <2>1. PICK k \in Keys : call' = [call EXCEPT ![f].key = k]
      BY <1>1 DEF Begin
    <2>2. f \in Callers /\ at[f] = "out" /\ call' \in [Callers -> CallRecord]
      BY <1>t, <1>1, <2>1, CallType DEF Begin, Ready
    <2> QED
      BY <1>p, <1>1, <2>2, PlainStep DEF Begin
  <1>2. CASE BeginCheckpoint(f)
    BY <1>t, <1>p, <1>2, EventShapes, PlainStep DEF BeginCheckpoint, Ready
  <1>3. CASE CheckKnown(f) \/ ScanFirst(f)
    <2>1. f \in Callers /\ at[f] = "out"
      BY <1>c, <1>p, <1>3 DEF CheckKnown, ScanFirst
    <2> QED
      BY <1>t, <1>p, <1>3, <2>1, CallType, PlainStep DEF CheckKnown, ScanFirst
  <1>4. CASE Refused(f)
    BY <1>t, <1>p, <1>4, EndsType, PlainStep DEF Refused, Ready
  <1>5. CASE Approve(f)
    <2>1. f \in Callers /\ at[f] = "out"
      BY <1>c, <1>p, <1>5 DEF Approve
    <2>2. CASE Ends(f)
      BY <1>t, <1>p, <1>5, <2>1, <2>2, EndsType, PlainStep DEF Approve
    <2>3. CASE \E v \in Verdicts, dry \in BOOLEAN :
                 call' = [call EXCEPT ![f].verdict = v, ![f].dry = dry]
      <3>0. PICK v \in Verdicts, dry \in BOOLEAN :
              call' = [call EXCEPT ![f].verdict = v, ![f].dry = dry]
        BY <2>3
      <3>1. call' \in [Callers -> CallRecord]
        BY <1>t, <2>1, <3>0, CallType
      <3>2. CASE Goes(f, "mutex") /\ UNCHANGED lockVars
        BY <1>p, <1>5, <2>1, <3>1, <3>2, PlainStep DEF Approve
      <3> QED
        BY <1>5, <2>2, <3>2 DEF Approve
    <2> QED
      BY <1>5, <2>2, <2>3 DEF Approve
  <1>6. CASE Enqueue(f)
    <2>1. f \in Callers /\ at[f] = "out" /\ "recheck" \in Places
      BY <1>c, <1>p, <1>6 DEF Enqueue, Places
    <2>2. PermitIsExclusive' /\ mutex' \in [Processes -> SUBSET Fibers]
      BY <1>6, PermitTaken
    <2>3. SType' /\ OnlyMoves(f) /\ ~Pending(f)'
      BY <1>t, <1>6, <2>1, <2>2, CallMove DEF Enqueue
    <2> QED
      BY <2>2, <2>3, SafeMove
  <1>7. CASE Recheck(f)
    <2>1. /\ f \in Callers /\ at[f] = "out" /\ pc[f] \in PermitPlaces
          /\ {"rescan", "reserve"} \subseteq Places
      BY <1>c, <1>p, <1>7 DEF Recheck, Ready, PermitPlaces, CallPlaces, Places
    <2>2. call' \in [Callers -> CallRecord]
      <3>1. "denied" \in Verdicts
        BY DEF Verdicts
      <3>2. CASE call' = [call EXCEPT ![f].verdict = "denied"]
        BY <1>t, <2>1, <3>1, <3>2, CallType
      <3>3. CASE UNCHANGED call
        BY <1>t, <3>3
      <3> QED
        BY <1>7, <3>2, <3>3 DEF Recheck
    <2> QED
      BY <1>t, <1>7, <2>1, <2>2, CallType, PlainStep DEF Recheck
  <1>8. CASE Rescan(f)
    BY <1>8, RescanStep
  <1>9. CASE Reserved(f)
    <2>1. f \in Callers /\ at[f] = "out"
      BY <1>c, <1>9 DEF Reserved, CallPlaces
    <2>2. CASE Ends(f)
      BY <1>t, <1>p, <1>9, <2>1, <2>2, EndsType, PlainStep DEF Reserved
    <2>3. CASE Goes(f, "run") /\ call' = [call EXCEPT ![f].id = answer[f]] /\ UNCHANGED lockVars
      <3>1. call' \in [Callers -> CallRecord]
        BY <1>t, <2>1, <2>3, CallType DEF SType
      <3> QED
        BY <1>p, <1>9, <2>1, <2>3, <3>1, PlainStep DEF Reserved
    <2> QED
      BY <1>9, <2>2, <2>3 DEF Reserved
  <1>10. CASE Run(f)
    <2>1. f \in Callers /\ at[f] = "out"
      BY <1>c, <1>p, <1>10 DEF Run
    <2>2. \E e \in SidecarEvent : Log(f, e) /\ ~Reserves(e)
      <3>1. call[f].id \in Nat
        BY <1>t, <2>1 DEF CallRecord
      <3> QED
        BY <1>10, <3>1, EventShapes DEF Run
    <2> QED
      BY <1>t, <1>p, <1>10, <2>1, <2>2, PlainStep DEF Run
  <1>11. CASE Recorded(f) \/ MarkCompleted(f)
    <2>1. f \in Callers /\ at[f] = "out"
      BY <1>c, <1>p, <1>11 DEF Recorded, MarkCompleted
    <2> QED
      BY <1>t, <1>p, <1>11, <2>1, EndsType, PlainStep DEF Recorded, MarkCompleted
  <1>12. CASE Interrupt(f)
    BY <1>t, <1>p, <1>12, EndsType, PlainStep DEF Interrupt, Ready
  <1> QED
    BY <1>1, <1>2, <1>3, <1>4, <1>5, <1>6, <1>7, <1>8, <1>9, <1>10, <1>11, <1>12 DEF Call

-----------------------------------------------------------------------------
(* Steps inside the journal lock.                                          *)

LEMMA AppendsKeepsSafe ==
  ASSUME SInv, NEW f \in Fibers, SType', Steady, Appends(f), UNCHANGED <<pc, mutex>>
  PROVE  SInv'
  <1> DEFINE e == draft[f].event
             n == Len(journal) + 1
  <1>1. SType /\ Pending(f) /\ e \in SidecarEvent /\ journal' = Append(journal, e)
    BY DEF SInv, SType, Appends
  <1>2. PICK w \in Tags : w.by = f /\ written' = Append(written, w)
    BY DEF Appends
  <1>3. /\ journal \in Seq(SidecarEvent) /\ Len(journal) \in Nat
        /\ written \in Seq(Tags) /\ Len(written) = Len(journal)
    BY <1>1 DEF SType
  <1>4. /\ \A i \in 1..Len(journal) : written'[i] = written[i]
        /\ written'[n] = w
    BY <1>2, <1>3
  <1>5. \A d : Failed(journal, d) => Failed(journal', d)
    BY <1>1, <1>3, FailureStays
  <1>6. \A k : ReservationsOf(journal', k) =
           IF Reserves(e) /\ e.key = k
           THEN ReservationsOf(journal, k) \cup {n} ELSE ReservationsOf(journal, k)
    BY <1>1, <1>3, ReservationsGrow
  <1>7. \A k : ReservationsOf(journal, k) \subseteq 1..Len(journal)
    BY DEF ReservationsOf
  <1>8. ASSUME NEW p, NEW k, Spent(p, k), ~(Reserves(e) /\ e.key = k /\ ProcessOf(f) = p)
        PROVE  Spent(p, k)'
    <2>1. ASSUME NEW d \in ReservationsOf(journal', k), ProcessOf(written'[d].by) = p
          PROVE  Failed(journal', d)
      <3>1. CASE d \in ReservationsOf(journal, k)
        BY <1>4, <1>5, <1>7, <1>8, <2>1, <3>1 DEF Spent
      <3>2. CASE d = n /\ Reserves(e) /\ e.key = k
        BY <1>2, <1>4, <1>8, <2>1, <3>2
      <3> QED
        BY <1>6, <2>1, <3>1, <3>2
    <2> QED
      BY <2>1 DEF Spent
  <1>9. Reserves(e) => pc[f] = "reserve" /\ Spent(ProcessOf(f), e.key)
    BY <1>1 DEF SInv, ReservingIsSafe
  <1>10. OneReservationPerProcess'
    <2>1. ASSUME NEW k \in Keys, NEW d \in ReservationsOf(journal', k),
                 NEW s \in ReservationsOf(journal', k), d < s,
                 ProcessOf(written'[d].by) = ProcessOf(written'[s].by)
          PROVE  Failed(journal', d)
      <3>1. d \in 1..Len(journal) \cup {n} /\ s \in 1..Len(journal) \cup {n}
        BY <1>6, <1>7
      <3>2. d \in 1..Len(journal) /\ d # n
        BY <1>3, <2>1, <3>1
      <3>3. d \in ReservationsOf(journal, k)
        BY <1>6, <3>2
      <3>4. CASE s \in ReservationsOf(journal, k)
        <4>1. ProcessOf(written[d].by) = ProcessOf(written[s].by)
          BY <1>4, <1>7, <2>1, <3>2, <3>4
        <4> QED
          BY <1>5, <2>1, <3>3, <3>4, <4>1 DEF SInv, OneReservationPerProcess
      <3>5. CASE s = n /\ Reserves(e) /\ e.key = k
        <4>1. ProcessOf(written[d].by) = ProcessOf(f)
          BY <1>2, <1>4, <2>1, <3>2, <3>5
        <4> QED
          BY <1>5, <1>9, <3>3, <3>5, <4>1 DEF Spent
      <3> QED
        BY <1>6, <2>1, <3>4, <3>5
    <2> QED
      BY <2>1 DEF OneReservationPerProcess
  <1>11. ReservingIsSafe'
    <2>1. ASSUME NEW g \in Fibers, Pending(g)', Reserves(draft'[g].event)
          PROVE  (pc[g] = "reserve" /\ Spent(ProcessOf(g), draft[g].event.key))'
      <3>1. Pending(g) /\ draft'[g].event = draft[g].event
        BY <2>1 DEF Steady
      <3>2. pc[g] = "reserve" /\ Spent(ProcessOf(g), draft[g].event.key)
        BY <2>1, <3>1 DEF SInv, ReservingIsSafe
      <3>3. CASE Reserves(e) /\ ProcessOf(f) = ProcessOf(g)
        <4>1. mutex[ProcessOf(f)] = {f} /\ mutex[ProcessOf(g)] = {g}
          BY <1>9, <3>2, <3>3 DEF SInv, PermitIsExclusive, PermitPlaces
        <4>2. f = g
          BY <3>3, <4>1
        <4> QED
          BY <2>1, <4>2 DEF Appends
      <3>4. CASE ~(Reserves(e) /\ ProcessOf(f) = ProcessOf(g))
        <4>1. PICK k : k = draft[g].event.key
          OBVIOUS
        <4>2. Spent(ProcessOf(g), k)'
          BY <1>8, <3>2, <3>4, <4>1
        <4>3. draft'[g].event.key = k
          BY <3>1, <4>1
        <4> QED
          BY <3>2, <4>2, <4>3 DEF Spent
      <3> QED
        BY <3>3, <3>4
    <2> QED
      BY <2>1 DEF ReservingIsSafe
  <1>12. PermitIsExclusive'
    BY DEF SInv, PermitIsExclusive
  <1> QED
    BY <1>10, <1>11, <1>12 DEF SInv

\* A step that appends nothing and in which nobody starts to append.
LEMMA StillStep ==
  ASSUME SInv, SType', UNCHANGED <<journal, written>>,
         \A g \in Fibers : /\ Pending(g)' => /\ Pending(g) /\ pc'[g] = pc[g]
                                             /\ draft'[g].event = draft[g].event
                           /\ pc'[g] \in PermitPlaces =>
                                pc[g] = pc'[g] /\ mutex'[ProcessOf(g)] = mutex[ProcessOf(g)]
  PROVE  SInv'
  <1>1. \A p, k : Spent(p, k)' <=> Spent(p, k)
    BY DEF Spent
  <1>2. OneReservationPerProcess'
    BY DEF SInv, OneReservationPerProcess
  <1>3. ReservingIsSafe'
    BY <1>1 DEF SInv, ReservingIsSafe
  <1>4. PermitIsExclusive'
    BY DEF SInv, PermitIsExclusive
  <1> QED
    BY <1>2, <1>3, <1>4 DEF SInv

LEMMA DieStep ==
  ASSUME SInv, NEW p \in Processes, Die(p)
  PROVE  SInv'
  <1>1. /\ at' = [f \in Fibers |-> IF f \in p THEN "out" ELSE at[f]]
        /\ draft' = [f \in Fibers |-> IF f \in p THEN NoDraft ELSE draft[f]]
        /\ answer' = [f \in Fibers |-> IF f \in p THEN 0 ELSE answer[f]]
        /\ pc' = [f \in Fibers |-> IF f \in p THEN "end" ELSE pc[f]]
        /\ call' = [f \in Callers |-> IF f \in p THEN NoCall ELSE call[f]]
        /\ mutex' = [mutex EXCEPT ![p] = {}]
        /\ UNCHANGED <<journal, written>>
    BY DEF Die, Kill
  <1>2. SType
    BY DEF SInv
  <1>3. NoDraft \in Drafts /\ NoCall \in CallRecord /\ "out" \in Steps /\ "end" \in Places
    BY DEF NoDraft, Drafts, NoCall, CallRecord, Verdicts, Steps, Places
  <1>4. /\ at' \in [Fibers -> Steps] /\ pc' \in [Fibers -> Places]
        /\ draft' \in [Fibers -> Drafts] /\ answer' \in [Fibers -> Nat]
        /\ call' \in [Callers -> CallRecord] /\ mutex' \in [Processes -> SUBSET Fibers]
    BY <1>1, <1>2, <1>3 DEF SType
  <1>5. \A g \in Fibers : /\ Pending(g)' => Pending(g) /\ g \notin p
                          /\ InCall(g)' => InCall(g)
                          /\ pc'[g] \in PermitPlaces => g \notin p
                          /\ g \notin p => pc'[g] = pc[g] /\ draft'[g] = draft[g]
    BY <1>1 DEF Pending, PendingSteps, InCall, CallPlaces, PermitPlaces
  <1>6. SType'
    BY <1>1, <1>2, <1>4, <1>5 DEF SType
  <1>7. \A g \in Fibers : g \notin p => mutex'[ProcessOf(g)] = mutex[ProcessOf(g)]
    BY <1>1, <1>2, ProcessIsUnique DEF SType
  <1> QED
    BY <1>1, <1>5, <1>6, <1>7, StillStep

-----------------------------------------------------------------------------
LEMMA InitSInv == Init => SInv
  <1> SUFFICES ASSUME Init PROVE SInv
    OBVIOUS
  <1>1. /\ at = [f \in Fibers |-> "out"] /\ draft = [f \in Fibers |-> NoDraft]
        /\ answer = [f \in Fibers |-> 0] /\ pc = [f \in Fibers |-> "idle"]
        /\ call = [f \in Callers |-> NoCall] /\ mutex = [p \in Processes |-> {}]
        /\ journal = << >> /\ written = << >>
    BY DEF Init, LockInit
  <1>2. NoDraft \in Drafts /\ NoCall \in CallRecord /\ "out" \in Steps /\ "idle" \in Places
    BY DEF NoDraft, Drafts, NoCall, CallRecord, Verdicts, Steps, Places
  <1>3. \A f \in Fibers : ~Pending(f) /\ ~InCall(f) /\ pc[f] \notin PermitPlaces
    BY <1>1 DEF Pending, PendingSteps, InCall, CallPlaces, PermitPlaces
  <1>4. SType
    BY <1>1, <1>2, <1>3 DEF SType
  <1>5. OneReservationPerProcess
    BY <1>1 DEF OneReservationPerProcess, ReservationsOf
  <1> QED
    BY <1>3, <1>4, <1>5 DEF SInv, PermitIsExclusive, ReservingIsSafe

LEMMA StepSInv == SInv /\ [Next]_vars => SInv'
  <1> SUFFICES ASSUME SInv, [Next]_vars PROVE SInv'
    OBVIOUS
  <1>t. SType
    BY DEF SInv
  <1>1. ASSUME NEW f \in Fibers, Call(f) PROVE SInv'
    BY <1>1, CallStep
  <1>2. ASSUME NEW f \in Fibers, Locking(f), UNCHANGED <<pc, call, completed, mutex>> PROVE SInv'
    <2>1. SType' /\ Steady /\ (UNCHANGED <<journal, written>> \/ Appends(f))
      BY <1>t, <1>2, LockStep
    <2>2. CASE Appends(f)
      BY <1>2, <2>1, <2>2, AppendsKeepsSafe
    <2>3. CASE UNCHANGED <<journal, written>>
      BY <1>2, <2>1, <2>3, StillStep DEF Steady
    <2> QED
      BY <2>1, <2>2, <2>3
  <1>3. ASSUME NEW p \in Processes, Die(p) PROVE SInv'
    BY <1>3, DieStep
  <1>4. CASE UNCHANGED <<at, draft, answer, journal, written, pc, call, mutex>>
    <2>1. SType'
      BY <1>t, <1>4 DEF SType, Pending, InCall
    <2> QED
      BY <1>4, <2>1, StillStep DEF Pending
  <1> QED
    BY <1>1, <1>2, <1>3, <1>4 DEF Next, Age, vars, lockVars

(***************************************************************************)
(* Of two reservations of one key by fibers of one process, the first has  *)
(* failed on record, for any number of fibers, processes and keys and      *)
(* however the journal lock was entered: reentered, overdue or replaced.   *)
(***************************************************************************)
THEOREM OneReservationInEachProcess == Spec => []OneReservationPerProcess
  <1>1. SInv => OneReservationPerProcess
    BY DEF SInv
  <1> QED
    BY <1>1, InitSInv, StepSInv, PTL DEF Spec
-----------------------------------------------------------------------------
(***************************************************************************)
(* The journal lock. While nobody reentered, overstayed, or lost a claim   *)
(* to a reclaim meant for another: whoever is in the section owns the      *)
(* claim at the path.                                                      *)
(***************************************************************************)

Types == {"decision", "outcome", "checkpoint"}
Files == [owner : SUBSET Fibers, for : Types \cup {"nothing"}, whole : BOOLEAN, aged : BOOLEAN]

\* What can be at the path: a claim has one owner.
Claims == {file \in Files : \E f \in Fibers : file.owner = {f}}

LockType ==
  /\ lockfile \in Claims \cup {NoFile} /\ seen \in [Fibers -> Claims \cup {NoFile}]
  /\ nested \in [Fibers -> BOOLEAN]
  /\ alive \subseteq Processes

\* Where a fiber is on its way to a claim, and where it has one.
Claiming == {"enter", "claim", "stat", "read", "reclaim", "poll"}
Holding  == {"record", "count", "tail", "append", "release", "drop"}

\* What a fiber at a place of its call appends, and the places before that.
Job(place, calls) ==
  IF place = "outcome" THEN "outcome"
  ELSE IF place = "reserve" THEN "decision"
  ELSE IF place = "refuse" THEN (IF calls THEN "decision" ELSE "checkpoint")
  ELSE "none"

Undecided == {"idle", "known", "scan", "approve", "mutex", "recheck", "rescan"}

Before(type) ==
  IF type = "checkpoint" THEN {"idle"}
  ELSE IF type = "decision" THEN Undecided
  ELSE IF type = "outcome" THEN Undecided \cup {"reserve", "run"}
  ELSE {}

\* f may yet claim the lock for an event of the type. It does so once.
May(f, type) == pc[f] \in Before(type) \/ (at[f] \in Claiming /\ draft[f].event.type = type)

WorksAt ==
  \A f \in Fibers : at[f] # "out" =>
    ProcessOf(f) \in alive /\ draft[f].event.type = Job(pc[f], f \in Callers)

\* A claim is told from any other by its owner and what it is for.
Same(a, b) == a.owner = b.owner /\ a.for = b.for
Once(file) == \A f \in Fibers : file.owner = {f} => ~May(f, file.for)

ClaimedOnce == Once(lockfile) /\ \A f \in Fibers : Once(seen[f])

\* A claim that was looked at and is still there has not become younger.
AgeIsKept(f) ==
  at[f] \in {"read", "reclaim"} =>
    /\ seen[f].owner # {}
    /\ Same(lockfile, seen[f]) /\ seen[f].aged => lockfile.aged

\* A claim that is about to be taken away is abandoned or overdue, or its record
\* names a pid of another host.
ReclaimIsJust(f) ==
  at[f] = "reclaim" /\ Same(lockfile, seen[f]) =>
    Dead(lockfile.owner) \/ lockfile.aged \/ (seen[f].whole /\ ~OneHost)

LooksAt == \A f \in Fibers : AgeIsKept(f) /\ ReclaimIsJust(f)

Exclusive ==
  gaps = {} => \A f \in Fibers : ~nested[f] /\ (at[f] \in Holding => Mine(f))

\* What the fiber in the section read of the journal still holds.
ReadRight ==
  gaps = {} => \A f \in Fibers :
    /\ at[f] = "append" => draft[f].prev = Len(journal)
    /\ at[f] \in {"tail", "append"} /\ draft[f].event.type = "checkpoint" =>
         draft[f].count = Len(journal)

LInv ==
  /\ LockType /\ WorksAt /\ ClaimedOnce /\ LooksAt /\ Exclusive /\ ReadRight
  /\ ChainHoldsWithoutGap

-----------------------------------------------------------------------------
LEMMA MineIsOwned ==
  ASSUME NEW f
  PROVE  Mine(f) <=> lockfile.owner = {f} /\ lockfile.for = draft[f].event.type
  BY DEF Mine, Exists, NoFile

LEMMA EventTypes ==
  ASSUME NEW e \in SidecarEvent
  PROVE  e.type \in Types
  <1>1. \A d \in Event : d.type \in {"decision", "outcome", "resolution"}
    BY DEF Event
  <1>2. Checkpoint.type = "checkpoint"
    BY DEF Checkpoint
  <1> QED
    BY <1>1, <1>2 DEF SidecarEvent, Types

LEMMA NoFileIsFile == NoFile \in Files /\ NoFile.owner = {} /\ \A f : NoFile.owner # {f}
  BY DEF NoFile, Files

\* Who is in the section is the only one there.
LEMMA OneHolder ==
  ASSUME Exclusive, gaps = {}, NEW f \in Fibers, NEW g \in Fibers,
         at[f] \in Holding, at[g] \in Holding
  PROVE  f = g
  BY MineIsOwned DEF Exclusive

\* One fiber moves within withJournalLock.
LEMMA FiberMoves ==
  ASSUME SType, LInv, NEW f \in Fibers, NEW step \in Steps, GoesTo(f, step), at[f] # "out",
         step \in Claiming => at[f] \in Claiming,
         UNCHANGED <<pc, alive>>, \A g \in Fibers : draft'[g].event = draft[g].event
  PROVE  /\ at'[f] = step /\ \A g \in Fibers : g # f => at'[g] = at[g]
         /\ WorksAt'
         /\ \A type : \A g \in Fibers : May(g, type)' => May(g, type)
  <1>1. at' = [at EXCEPT ![f] = step] /\ at \in [Fibers -> Steps]
    BY DEF GoesTo, SType
  <1>2. at'[f] = step /\ \A g \in Fibers : g # f => at'[g] = at[g]
    BY <1>1
  <1>3. \A g \in Fibers : at'[g] # "out" => at[g] # "out"
    BY <1>2
  <1>4. WorksAt'
    BY <1>3 DEF LInv, WorksAt
  <1>5. \A g \in Fibers : at'[g] \in Claiming => at[g] \in Claiming
    BY <1>2
  <1>6. \A type : \A g \in Fibers : May(g, type)' => May(g, type)
    BY <1>5 DEF May
  <1> QED
    BY <1>2, <1>4, <1>6

\* The claims that are known of were known of.
LEMMA ClaimsStay ==
  ASSUME LInv, \A type : \A g \in Fibers : May(g, type)' => May(g, type),
         lockfile'.owner = {} \/ Same(lockfile', lockfile),
         \A g \in Fibers : \/ seen'[g] = seen[g] \/ seen'[g].owner = {} \/ seen'[g] = lockfile
                           \/ Same(seen'[g], seen[g])
  PROVE  ClaimedOnce'
  <1>1. \A g \in Fibers : {} # {g}
    OBVIOUS
  <1>2. Once(lockfile)'
    BY <1>1 DEF LInv, ClaimedOnce, Once, Same
  <1>3. ASSUME NEW g \in Fibers PROVE Once(seen[g])'
    BY <1>1, <1>3 DEF LInv, ClaimedOnce, Once, Same
  <1> QED
    BY <1>2, <1>3 DEF ClaimedOnce

\* Who looks at a claim sees it age, or go.
LEMMA LookerStays ==
  ASSUME LInv, NEW g \in Fibers, at'[g] = at[g], seen'[g] = seen[g], alive' \subseteq alive,
         \/ lockfile'.owner = {}
         \/ Same(lockfile', lockfile) /\ (lockfile.aged => lockfile'.aged)
  PROVE  AgeIsKept(g)' /\ ReclaimIsJust(g)'
  <1>1. AgeIsKept(g) /\ ReclaimIsJust(g)
    BY DEF LInv, LooksAt
  <1>2. CASE lockfile'.owner = {}
    <2>1. at'[g] \in {"read", "reclaim"} => ~Same(lockfile', seen'[g])
      BY <1>1, <1>2 DEF AgeIsKept, Same
    <2> QED
      BY <1>1, <1>2, <2>1 DEF AgeIsKept, ReclaimIsJust
  <1>3. CASE Same(lockfile', lockfile) /\ (lockfile.aged => lockfile'.aged)
    <2>1. Same(lockfile', seen'[g]) => Same(lockfile, seen[g]) /\ lockfile'.owner = lockfile.owner
      BY <1>3 DEF Same
    <2>2. PICK o : o = lockfile.owner
      OBVIOUS
    <2>3. Dead(o) => Dead(o)'
      BY DEF Dead
    <2>6. lockfile'.owner = o
      BY <1>3, <2>2 DEF Same
    <2>4. AgeIsKept(g)'
      BY <1>1, <1>3, <2>1 DEF AgeIsKept
    <2>5. ReclaimIsJust(g)'
      BY <1>1, <1>3, <2>1, <2>2, <2>3, <2>6 DEF ReclaimIsJust, Dead
    <2> QED
      BY <2>4, <2>5
  <1> QED
    BY <1>2, <1>3

\* Whoever does not move stays in the section, or out of it.
LEMMA OthersStay ==
  ASSUME LInv, NEW f \in Fibers, gaps \subseteq gaps', UNCHANGED alive,
         \A g \in Fibers : g # f =>
           at'[g] = at[g] /\ nested'[g] = nested[g] /\ draft'[g].event = draft[g].event,
         gaps' = {} =>
           /\ ~nested'[f] /\ (at'[f] \in Holding => Mine(f)')
           /\ Same(lockfile', lockfile) \/ \A g \in Fibers : g # f => at[g] \notin Holding
  PROVE  Exclusive'
  <1> SUFFICES ASSUME gaps' = {}, NEW g \in Fibers, g # f
               PROVE  ~nested'[g] /\ (at'[g] \in Holding => Mine(g)')
    BY DEF Exclusive
  <1>1. gaps = {}
    OBVIOUS
  <1>2. ~nested[g] /\ (at[g] \in Holding => Mine(g))
    BY <1>1 DEF LInv, Exclusive
  <1>3. at[g] \in Holding => lockfile'.owner = lockfile.owner /\ lockfile'.for = lockfile.for
    BY DEF Same
  <1>4. ASSUME at'[g] \in Holding PROVE Mine(g)'
    <2>1. lockfile.owner = {g} /\ lockfile.for = draft[g].event.type
      BY <1>2, <1>4, MineIsOwned
    <2>2. lockfile'.owner = {g} /\ lockfile'.for = draft'[g].event.type
      BY <1>3, <1>4, <2>1
    <2>3. lockfile' # NoFile
      BY <2>2, NoFileIsFile
    <2> QED
      BY <2>2, <2>3 DEF Mine, Exists
  <1> QED
    BY <1>2, <1>4

\* Nothing is appended, and only f reads.
LEMMA ReadsStay ==
  ASSUME LInv, NEW f \in Fibers, gaps \subseteq gaps', UNCHANGED <<journal, written>>,
         \A g \in Fibers : g # f => at'[g] = at[g] /\ draft'[g] = draft[g],
         gaps' = {} =>
           /\ at'[f] = "append" => draft'[f].prev = Len(journal)
           /\ at'[f] \in {"tail", "append"} /\ draft'[f].event.type = "checkpoint" =>
                draft'[f].count = Len(journal)
  PROVE  ReadRight' /\ ChainHoldsWithoutGap'
  <1>1. gaps' = {} => gaps = {}
    OBVIOUS
  <1>2. ChainHoldsWithoutGap'
    BY <1>1 DEF LInv, ChainHoldsWithoutGap
  <1>3. ReadRight'
    BY <1>1 DEF LInv, ReadRight
  <1> QED
    BY <1>2, <1>3

\* A step of f in withJournalLock that appends nothing and claims nothing.
LEMMA LockMove ==
  ASSUME SType, LInv, NEW f \in Fibers, NEW step \in Steps, GoesTo(f, step), at[f] # "out",
         step \in Claiming => at[f] \in Claiming,
         UNCHANGED <<pc, alive, journal, written>>, LockType', gaps \subseteq gaps',
         draft'[f].event = draft[f].event,
         \A g \in Fibers : g # f =>
           draft'[g] = draft[g] /\ nested'[g] = nested[g] /\ seen'[g] = seen[g],
         \/ lockfile' = NoFile
         \/ Same(lockfile', lockfile) /\ (lockfile.aged => lockfile'.aged),
         seen'[f] \in {seen[f], lockfile, NoFile} \/ Same(seen'[f], seen[f]),
         AgeIsKept(f)' /\ ReclaimIsJust(f)',
         gaps' = {} =>
           /\ ~nested'[f] /\ (step \in Holding => Mine(f)')
           /\ Same(lockfile', lockfile) \/ \A g \in Fibers : g # f => at[g] \notin Holding
           /\ step = "append" => draft'[f].prev = Len(journal)
           /\ step \in {"tail", "append"} /\ draft'[f].event.type = "checkpoint" =>
                draft'[f].count = Len(journal)
  PROVE  LInv'
  <1>1. \A g \in Fibers : draft'[g].event = draft[g].event
    OBVIOUS
  <1>2. /\ at'[f] = step /\ \A g \in Fibers : g # f => at'[g] = at[g]
        /\ WorksAt'
        /\ \A type : \A g \in Fibers : May(g, type)' => May(g, type)
    BY <1>1, FiberMoves
  <1>3. ClaimedOnce'
    <2>1. lockfile'.owner = {} \/ Same(lockfile', lockfile)
      BY NoFileIsFile
    <2>2. \A g \in Fibers : \/ seen'[g] = seen[g] \/ seen'[g].owner = {} \/ seen'[g] = lockfile
                              \/ Same(seen'[g], seen[g])
      BY NoFileIsFile
    <2> QED
      BY <1>2, <2>1, <2>2, ClaimsStay
  <1>4. LooksAt'
    <2>1. ASSUME NEW g \in Fibers, g # f PROVE AgeIsKept(g)' /\ ReclaimIsJust(g)'
      <3>1. at'[g] = at[g] /\ seen'[g] = seen[g] /\ alive' \subseteq alive
        BY <1>2, <2>1
      <3>2. \/ lockfile'.owner = {}
            \/ Same(lockfile', lockfile) /\ (lockfile.aged => lockfile'.aged)
        BY NoFileIsFile
      <3> QED
        BY <3>1, <3>2, LookerStays
    <2> QED
      BY <2>1 DEF LooksAt
  <1>5. Exclusive'
    BY <1>1, <1>2, OthersStay
  <1>6. ReadRight' /\ ChainHoldsWithoutGap'
    BY <1>2, ReadsStay
  <1> QED
    BY <1>2, <1>3, <1>4, <1>5, <1>6 DEF LInv

-----------------------------------------------------------------------------
(* The steps inside withJournalLock.                                       *)

LEMMA ClaimShape ==
  ASSUME NEW f \in Fibers, NEW type \in Types
  PROVE  [owner |-> {f}, for |-> type, whole |-> FALSE, aged |-> FALSE] \in Claims
  BY DEF Claims, Files

LEMMA FileUpdates ==
  ASSUME NEW file \in Claims \cup {NoFile}, NEW b \in BOOLEAN
  PROVE  /\ Same([file EXCEPT !.whole = b], file) /\ Same([file EXCEPT !.aged = b], file)
         /\ [file EXCEPT !.whole = b].aged = file.aged /\ [file EXCEPT !.aged = b].aged = b
         /\ file \in Claims => /\ [file EXCEPT !.whole = b] \in Claims
                               /\ [file EXCEPT !.aged = b] \in Claims
         /\ [NoFile EXCEPT !.whole = FALSE] = NoFile
         /\ file # NoFile => file \in Claims
  <1>1. file \in Files
    BY NoFileIsFile DEF Claims
  <1>2. /\ [file EXCEPT !.whole = b] \in Files /\ [file EXCEPT !.aged = b] \in Files
        /\ [file EXCEPT !.whole = b].owner = file.owner
        /\ [file EXCEPT !.aged = b].owner = file.owner
        /\ [file EXCEPT !.whole = b].for = file.for /\ [file EXCEPT !.aged = b].for = file.for
        /\ [file EXCEPT !.whole = b].aged = file.aged /\ [file EXCEPT !.aged = b].aged = b
    BY <1>1 DEF Files
  <1>3. [NoFile EXCEPT !.whole = FALSE] = NoFile
    <2>1. \A r \in Files : ~r.whole => [r EXCEPT !.whole = FALSE] = r
      BY DEF Files
    <2>2. NoFile \in Files /\ ~NoFile.whole
      BY NoFileIsFile DEF NoFile
    <2> QED
      BY <2>1, <2>2
  <1> QED
    BY <1>2, <1>3 DEF Same, Claims

LEMMA EnterMoves ==
  ASSUME SType, LInv, NEW f \in Fibers, Enter(f), UNCHANGED pc
  PROVE  LInv'
  <1> DEFINE again == depth[ProcessOf(f)] > 0
             step == IF again THEN Entry(f) ELSE "claim"
  <1>1. /\ at[f] = "enter" /\ GoesTo(f, step)
        /\ nested' = [nested EXCEPT ![f] = again]
        /\ gaps' = IF again THEN gaps \cup {"reentered"} ELSE gaps
        /\ UNCHANGED <<lockfile, seen, draft, answer, journal, written, alive>>
    BY DEF Enter
  <1>2. /\ step \in Steps /\ (again => step \notin Claiming) /\ step \notin {"read", "reclaim"}
        /\ at[f] \in Claiming
    BY <1>1 DEF Entry, Steps, Claiming
  <1>3. LockType'
    <2>1. again \in BOOLEAN
      OBVIOUS
    <2> HIDE DEF again
    <2> QED
      BY <1>1, <2>1 DEF LInv, LockType
  <1>4. AgeIsKept(f)' /\ ReclaimIsJust(f)'
    BY <1>1, <1>2 DEF SType, GoesTo, AgeIsKept, ReclaimIsJust
  <1>5. gaps' = {} => ~again
    BY <1>1
  <1>6. gaps' = {} => ~nested'[f] /\ step = "claim"
    BY <1>1, <1>5 DEF LInv, LockType
  <1>7. \A g \in Fibers : g # f =>
          draft'[g] = draft[g] /\ nested'[g] = nested[g] /\ seen'[g] = seen[g]
    <2> HIDE DEF again
    <2> QED
      BY <1>1 DEF LInv, LockType
  <1>8. Same(lockfile', lockfile) /\ lockfile'.aged = lockfile.aged
    BY <1>1 DEF Same
  <1> HIDE DEF again, step
  <1> QED
    BY <1>1, <1>2, <1>3, <1>4, <1>6, <1>7, <1>8, LockMove DEF Holding

LEMMA RecordMoves ==
  ASSUME SType, LInv, NEW f \in Fibers, Record(f), UNCHANGED pc
  PROVE  LInv'
  <1>1. /\ at[f] = "record"
        /\ UNCHANGED <<depth, nested, seen, draft, journal, written, alive, gaps>>
    BY DEF Record
  <1>2. PICK b \in BOOLEAN, step \in {"out", "count", "tail"} :
          /\ GoesTo(f, step) /\ step \in {"out", Entry(f)}
          /\ lockfile' = [lockfile EXCEPT !.whole = b] \/ UNCHANGED lockfile
          /\ b => lockfile.whole \/ Exists
    <2>1. CASE Fails(f) /\ UNCHANGED lockfile
      BY <2>1 DEF Fails
    <2>2. CASE lockfile' = [lockfile EXCEPT !.whole = Mine(f) \/ @] /\ GoesTo(f, Entry(f))
      <3>1. Entry(f) \in {"count", "tail"} /\ (Mine(f) \/ lockfile.whole) \in BOOLEAN
        BY DEF Entry
      <3>2. lockfile' = [lockfile EXCEPT !.whole = Mine(f) \/ lockfile.whole]
        BY <2>2
      <3>3. Mine(f) => Exists
        BY DEF Mine
      <3> QED
        BY <2>2, <3>1, <3>2, <3>3
    <2> QED
      BY <2>1, <2>2 DEF Record
  <1>3. lockfile \in Claims \cup {NoFile} /\ (lockfile = NoFile => ~b)
    BY <1>2 DEF LInv, LockType, NoFile, Exists
  <1>4. Same(lockfile', lockfile) /\ lockfile'.aged = lockfile.aged
    <2>1. CASE UNCHANGED lockfile
      BY <2>1 DEF Same
    <2>2. CASE lockfile' = [lockfile EXCEPT !.whole = b]
      <3>1. PICK file \in Claims \cup {NoFile} : file = lockfile
        BY <1>3
      <3>2. /\ Same([file EXCEPT !.whole = b], file)
            /\ [file EXCEPT !.whole = b].aged = file.aged
        BY FileUpdates
      <3> QED
        BY <2>2, <3>1, <3>2
    <2> QED
      BY <1>2, <2>1, <2>2
  <1>5. lockfile' \in Claims \cup {NoFile}
    <2>1. CASE lockfile = NoFile
      BY <1>2, <1>3, <2>1, FileUpdates
    <2>2. CASE lockfile # NoFile
      <3>1. PICK file \in Claims : file = lockfile
        BY <1>3, <2>2
      <3>2. [file EXCEPT !.whole = b] \in Claims
        BY FileUpdates
      <3> QED
        BY <1>2, <3>1, <3>2
    <2> QED
      BY <2>1, <2>2
  <1>6. LockType'
    BY <1>1, <1>5 DEF LInv, LockType
  <1>7. step \in Steps /\ step \notin Claiming
    BY <1>2 DEF Steps, Claiming
  <1>8. AgeIsKept(f)' /\ ReclaimIsJust(f)'
    BY <1>2 DEF SType, GoesTo, AgeIsKept, ReclaimIsJust
  <1>9. gaps' = {} => ~nested'[f] /\ Mine(f)
    BY <1>1 DEF LInv, Exclusive, Holding
  <1>10. Mine(f) => Mine(f)'
    <2>1. lockfile'.owner = lockfile.owner /\ lockfile'.for = lockfile.for
      BY <1>4 DEF Same
    <2>2. lockfile.owner = {f} => lockfile' # NoFile
      BY <2>1, NoFileIsFile
    <2> QED
      BY <1>1, <2>1, <2>2 DEF Mine, Exists
  <1>11. step = "tail" => draft'[f].event.type # "checkpoint"
    BY <1>1, <1>2 DEF Entry
  <1> QED
    BY <1>1, <1>2, <1>4, <1>6, <1>7, <1>8, <1>9, <1>10, <1>11, LockMove

LEMMA LookMoves ==
  ASSUME SType, LInv, NEW f \in Fibers, Stat(f) \/ Read(f), UNCHANGED pc
  PROVE  LInv'
  <1>1. UNCHANGED <<lockfile, depth, nested, draft, answer, journal, written, alive, gaps>>
    BY DEF Stat, Read
  <1>2. PICK step \in {"read", "reclaim", "poll"} : GoesTo(f, step)
    BY DEF Stat, Read
  <1>3. /\ at[f] \in Claiming /\ step \in Steps \cap Claiming /\ step \notin Holding
        /\ at[f] # "out"
    BY <1>2 DEF Stat, Read, Claiming, Holding, Steps
  <1>4. PICK file \in Claims \cup {NoFile} :
          /\ seen' = [seen EXCEPT ![f] = file]
          /\ file \in {lockfile, NoFile} \/ Same(file, seen[f])
          /\ Read(f) /\ step = "reclaim" =>
               file.owner = seen[f].owner /\ file.for = seen[f].for /\ file.aged = seen[f].aged
                 /\ file.whole = lockfile.whole
    <2>1. CASE Stat(f)
      <3>1. seen' = [seen EXCEPT ![f] = lockfile] /\ at[f] = "stat" /\ lockfile \in Claims \cup {NoFile}
        BY <2>1 DEF Stat, LInv, LockType
      <3> QED
        BY <3>1 DEF Read
    <2>2. CASE Read(f) /\ seen' = [seen EXCEPT ![f] = NoFile] /\ step # "reclaim"
      BY <2>2
    <2>3. CASE Read(f) /\ seen' = [seen EXCEPT ![f].whole = lockfile.whole]
      <3> DEFINE file == [seen[f] EXCEPT !.whole = lockfile.whole]
      <3>1. /\ at[f] = "read" /\ seen[f] \in Claims \cup {NoFile} /\ seen[f].owner # {}
            /\ seen \in [Fibers -> Claims \cup {NoFile}]
            /\ lockfile \in Files
        BY <2>3, NoFileIsFile DEF Read, LInv, LooksAt, AgeIsKept, LockType, Claims
      <3>2. seen[f] \in Claims /\ lockfile.whole \in BOOLEAN
        BY <3>1, NoFileIsFile DEF Files
      <3>3. file \in Claims /\ Same(file, seen[f]) /\ file.aged = seen[f].aged
        <4>1. PICK c \in Claims, b \in BOOLEAN : c = seen[f] /\ b = lockfile.whole
          BY <3>2
        <4>2. c \in Claims \cup {NoFile} /\ c \in Claims
          OBVIOUS
        <4>3. /\ [c EXCEPT !.whole = b] \in Claims /\ Same([c EXCEPT !.whole = b], c)
              /\ [c EXCEPT !.whole = b].aged = c.aged
          BY <4>2, FileUpdates
        <4> QED
          BY <4>1, <4>3
      <3>4. file.whole = lockfile.whole
        BY <3>2 DEF Claims, Files
      <3>5. seen' = [seen EXCEPT ![f] = file]
        BY <2>3, <3>1
      <3> HIDE DEF file
      <3> QED
        BY <3>3, <3>4, <3>5 DEF Same
    <2>4. Read(f) => \/ seen' = [seen EXCEPT ![f] = NoFile] /\ GoesTo(f, "poll")
                     \/ seen' = [seen EXCEPT ![f].whole = lockfile.whole]
      BY DEF Read
    <2>5. GoesTo(f, "poll") => step # "reclaim"
      BY <1>2 DEF SType, GoesTo
    <2> QED
      BY <2>1, <2>2, <2>3, <2>4, <2>5
  <1>5. /\ seen'[f] = file
        /\ \A g \in Fibers : g # f => seen'[g] = seen[g]
        /\ LockType'
    BY <1>1, <1>4 DEF LInv, LockType
  <1>6. at'[f] = step
    BY <1>2 DEF SType, GoesTo
  <1>7. AgeIsKept(f)' /\ ReclaimIsJust(f)'
    <2>1. CASE Stat(f)
      <3>1. seen'[f] = lockfile /\ at'[f] = IF Exists THEN "read" ELSE "poll"
        BY <2>1 DEF Stat, SType, GoesTo, LInv, LockType
      <3>2. Exists => lockfile.owner # {}
        BY DEF Exists, LInv, LockType, Claims
      <3> QED
        BY <1>1, <3>1, <3>2 DEF AgeIsKept, ReclaimIsJust
    <2>2. CASE Read(f) /\ step = "reclaim"
      <3>1. at[f] = "read" /\ at'[f] = "reclaim"
        BY <1>6, <2>2 DEF Read
      <3>2. AgeIsKept(f)
        BY DEF LInv, LooksAt
      <3>3. AgeIsKept(f)'
        BY <1>1, <1>4, <1>5, <2>2, <3>1, <3>2 DEF AgeIsKept, Same
      <3>4. PICK running \in BOOLEAN : (running \/ MayBeGone(f)) /\ Stale(f, running)
        <4>1. ~GoesTo(f, "poll")
          BY <1>6, <2>2 DEF SType, GoesTo
        <4> QED
          BY <2>2, <4>1 DEF Read
      <3>5. Same(lockfile, seen[f]) =>
              Dead(lockfile.owner) \/ lockfile.aged \/ (lockfile.whole /\ ~OneHost)
        BY <3>1, <3>2, <3>4 DEF Stale, MayBeGone, AgeIsKept
      <3>6. Dead(lockfile.owner) => Dead(lockfile.owner)'
        BY <1>1 DEF Dead
      <3>7. Same(lockfile, seen'[f]) => Same(lockfile, seen[f])
        BY <1>4, <1>5, <2>2 DEF Same
      <3> QED
        BY <1>1, <1>4, <1>5, <2>2, <3>1, <3>3, <3>5, <3>6, <3>7 DEF ReclaimIsJust
    <2>3. CASE Read(f) /\ step # "reclaim"
      <3>1. at'[f] = "poll"
        BY <1>6, <2>3 DEF Read, SType, GoesTo
      <3> QED
        BY <3>1 DEF AgeIsKept, ReclaimIsJust
    <2> QED
      BY <2>1, <2>2, <2>3
  <1>8. Same(lockfile', lockfile) /\ lockfile'.aged = lockfile.aged
    BY <1>1 DEF Same
  <1>9. gaps' = {} => ~nested'[f]
    BY <1>1 DEF LInv, Exclusive
  <1>10. step \notin {"tail", "append"}
    BY <1>2
  <1> QED
    BY <1>1, <1>2, <1>3, <1>4, <1>5, <1>7, <1>8, <1>9, <1>10, LockMove

LEMMA AnotherOrSame ==
  ASSUME LInv, NEW f \in Fibers, ~Another(f)
  PROVE  Same(lockfile, seen[f])
  <1>1. lockfile \in Files /\ seen[f] \in Files
    BY NoFileIsFile DEF LInv, LockType, Claims
  <1>2. \A a, b \in Files :
          [a EXCEPT !.whole = TRUE, !.aged = TRUE] = [b EXCEPT !.whole = TRUE, !.aged = TRUE]
            => Same(a, b)
    BY DEF Files, Same
  <1> QED
    BY <1>1, <1>2 DEF Another

\* A claim is not taken from whoever is in the section, but through a gap.
LEMMA ReclaimTakesNoneHeld ==
  ASSUME SType, LInv, NEW f \in Fibers, Reclaim(f), gaps' = {}, NEW h \in Fibers
  PROVE  at[h] \notin Holding
  <1> SUFFICES ASSUME at[h] \in Holding PROVE FALSE
    OBVIOUS
  <1>1. /\ at[f] = "reclaim" /\ gaps = {}
        /\ gaps' = gaps \cup {g \in {"replaced", "overdue", "mistaken"} :
                       /\ Held
                       /\ g = "replaced" <=> Another(f)
                       /\ g = "overdue" => lockfile.aged
                       /\ g = "mistaken" => seen[f].whole /\ ~lockfile.aged}
    BY DEF Reclaim
  <1>0. Held => ~Another(f) /\ ~lockfile.aged /\ ~seen[f].whole
    <2>1. "replaced" \notin gaps' /\ "overdue" \notin gaps' /\ "mistaken" \notin gaps'
      OBVIOUS
    <2>2. Held => ~Another(f)
      BY <1>1, <2>1
    <2>3. Held /\ ~Another(f) => ~lockfile.aged
      BY <1>1, <2>1
    <2>4. Held /\ ~Another(f) /\ ~lockfile.aged => ~seen[f].whole
      BY <1>1, <2>1
    <2> QED
      BY <2>2, <2>3, <2>4
  <1>2. Mine(h) /\ ~nested[h]
    BY <1>1 DEF LInv, Exclusive
  <1>3. ProcessOf(h) \in alive /\ h \in ProcessOf(h) /\ lockfile.owner = {h}
    BY <1>2, ProcessIsUnique, MineIsOwned DEF LInv, WorksAt, Holding
  <1>4. Held
    <2>1. h \in UNION alive
      BY <1>3
    <2>2. at[h] = "record" \/ InSection(h)
      BY DEF Holding, InSection
    <2> QED
      BY <1>2, <2>1, <2>2 DEF Held
  <1>5. ~Another(f) /\ ~lockfile.aged /\ ~seen[f].whole
    BY <1>0, <1>4
  <1>6. Same(lockfile, seen[f])
    BY <1>5, AnotherOrSame
  <1>7. Dead(lockfile.owner)
    BY <1>1, <1>5, <1>6 DEF LInv, LooksAt, ReclaimIsJust
  <1> QED
    BY <1>3, <1>7 DEF Dead

LEMMA ReclaimMoves ==
  ASSUME SType, LInv, NEW f \in Fibers, Reclaim(f), UNCHANGED pc
  PROVE  LInv'
  <1>1. /\ at[f] = "reclaim" /\ lockfile' = NoFile /\ GoesTo(f, "poll")
        /\ seen' = [seen EXCEPT ![f] = NoFile] /\ gaps \subseteq gaps'
        /\ UNCHANGED <<depth, nested, draft, answer, journal, written, alive>>
    BY DEF Reclaim
  <1>2. "poll" \in Steps \cap Claiming /\ "poll" \notin Holding /\ at[f] \in Claiming
    BY <1>1 DEF Steps, Claiming, Holding
  <1>3. /\ seen'[f] = NoFile /\ LockType'
        /\ \A g \in Fibers : g # f => seen'[g] = seen[g]
    BY <1>1 DEF LInv, LockType
  <1>4. AgeIsKept(f)' /\ ReclaimIsJust(f)'
    BY <1>1 DEF SType, GoesTo, AgeIsKept, ReclaimIsJust
  <1>5. gaps' = {} => \A g \in Fibers : at[g] \notin Holding
    BY ReclaimTakesNoneHeld
  <1>6. gaps' = {} => ~nested'[f]
    BY <1>1 DEF LInv, Exclusive
  <1> QED
    BY <1>1, <1>2, <1>3, <1>4, <1>5, <1>6, LockMove

LEMMA LeaveMoves ==
  ASSUME SType, LInv, NEW f \in Fibers, GiveUp(f) \/ Release(f) \/ Drop(f), UNCHANGED pc
  PROVE  LInv'
  <1>1. /\ at[f] \in {"poll", "release", "drop"}
        /\ UNCHANGED <<seen, draft, journal, written, alive, gaps>>
    BY DEF GiveUp, Release, Drop
  <1>2. PICK step \in {"out", "drop"} : GoesTo(f, step) /\ (step = "drop" => Release(f) /\ Mine(f))
    BY DEF GiveUp, Release, Drop, Fails
  <1>3. /\ step \in Steps /\ step \notin Claiming /\ step \notin {"tail", "append"}
        /\ at[f] # "out"
    BY <1>1, <1>2 DEF Steps, Claiming
  <1>4. PICK b \in BOOLEAN : nested' = [nested EXCEPT ![f] = b] /\ (b => nested[f])
    BY DEF GiveUp, Release, Drop, LInv, LockType
  <1>5. UNCHANGED lockfile \/ (Drop(f) /\ lockfile' = NoFile)
    BY DEF GiveUp, Release, Drop
  <1>6. LockType' /\ nested'[f] = b /\ \A g \in Fibers : g # f => nested'[g] = nested[g]
    BY <1>1, <1>4, <1>5 DEF LInv, LockType
  <1>7. AgeIsKept(f)' /\ ReclaimIsJust(f)'
    BY <1>2 DEF SType, GoesTo, AgeIsKept, ReclaimIsJust
  <1>8. gaps' = {} => ~nested'[f]
    BY <1>1, <1>4, <1>6 DEF LInv, Exclusive
  <1>9. step = "drop" => Mine(f)'
    <2>1. step = "drop" => UNCHANGED <<lockfile, draft>>
      BY <1>2 DEF Release
    <2> QED
      BY <1>2, <2>1 DEF Mine, Exists
  <1>10. gaps' = {} => UNCHANGED lockfile \/ \A g \in Fibers : g # f => at[g] \notin Holding
    <2>1. Drop(f) => at[f] \in Holding
      BY DEF Drop, Holding
    <2> QED
      BY <1>1, <1>5, <2>1, OneHolder DEF LInv
  <1>11. Same(lockfile, lockfile)
    BY DEF Same
  <1>12. step \in Holding => step = "drop"
    BY <1>2 DEF Holding
  <1> QED
    BY <1>1, <1>2, <1>3, <1>5, <1>6, <1>7, <1>8, <1>9, <1>10, <1>11, <1>12, LockMove

\* What is noted on a draft.
LEMMA CountNoted ==
  ASSUME SType, NEW f \in Fibers, NEW n \in Nat, draft' = [draft EXCEPT ![f].count = n]
  PROVE  /\ draft'[f].count = n /\ draft'[f].event = draft[f].event
         /\ \A g \in Fibers : g # f => draft'[g] = draft[g]
  <1>1. draft[f] \in Drafts
    BY DEF SType
  <1>2. \A d \in Drafts : [d EXCEPT !.count = n].count = n /\ [d EXCEPT !.count = n].event = d.event
    BY DEF Drafts
  <1>3. draft' = [draft EXCEPT ![f] = [draft[f] EXCEPT !.count = n]]
    BY DEF SType
  <1> QED
    BY <1>1, <1>2, <1>3 DEF SType

LEMMA TailNoted ==
  ASSUME SType, NEW f \in Fibers, NEW n \in Nat, draft' = [draft EXCEPT ![f].prev = n]
  PROVE  /\ draft'[f].prev = n /\ draft'[f].count = draft[f].count
         /\ draft'[f].event = draft[f].event
         /\ \A g \in Fibers : g # f => draft'[g] = draft[g]
  <1>1. draft[f] \in Drafts
    BY DEF SType
  <1>2. \A d \in Drafts : /\ [d EXCEPT !.prev = n].prev = n /\ [d EXCEPT !.prev = n].count = d.count
                          /\ [d EXCEPT !.prev = n].event = d.event
    BY DEF Drafts
  <1>3. draft' = [draft EXCEPT ![f] = [draft[f] EXCEPT !.prev = n]]
    BY DEF SType
  <1> QED
    BY <1>1, <1>2, <1>3 DEF SType

\* The fiber in the section keeps its claim while it reads the journal and appends.
LEMMA StaysInSection ==
  ASSUME LInv, NEW f \in Fibers, at[f] \in Holding, UNCHANGED <<lockfile, nested, gaps>>,
         draft'[f].event = draft[f].event
  PROVE  /\ gaps' = {} => ~nested'[f] /\ Mine(f)'
         /\ Same(lockfile', lockfile) /\ (lockfile.aged => lockfile'.aged)
  <1>1. gaps = {} => ~nested[f] /\ Mine(f)
    BY DEF LInv, Exclusive
  <1>2. Mine(f) => Mine(f)'
    BY DEF Mine, Exists
  <1> QED
    BY <1>1, <1>2 DEF Same

LEMMA ReadsMove ==
  ASSUME SType, LInv, NEW f \in Fibers, Count(f) \/ ReadTail(f), UNCHANGED pc
  PROVE  LInv'
  <1>1. UNCHANGED <<lockfile, depth, nested, seen, answer, journal, written, alive, gaps>>
    BY DEF Count, ReadTail
  <1>2. /\ at[f] \in Holding /\ at[f] # "out" /\ {"tail", "append"} \subseteq Steps
        /\ {"tail", "append"} \cap Claiming = {}
    BY DEF Count, ReadTail, Holding, Steps, Claiming
  <1>3. PICK n \in Nat : n = Len(journal)
    BY DEF SType
  <1>4. LockType'
    BY <1>1 DEF LInv, LockType
  <1>5. CASE Count(f)
    <2>1. GoesTo(f, "tail") /\ draft' = [draft EXCEPT ![f].count = n]
      BY <1>3, <1>5 DEF Count
    <2>2. /\ draft'[f].count = n /\ draft'[f].event = draft[f].event
          /\ \A g \in Fibers : g # f => draft'[g] = draft[g]
      BY <2>1, CountNoted
    <2>3. AgeIsKept(f)' /\ ReclaimIsJust(f)'
      BY <2>1 DEF SType, GoesTo, AgeIsKept, ReclaimIsJust
    <2>4. /\ gaps' = {} => ~nested'[f] /\ Mine(f)'
          /\ Same(lockfile', lockfile) /\ (lockfile.aged => lockfile'.aged)
      BY <1>1, <1>2, <2>2, StaysInSection
    <2> QED
      BY <1>1, <1>2, <1>3, <1>4, <2>1, <2>2, <2>3, <2>4, LockMove
  <1>6. CASE ReadTail(f)
    <2>1. /\ GoesTo(f, "append") /\ draft' = [draft EXCEPT ![f].prev = n]
          /\ at[f] = "tail"
      BY <1>3, <1>6 DEF ReadTail
    <2>2. /\ draft'[f].prev = n /\ draft'[f].count = draft[f].count
          /\ draft'[f].event = draft[f].event
          /\ \A g \in Fibers : g # f => draft'[g] = draft[g]
      BY <2>1, TailNoted
    <2>3. AgeIsKept(f)' /\ ReclaimIsJust(f)'
      BY <2>1 DEF SType, GoesTo, AgeIsKept, ReclaimIsJust
    <2>4. /\ gaps' = {} => ~nested'[f] /\ Mine(f)'
          /\ Same(lockfile', lockfile) /\ (lockfile.aged => lockfile'.aged)
      BY <1>1, <1>2, <2>2, StaysInSection
    <2>5. gaps' = {} /\ draft'[f].event.type = "checkpoint" => draft'[f].count = n
      BY <1>1, <1>3, <2>1, <2>2 DEF LInv, ReadRight
    <2> QED
      BY <1>1, <1>2, <1>3, <1>4, <2>1, <2>2, <2>3, <2>4, <2>5, LockMove
  <1> QED
    BY <1>5, <1>6

LEMMA ClaimMoves ==
  ASSUME SType, LInv, NEW f \in Fibers, Claim(f), UNCHANGED pc
  PROVE  LInv'
  <1>1. /\ at[f] \in {"claim", "poll"}
        /\ UNCHANGED <<depth, nested, seen, draft, journal, written, alive, gaps>>
    BY DEF Claim
  <1>2. at[f] \in Claiming /\ at[f] # "out" /\ {"stat", "record", "out"} \subseteq Steps
    BY <1>1 DEF Claiming, Steps
  <1>3. gaps' = {} => ~nested'[f]
    BY <1>1 DEF LInv, Exclusive
  <1>4. ASSUME NEW step \in {"stat", "out"}, GoesTo(f, step), UNCHANGED lockfile PROVE LInv'
    <2>2. LockType' /\ Same(lockfile', lockfile) /\ lockfile'.aged = lockfile.aged
      BY <1>1, <1>4 DEF LInv, LockType, Same
    <2>3. AgeIsKept(f)' /\ ReclaimIsJust(f)'
      BY <1>4 DEF SType, GoesTo, AgeIsKept, ReclaimIsJust
    <2>4. step \notin Holding /\ step \notin {"tail", "append"} /\ step \in Steps
      BY <1>2 DEF Holding
    <2> QED
      BY <1>1, <1>2, <1>3, <1>4, <2>2, <2>3, <2>4, LockMove
  <1>5. CASE /\ ~Exists /\ GoesTo(f, "record")
             /\ lockfile' = [owner |-> {f}, for |-> draft[f].event.type, whole |-> FALSE, aged |-> FALSE]
    <2> DEFINE type == draft[f].event.type
    <2>1. /\ GoesTo(f, "record") /\ lockfile = NoFile
          /\ lockfile' = [owner |-> {f}, for |-> type, whole |-> FALSE, aged |-> FALSE]
      BY <1>5 DEF Exists
    <2>2. type \in Types
      <3>1. draft[f].event \in SidecarEvent
        BY <1>1 DEF SType, Pending, PendingSteps
      <3> QED
        BY <3>1, EventTypes
    <2>3. lockfile' \in Claims /\ lockfile'.owner = {f} /\ lockfile'.for = type
      BY <2>1, <2>2, ClaimShape
    <2>4. LockType'
      BY <1>1, <2>3 DEF LInv, LockType
    <2>5. "record" \notin Claiming
      BY DEF Claiming
    <2>6. /\ at'[f] = "record" /\ \A g \in Fibers : g # f => at'[g] = at[g]
          /\ WorksAt'
          /\ \A t : \A g \in Fibers : May(g, t)' => May(g, t)
      BY <1>1, <1>2, <2>1, <2>5, FiberMoves
    <2>7. May(f, type)
      BY <1>2 DEF May
    <2>8. ~May(f, type)'
      <3>1. type = Job(pc[f], f \in Callers)
        BY <1>2 DEF LInv, WorksAt
      <3>2. pc[f] \notin Before(type)
        BY <3>1 DEF Before, Job, Undecided
      <3> QED
        BY <1>1, <2>5, <2>6, <3>2 DEF May
    <2>9. ClaimedOnce'
      <3>1. ASSUME NEW g \in Fibers PROVE Once(seen[g])'
        <4>1. Once(seen[g])
          BY DEF LInv, ClaimedOnce
        <4> QED
          BY <1>1, <2>6, <4>1 DEF Once
      <3>2. Once(lockfile)'
        <4>1. \A g \in Fibers : lockfile'.owner = {g} => g = f
          BY <2>3
        <4>2. PICK t : t = type
          OBVIOUS
        <4>3. lockfile'.for = t /\ ~May(f, t)'
          BY <1>1, <2>3, <2>8, <4>2 DEF May
        <4> QED
          BY <4>1, <4>3 DEF Once, May
      <3> QED
        BY <3>1, <3>2 DEF ClaimedOnce
    <2>10. \A g \in Fibers : ~Same(lockfile', seen[g])
      <3>1. \A g \in Fibers : Once(seen[g])
        BY DEF LInv, ClaimedOnce
      <3> QED
        BY <2>3, <2>7, <3>1 DEF Same, Once
    <2>11. LooksAt'
      <3>1. ASSUME NEW g \in Fibers PROVE AgeIsKept(g)' /\ ReclaimIsJust(g)'
        <4>1. ~Same(lockfile', seen'[g])
          BY <1>1, <2>10
        <4>2. at'[g] \in {"read", "reclaim"} => seen'[g].owner # {}
          BY <1>1, <2>6 DEF LInv, LooksAt, AgeIsKept
        <4> QED
          BY <4>1, <4>2 DEF AgeIsKept, ReclaimIsJust
      <3> QED
        BY <3>1 DEF LooksAt
    <2>12. gaps = {} => \A g \in Fibers : at[g] \notin Holding
      BY <1>5 DEF LInv, Exclusive, Mine
    <2>13. Mine(f)'
      <3>1. lockfile' # NoFile
        BY <2>3, NoFileIsFile
      <3> QED
        BY <1>1, <2>3, <3>1 DEF Mine, Exists
    <2>14. Exclusive'
      BY <1>1, <1>3, <2>6, <2>12, <2>13, OthersStay
    <2>15. ReadRight' /\ ChainHoldsWithoutGap'
      BY <1>1, <2>6, ReadsStay
    <2> QED
      BY <2>4, <2>6, <2>9, <2>11, <2>14, <2>15 DEF LInv
  <1> QED
    BY <1>4, <1>5 DEF Claim, Fails

LEMMA WriteMoves ==
  ASSUME SType, SType', LInv, NEW f \in Fibers, WriteEvent(f), UNCHANGED pc
  PROVE  LInv'
  <1> DEFINE e == draft[f].event
             w == [prev |-> draft[f].prev, count |-> draft[f].count, by |-> f]
  <1>1. /\ at[f] = "append" /\ GoesTo(f, "release")
        /\ draft' = [draft EXCEPT ![f].prev = 0, ![f].count = 0]
        /\ \/ journal' = Append(journal, e) /\ written' = Append(written, w)
           \/ UNCHANGED <<journal, written>>
        /\ UNCHANGED <<lockfile, depth, nested, seen, alive, gaps>>
    BY DEF WriteEvent
  <1>2. at[f] \in Holding /\ at[f] # "out" /\ "release" \in Steps /\ "release" \notin Claiming
    BY <1>1 DEF Holding, Steps, Claiming
  <1>3. /\ draft'[f].event = draft[f].event
        /\ \A g \in Fibers : g # f => draft'[g] = draft[g]
    <2>1. draft' = [draft EXCEPT ![f] = [draft[f] EXCEPT !.prev = 0, !.count = 0]]
      BY <1>1 DEF SType
    <2>2. draft[f] \in Drafts
      BY DEF SType
    <2>3. \A d \in Drafts : [d EXCEPT !.prev = 0, !.count = 0].event = d.event
      BY DEF Drafts
    <2> QED
      BY <2>1, <2>2, <2>3 DEF SType
  <1>4. LockType'
    BY <1>1 DEF LInv, LockType
  <1>5. /\ at'[f] = "release" /\ \A g \in Fibers : g # f => at'[g] = at[g]
        /\ WorksAt'
        /\ \A t : \A g \in Fibers : May(g, t)' => May(g, t)
    BY <1>1, <1>2, <1>3, FiberMoves
  <1>6. /\ gaps' = {} => ~nested'[f] /\ Mine(f)'
        /\ Same(lockfile', lockfile) /\ (lockfile.aged => lockfile'.aged)
    BY <1>1, <1>2, <1>3, StaysInSection
  <1>7. ClaimedOnce'
    BY <1>1, <1>5, <1>6, ClaimsStay
  <1>8. LooksAt'
    <2>1. ASSUME NEW g \in Fibers, g # f PROVE AgeIsKept(g)' /\ ReclaimIsJust(g)'
      <3>1. at'[g] = at[g] /\ seen'[g] = seen[g] /\ alive' \subseteq alive
        BY <1>1, <1>5, <2>1
      <3> QED
        BY <1>6, <3>1, LookerStays
    <2>2. AgeIsKept(f)' /\ ReclaimIsJust(f)'
      BY <1>5 DEF AgeIsKept, ReclaimIsJust
    <2> QED
      BY <2>1, <2>2 DEF LooksAt
  <1>9. Exclusive'
    BY <1>1, <1>3, <1>5, <1>6, OthersStay
  <1>10. ReadRight'
    <2>1. gaps = {} => \A g \in Fibers : g # f => at[g] \notin {"tail", "append"}
      BY <1>2, OneHolder DEF LInv, Holding
    <2> QED
      BY <1>1, <1>5, <2>1 DEF ReadRight
  <1>11. ChainHoldsWithoutGap'
    <2>1. SUFFICES ASSUME gaps = {}, journal' = Append(journal, e), written' = Append(written, w)
                   PROVE  ChainHoldsWithoutGap'
      BY <1>1 DEF LInv, ChainHoldsWithoutGap
    <2>2. PICK n \in Nat : n = Len(journal)
      BY DEF SType
    <2>3. /\ draft[f].prev = n
          /\ e.type = "checkpoint" => draft[f].count = n
      BY <1>1, <2>1, <2>2 DEF LInv, ReadRight
    <2>4. e \in SidecarEvent /\ w \in Tags
      BY <1>1 DEF SType, Pending, PendingSteps, Drafts, Tags
    <2>5. w.prev = draft[f].prev /\ w.count = draft[f].count
      OBVIOUS
    <2> HIDE DEF e, w
    <2>6. /\ journal' \in Seq(SidecarEvent) /\ Len(journal') = n + 1
          /\ journal'[n + 1] = e /\ \A i \in 1..n : journal'[i] = journal[i]
      BY <2>1, <2>2, <2>4 DEF SType
    <2>7. written'[n + 1] = w /\ \A i \in 1..n : written'[i] = written[i]
      BY <2>1, <2>2, <2>4 DEF SType
    <2>8. ASSUME NEW i \in 1..Len(journal')
          PROVE  /\ written'[i].prev = i - 1
                 /\ journal'[i].type = "checkpoint" => written'[i].count = i - 1
      <3>1. CASE i \in 1..n
        BY <2>1, <2>2, <2>6, <2>7, <3>1 DEF LInv, ChainHoldsWithoutGap
      <3>2. CASE i = n + 1
        BY <2>3, <2>5, <2>6, <2>7, <3>2
      <3> QED
        BY <2>6, <2>8, <3>1, <3>2
    <2> QED
      BY <2>8 DEF ChainHoldsWithoutGap
  <1> QED
    BY <1>4, <1>5, <1>7, <1>8, <1>9, <1>10, <1>11 DEF LInv

LEMMA LockKeepsLInv ==
  ASSUME SType, LInv, NEW f \in Fibers, Locking(f), UNCHANGED <<pc, call, completed, mutex>>
  PROVE  LInv'
  <1>1. SType'
    BY LockStep
  <1>2. CASE Enter(f)
    BY <1>2, EnterMoves
  <1>3. CASE Claim(f)
    BY <1>3, ClaimMoves
  <1>4. CASE Record(f)
    BY <1>4, RecordMoves
  <1>5. CASE Stat(f) \/ Read(f)
    BY <1>5, LookMoves
  <1>6. CASE Reclaim(f)
    BY <1>6, ReclaimMoves
  <1>7. CASE GiveUp(f) \/ Release(f) \/ Drop(f)
    BY <1>7, LeaveMoves
  <1>8. CASE Count(f) \/ ReadTail(f)
    BY <1>8, ReadsMove
  <1>9. CASE WriteEvent(f)
    BY <1>1, <1>9, WriteMoves
  <1> QED
    BY <1>2, <1>3, <1>4, <1>5, <1>6, <1>7, <1>8, <1>9 DEF Locking

-----------------------------------------------------------------------------
(* The steps of a call.                                                    *)

\* The call goes on from before its claims, or starts the append of its job.
Proceeds(f) ==
  /\ at[f] = "out" /\ ProcessOf(f) \in alive
  /\ UNCHANGED <<lockfile, nested, seen, journal, written, alive, gaps>>
  /\ \A g \in Fibers \ {f} : pc'[g] = pc[g] /\ at'[g] = at[g] /\ draft'[g] = draft[g]
  /\ \A type \in Types : pc'[f] \in Before(type) => pc[f] \in Before(type)
  /\ \/ at'[f] = "out"
     \/ /\ at'[f] = "enter" /\ draft'[f].event.type = Job(pc'[f], f \in Callers)
        /\ pc[f] \in Before(draft'[f].event.type)

LEMMA ProceedsKeepsLInv ==
  ASSUME SType, LInv, NEW f \in Fibers, Proceeds(f)
  PROVE  LInv'
  <1>1. LockType'
    BY DEF LInv, LockType, Proceeds
  <1>2. WorksAt'
    BY DEF LInv, WorksAt, Proceeds
  <1>3. \A type \in Types : \A g \in Fibers : May(g, type)' => May(g, type)
    BY DEF May, Proceeds, Claiming
  <1>4. ASSUME NEW file \in Claims \cup {NoFile}, Once(file) PROVE Once(file)'
    <2>1. ASSUME NEW g \in Fibers, file.owner = {g} PROVE ~May(g, file.for)'
      <3>1. file.for \in Types \/ file.for = "nothing"
        BY NoFileIsFile DEF Claims, Files
      <3>2. CASE file.for \in Types
        BY <1>3, <1>4, <2>1, <3>2 DEF Once
      <3>3. CASE file.for = "nothing"
        <4>1. Before("nothing") = {}
          BY DEF Before
        <4>2. at'[g] \in Claiming => draft'[g].event.type # "nothing"
          BY <1>2 DEF WorksAt, Job, Claiming
        <4> QED
          BY <3>3, <4>1, <4>2 DEF May
      <3> QED
        BY <3>1, <3>2, <3>3
    <2> QED
      BY <2>1 DEF Once
  <1>5. ClaimedOnce'
    <2>1. PICK file \in Claims \cup {NoFile} : file = lockfile
      BY DEF LInv, LockType
    <2>2. Once(lockfile)'
      <3>1. Once(file)'
        BY <1>4, <2>1 DEF LInv, ClaimedOnce
      <3>2. lockfile' = file
        BY <2>1 DEF Proceeds
      <3> QED
        BY <3>1, <3>2 DEF Once
    <2>3. ASSUME NEW g \in Fibers PROVE Once(seen[g])'
      <3>1. PICK s \in Claims \cup {NoFile} : s = seen[g]
        BY DEF LInv, LockType
      <3>2. Once(s)'
        BY <1>4, <3>1 DEF LInv, ClaimedOnce
      <3>3. seen'[g] = s
        BY <3>1 DEF Proceeds
      <3> QED
        BY <3>2, <3>3 DEF Once
    <2> QED
      BY <2>2, <2>3 DEF ClaimedOnce
  <1>6. LooksAt'
    <2>1. ASSUME NEW g \in Fibers, g # f PROVE AgeIsKept(g)' /\ ReclaimIsJust(g)'
      BY <2>1, LookerStays DEF Proceeds, Same
    <2>2. AgeIsKept(f)' /\ ReclaimIsJust(f)'
      BY DEF Proceeds, AgeIsKept, ReclaimIsJust
    <2> QED
      BY <2>1, <2>2 DEF LooksAt
  <1>7. Exclusive'
    <2>1. \A g \in Fibers : g # f =>
            at'[g] = at[g] /\ nested'[g] = nested[g] /\ draft'[g].event = draft[g].event
      BY DEF Proceeds
    <2>2. gaps' = {} => ~nested'[f] /\ at'[f] \notin Holding
      BY DEF LInv, Exclusive, Proceeds, Holding
    <2> QED
      BY <2>1, <2>2, OthersStay DEF Proceeds, Same
  <1>8. ReadRight' /\ ChainHoldsWithoutGap'
    BY ReadsStay DEF Proceeds
  <1> QED
    BY <1>1, <1>2, <1>5, <1>6, <1>7, <1>8 DEF LInv

LEMMA GoesOn ==
  ASSUME SType, NEW f \in Fibers, NEW place \in Places, Goes(f, place),
         at[f] = "out", ProcessOf(f) \in alive,
         \A type \in Types : place \in Before(type) => pc[f] \in Before(type),
         \/ UNCHANGED lockVars \/ Forget(f)
         \/ \E e \in SidecarEvent :
              /\ Log(f, e) /\ e.type = Job(place, f \in Callers)
              /\ pc[f] \in Before(e.type)
  PROVE  Proceeds(f)
  <1>1. pc'[f] = place /\ \A g \in Fibers \ {f} : pc'[g] = pc[g]
    BY DEF SType, Goes
  <1>2. CASE UNCHANGED lockVars \/ Forget(f)
    <2>1. UNCHANGED <<lockfile, at, nested, seen, journal, written, alive, gaps>>
      BY <1>2 DEF lockVars, Forget
    <2>2. \A g \in Fibers \ {f} : draft'[g] = draft[g]
      BY <1>2 DEF lockVars, Forget, SType
    <2> QED
      BY <1>1, <2>1, <2>2 DEF Proceeds
  <1>3. ASSUME NEW e \in SidecarEvent, Log(f, e), e.type = Job(place, f \in Callers),
               pc[f] \in Before(e.type)
        PROVE  Proceeds(f)
    <2>1. /\ at' = [at EXCEPT ![f] = "enter"] /\ draft'[f].event = e
          /\ \A g \in Fibers : g # f => draft'[g] = draft[g]
      BY <1>3, LogType
    <2>2. at'[f] = "enter" /\ \A g \in Fibers \ {f} : at'[g] = at[g]
      BY <2>1 DEF SType
    <2>3. UNCHANGED <<lockfile, nested, seen, journal, written, alive, gaps>>
      BY <1>3 DEF Log
    <2> QED
      BY <1>1, <1>3, <2>1, <2>2, <2>3 DEF Proceeds
  <1> QED
    BY <1>2, <1>3

\* The order of a call's places.
LEMMA Order ==
  ASSUME NEW type \in Types
  PROVE  /\ "known" \in Before(type) => "idle" \in Before(type)
         /\ "scan" \in Before(type) => "known" \in Before(type)
         /\ "approve" \in Before(type) => "scan" \in Before(type)
         /\ "mutex" \in Before(type) => "approve" \in Before(type)
         /\ "recheck" \in Before(type) => "mutex" \in Before(type)
         /\ "rescan" \in Before(type) => "recheck" \in Before(type)
         /\ "reserve" \in Before(type) => "rescan" \in Before(type) /\ "recheck" \in Before(type)
         /\ "run" \in Before(type) => "reserve" \in Before(type)
         /\ "outcome" \notin Before(type) /\ "mark" \notin Before(type)
         /\ "refuse" \notin Before(type) /\ "end" \notin Before(type)
  BY DEF Types, Before, Undecided

LEMMA CallProceeds ==
  ASSUME SType, NEW f \in Fibers, Call(f)
  PROVE  Proceeds(f)
  <1>p. /\ {"known", "scan", "refuse", "approve", "mutex", "recheck", "rescan",
            "reserve", "run", "outcome", "mark", "end"} \subseteq Places
    BY DEF Places
  <1>r. ASSUME NEW place, Ready(f, place)
        PROVE  pc[f] = place /\ at[f] = "out" /\ ProcessOf(f) \in alive
    BY <1>r DEF Ready, Turn
  <1>c. pc[f] \in CallPlaces => f \in Callers
    BY DEF SType, InCall
  <1>d. /\ \A k, dry, prior, v : Decision(k, v, dry, prior).type = "decision"
        /\ \A d, s : Outcome(d, s).type = "outcome"
        /\ Checkpoint.type = "checkpoint"
    BY DEF Decision, Outcome, Checkpoint
  <1>t. /\ \A prior : Duplicate(f, prior).type = "decision"
        /\ Allowed(f).type = "decision"
    BY DEF Duplicate, Allowed, Decision
  <1>e. ASSUME Ends(f), NEW place, Ready(f, place) PROVE Proceeds(f)
    <2>1. Goes(f, "end") /\ Forget(f)
      BY <1>e DEF Ends
    <2>2. at[f] = "out" /\ ProcessOf(f) \in alive
      BY <1>e, <1>r
    <2> QED
      BY <1>p, <2>1, <2>2, Order, GoesOn
  <1>1. CASE Begin(f)
    BY <1>p, <1>r, <1>1, Order, GoesOn DEF Begin
  <1>2. CASE BeginCheckpoint(f)
    <2>1. "idle" \in Before("checkpoint") /\ Job("refuse", FALSE) = "checkpoint"
      BY DEF Before, Job
    <2>2. Log(f, Checkpoint) /\ Goes(f, "refuse") /\ Ready(f, "idle") /\ f \notin Callers
      BY <1>2 DEF BeginCheckpoint
    <2>3. pc[f] = "idle" /\ at[f] = "out" /\ ProcessOf(f) \in alive
      BY <1>r, <2>2
    <2>4. Checkpoint \in SidecarEvent /\ Checkpoint.type = Job("refuse", f \in Callers)
      BY <1>d, <2>2, EventShapes DEF Job
    <2> QED
      BY <1>p, <1>d, <2>1, <2>2, <2>3, <2>4, Order, GoesOn
  <1>3. CASE CheckKnown(f) \/ ScanFirst(f)
    <2>1. /\ pc[f] \in {"known", "scan"} /\ at[f] = "out" /\ ProcessOf(f) \in alive
          /\ f \in Callers
      BY <1>c, <1>r, <1>3 DEF CheckKnown, ScanFirst, CallPlaces
    <2>2. CASE UNCHANGED lockVars
      BY <1>p, <1>3, <1>r, <2>1, <2>2, Order, GoesOn DEF CheckKnown, ScanFirst
    <2>3. ASSUME NEW prior \in Nat, Log(f, Duplicate(f, prior)), Goes(f, "refuse")
          PROVE  Proceeds(f)
      <3>1. /\ Duplicate(f, prior) \in SidecarEvent
            /\ Duplicate(f, prior).type = "decision"
        BY <1>t, <2>1, CallType
      <3>2. pc[f] \in Before("decision") /\ Job("refuse", f \in Callers) = "decision"
        BY <2>1 DEF Before, Undecided, Job
      <3> QED
        BY <1>p, <2>1, <2>3, <3>1, <3>2, Order, GoesOn
    <2> QED
      BY <1>3, <2>1, <2>2, <2>3, CallType DEF CheckKnown, ScanFirst
  <1>4. CASE Refused(f)
    BY <1>e, <1>4 DEF Refused
  <1>5. CASE Approve(f)
    <2>1. CASE Ends(f)
      BY <1>e, <1>5, <2>1 DEF Approve
    <2>2. CASE Goes(f, "mutex") /\ UNCHANGED lockVars
      BY <1>p, <1>r, <1>5, <2>2, Order, GoesOn DEF Approve
    <2> QED
      BY <1>5, <2>1, <2>2 DEF Approve
  <1>6. CASE Enqueue(f)
    BY <1>p, <1>r, <1>6, Order, GoesOn DEF Enqueue
  <1>7. CASE Recheck(f) \/ Rescan(f)
    <2>1. /\ pc[f] \in {"recheck", "rescan"} /\ at[f] = "out" /\ ProcessOf(f) \in alive
          /\ f \in Callers
      BY <1>c, <1>r, <1>7 DEF Recheck, Rescan, CallPlaces
    <2>2. CASE Goes(f, "rescan") /\ UNCHANGED lockVars /\ pc[f] = "recheck"
      BY <1>p, <2>1, <2>2, Order, GoesOn
    <2>3. ASSUME NEW e \in SidecarEvent, Log(f, e), e.type = "decision", Goes(f, "reserve")
          PROVE  Proceeds(f)
      <3>1. pc[f] \in Before("decision") /\ Job("reserve", f \in Callers) = "decision"
        BY <2>1 DEF Before, Undecided, Job
      <3> QED
        BY <1>p, <2>1, <2>3, <3>1, Order, GoesOn
    <2>4. /\ \A prior \in Nat : /\ Duplicate(f, prior) \in SidecarEvent
                                /\ Duplicate(f, prior).type = "decision"
          /\ Allowed(f) \in SidecarEvent /\ Allowed(f).type = "decision"
          /\ Blocker(f) \in Nat
      BY <1>t, <2>1, CallType
    <2>5. CASE Recheck(f)
      <3>1. pc[f] = "recheck"
        BY <1>r, <2>5 DEF Recheck
      <3> QED
        BY <2>2, <2>3, <2>4, <2>5, <3>1 DEF Recheck
    <2>6. CASE Rescan(f)
      BY <2>3, <2>4, <2>6 DEF Rescan
    <2> QED
      BY <1>7, <2>5, <2>6
  <1>9. CASE Reserved(f)
    <2>1. CASE Ends(f)
      BY <1>e, <1>9, <2>1 DEF Reserved
    <2>2. CASE Goes(f, "run") /\ UNCHANGED lockVars
      BY <1>p, <1>r, <1>9, <2>2, Order, GoesOn DEF Reserved
    <2> QED
      BY <1>9, <2>1, <2>2 DEF Reserved
  <1>10. CASE Run(f)
    <2>1. pc[f] = "run" /\ at[f] = "out" /\ ProcessOf(f) \in alive /\ f \in Callers
      BY <1>c, <1>r, <1>10 DEF Run, CallPlaces
    <2>2. PICK status \in Statuses : Log(f, Outcome(call[f].id, status))
      BY <1>10 DEF Run
    <2>3. Outcome(call[f].id, status) \in SidecarEvent
      <3>1. call[f].id \in Nat
        BY <2>1 DEF SType, CallRecord
      <3> QED
        BY <3>1, EventShapes
    <2>4. pc[f] \in Before("outcome") /\ Job("outcome", f \in Callers) = "outcome"
      BY <2>1 DEF Before, Job
    <2>5. Goes(f, "outcome")
      BY <1>10 DEF Run
    <2> QED
      BY <1>p, <1>d, <2>1, <2>2, <2>3, <2>4, <2>5, Order, GoesOn
  <1>11. CASE Recorded(f)
    <2>1. CASE Ends(f)
      BY <1>e, <1>11, <2>1 DEF Recorded
    <2>2. CASE Goes(f, "mark") /\ UNCHANGED lockVars
      BY <1>p, <1>r, <1>11, <2>2, Order, GoesOn DEF Recorded
    <2> QED
      BY <1>11, <2>1, <2>2 DEF Recorded
  <1>12. CASE MarkCompleted(f)
    BY <1>e, <1>12 DEF MarkCompleted
  <1>13. CASE Interrupt(f)
    BY <1>e, <1>13 DEF Interrupt
  <1> QED
    BY <1>1, <1>2, <1>3, <1>4, <1>5, <1>6, <1>7, <1>9, <1>10, <1>11, <1>12, <1>13 DEF Call

-----------------------------------------------------------------------------
(* A process dies, time passes.                                            *)

LEMMA DieKeepsLInv ==
  ASSUME SType, LInv, NEW p \in Processes, Die(p)
  PROVE  LInv'
  <1>1. /\ at' = [f \in Fibers |-> IF f \in p THEN "out" ELSE at[f]]
        /\ nested' = [f \in Fibers |-> f \notin p /\ nested[f]]
        /\ seen' = [f \in Fibers |-> IF f \in p THEN NoFile ELSE seen[f]]
        /\ draft' = [f \in Fibers |-> IF f \in p THEN NoDraft ELSE draft[f]]
        /\ pc' = [f \in Fibers |-> IF f \in p THEN "end" ELSE pc[f]]
        /\ alive' = alive \ {p}
        /\ UNCHANGED <<lockfile, journal, written, gaps>>
    BY DEF Die, Kill
  <1>2. \A g \in Fibers :
          /\ g \in p => at'[g] = "out" /\ pc'[g] = "end" /\ seen'[g] = NoFile /\ ~nested'[g]
          /\ g \notin p => /\ at'[g] = at[g] /\ pc'[g] = pc[g] /\ seen'[g] = seen[g]
                           /\ nested'[g] = nested[g] /\ draft'[g] = draft[g]
    BY <1>1 DEF LInv, LockType
  <1>3. LockType'
    <2>1. nested' \in [Fibers -> BOOLEAN]
      BY <1>1
    <2>2. seen' \in [Fibers -> Claims \cup {NoFile}]
      BY <1>1 DEF LInv, LockType
    <2> QED
      BY <1>1, <2>1, <2>2 DEF LInv, LockType
  <1>4. WorksAt'
    <2>1. ASSUME NEW g \in Fibers, at'[g] # "out"
          PROVE  ProcessOf(g) \in alive' /\ draft'[g].event.type = Job(pc'[g], g \in Callers)
      <3>1. g \notin p /\ ProcessOf(g) # p
        BY <1>2, <2>1, ProcessIsUnique
      <3> QED
        BY <1>1, <1>2, <2>1, <3>1 DEF LInv, WorksAt
    <2> QED
      BY <2>1 DEF WorksAt
  <1>5. \A type : \A g \in Fibers : May(g, type)' => May(g, type)
    <2>1. \A type : "end" \notin Before(type)
      BY DEF Before, Undecided
    <2>2. "out" \notin Claiming
      BY DEF Claiming
    <2> QED
      BY <1>2, <2>1, <2>2 DEF May
  <1>6. ClaimedOnce'
    <2>1. Same(lockfile', lockfile)
      BY <1>1 DEF Same
    <2>2. \A g \in Fibers : seen'[g] = seen[g] \/ seen'[g].owner = {}
      BY <1>2, NoFileIsFile
    <2> QED
      BY <1>5, <2>1, <2>2, ClaimsStay
  <1>7. LooksAt'
    <2>1. ASSUME NEW g \in Fibers, g \notin p PROVE AgeIsKept(g)' /\ ReclaimIsJust(g)'
      <3>1. at'[g] = at[g] /\ seen'[g] = seen[g] /\ alive' \subseteq alive
        BY <1>1, <1>2, <2>1
      <3>2. Same(lockfile', lockfile) /\ lockfile'.aged = lockfile.aged
        BY <1>1 DEF Same
      <3> QED
        BY <3>1, <3>2, LookerStays
    <2>2. ASSUME NEW g \in Fibers, g \in p PROVE AgeIsKept(g)' /\ ReclaimIsJust(g)'
      BY <1>2, <2>2 DEF AgeIsKept, ReclaimIsJust
    <2> QED
      BY <2>1, <2>2 DEF LooksAt
  <1>8. Exclusive'
    <2>1. ASSUME gaps = {}, NEW g \in Fibers
          PROVE  ~nested'[g] /\ (at'[g] \in Holding => Mine(g)')
      <3>1. CASE g \in p
        BY <1>2, <3>1 DEF Holding
      <3>2. CASE g \notin p
        <4>1. Mine(g) => Mine(g)'
          BY <1>1, <1>2, <3>2 DEF Mine, Exists
        <4> QED
          BY <1>2, <2>1, <3>2, <4>1 DEF LInv, Exclusive
      <3> QED
        BY <3>1, <3>2
    <2> QED
      BY <1>1, <2>1 DEF Exclusive
  <1>9. ReadRight'
    BY <1>1, <1>2 DEF LInv, ReadRight
  <1>10. ChainHoldsWithoutGap'
    BY <1>1 DEF LInv, ChainHoldsWithoutGap
  <1> QED
    BY <1>3, <1>4, <1>6, <1>7, <1>8, <1>9, <1>10 DEF LInv

LEMMA AgeKeepsLInv ==
  ASSUME LInv, Age, UNCHANGED pc
  PROVE  LInv'
  <1>1. /\ lockfile \in Claims /\ lockfile' = [lockfile EXCEPT !.aged = TRUE]
        /\ UNCHANGED <<depth, at, nested, seen, draft, answer, journal, written, alive, gaps>>
    BY DEF Age, Exists, LInv, LockType
  <1>2. Same(lockfile', lockfile) /\ lockfile'.aged /\ lockfile' \in Claims
    <2>1. PICK file \in Claims : file = lockfile
      BY <1>1
    <2>2. /\ Same([file EXCEPT !.aged = TRUE], file) /\ [file EXCEPT !.aged = TRUE].aged = TRUE
          /\ [file EXCEPT !.aged = TRUE] \in Claims
      BY FileUpdates
    <2> QED
      BY <1>1, <2>1, <2>2
  <1>3. LockType'
    BY <1>1, <1>2 DEF LInv, LockType
  <1>4. WorksAt'
    BY <1>1 DEF LInv, WorksAt
  <1>5. ClaimedOnce'
    <2>1. \A type : \A g \in Fibers : May(g, type)' => May(g, type)
      BY <1>1 DEF May
    <2> QED
      BY <1>1, <1>2, <2>1, ClaimsStay
  <1>6. LooksAt'
    <2>1. ASSUME NEW g \in Fibers PROVE AgeIsKept(g)' /\ ReclaimIsJust(g)'
      BY <1>1, <1>2, LookerStays
    <2> QED
      BY <2>1 DEF LooksAt
  <1>7. Exclusive'
    <2>1. ASSUME NEW g \in Fibers, Mine(g) PROVE Mine(g)'
      <3>1. lockfile'.owner = {g} /\ lockfile'.for = draft'[g].event.type
        BY <1>1, <1>2, <2>1, MineIsOwned DEF Same
      <3>2. lockfile' # NoFile
        BY <3>1, NoFileIsFile
      <3> QED
        BY <3>1, <3>2 DEF Mine, Exists
    <2> QED
      BY <1>1, <2>1 DEF LInv, Exclusive
  <1>8. ReadRight' /\ ChainHoldsWithoutGap'
    BY <1>1 DEF LInv, ReadRight, ChainHoldsWithoutGap
  <1> QED
    BY <1>3, <1>4, <1>5, <1>6, <1>7, <1>8 DEF LInv

LEMMA InitLInv == Init => LInv
  <1> SUFFICES ASSUME Init PROVE LInv
    OBVIOUS
  <1>1. /\ lockfile = NoFile /\ at = [f \in Fibers |-> "out"]
        /\ nested = [f \in Fibers |-> FALSE] /\ seen = [f \in Fibers |-> NoFile]
        /\ journal = << >> /\ alive = Processes
    BY DEF Init, LockInit
  <1>2. "out" \notin Claiming \cup Holding \cup {"read", "reclaim"}
    BY DEF Claiming, Holding
  <1>3. LockType /\ WorksAt /\ LooksAt
    BY <1>1, <1>2 DEF LockType, WorksAt, LooksAt, AgeIsKept, ReclaimIsJust
  <1>4. ClaimedOnce
    <2>1. Once(NoFile)
      BY NoFileIsFile DEF Once
    <2> QED
      BY <1>1, <2>1 DEF ClaimedOnce, Once
  <1>5. Exclusive /\ ReadRight /\ ChainHoldsWithoutGap
    BY <1>1, <1>2 DEF Exclusive, ReadRight, ChainHoldsWithoutGap
  <1> QED
    BY <1>3, <1>4, <1>5 DEF LInv

LEMMA StepLInv == SInv /\ LInv /\ [Next]_vars => LInv'
  <1> SUFFICES ASSUME SInv, LInv, [Next]_vars PROVE LInv'
    OBVIOUS
  <1>t. SType
    BY DEF SInv
  <1>1. ASSUME NEW f \in Fibers, Call(f) PROVE LInv'
    BY <1>t, <1>1, CallProceeds, ProceedsKeepsLInv
  <1>2. ASSUME NEW f \in Fibers, Locking(f), UNCHANGED <<pc, call, completed, mutex>> PROVE LInv'
    BY <1>t, <1>2, LockKeepsLInv
  <1>3. ASSUME NEW p \in Processes, Die(p) PROVE LInv'
    BY <1>t, <1>3, DieKeepsLInv
  <1>4. CASE Age /\ UNCHANGED <<pc, call, completed, mutex>>
    BY <1>4, AgeKeepsLInv
  <1>5. CASE UNCHANGED vars
    <2>1. UNCHANGED <<lockfile, at, nested, seen, draft, journal, written, alive, gaps, pc>>
      BY <1>5 DEF vars, lockVars
    <2>2. LockType' /\ WorksAt'
      BY <2>1 DEF LInv, LockType, WorksAt
    <2>3. ClaimedOnce'
      BY <2>1 DEF LInv, ClaimedOnce, Once, May
    <2>4. LooksAt'
      <3>1. ASSUME NEW g \in Fibers PROVE AgeIsKept(g)' /\ ReclaimIsJust(g)'
        BY <2>1, LookerStays DEF Same
      <3> QED
        BY <3>1 DEF LooksAt
    <2>5. Exclusive' /\ ReadRight' /\ ChainHoldsWithoutGap'
      BY <2>1 DEF LInv, Exclusive, Mine, Exists, ReadRight, ChainHoldsWithoutGap
    <2> QED
      BY <2>2, <2>3, <2>4, <2>5 DEF LInv
  <1> QED
    BY <1>1, <1>2, <1>3, <1>4, <1>5 DEF Next

(***************************************************************************)
(* The journal stays one chain and every checkpoint counts the events      *)
(* before it, for any number of processes and fibers, as long as nobody    *)
(* reentered (Lock.ts:129-197), overstayed staleAfterMs (:89), lost a claim *)
(* to a reclaim meant for another (:181), or was taken for dead by another *)
(* host (:68-88): every other interleaving of claims, reads, reclaims,     *)
(* deadlines, failures and kills is safe.                                  *)
(***************************************************************************)
THEOREM ChainAlwaysHoldsWithoutGap == Spec => []ChainHoldsWithoutGap
  <1>1. LInv => ChainHoldsWithoutGap
    BY DEF LInv
  <1> QED
    BY <1>1, InitSInv, StepSInv, InitLInv, StepLInv, PTL DEF Spec

\* The call moves from a place where its fiber is outside withJournalLock, and ends
\* there if its append failed.
Strides(f) ==
  /\ at[f] = "out" /\ pc[f] # "end"
  /\ pc[f] \in {"refuse", "reserve", "outcome"} /\ answer[f] = 0 => Ends(f)
  /\ \E place \in Places : Goes(f, place)
  /\ UNCHANGED lockVars \/ Forget(f) \/ \E e : Log(f, e)

LEMMA CallStrides ==
  ASSUME NEW f \in Fibers, Call(f)
  PROVE  Strides(f)
  <1>p. /\ {"known", "scan", "refuse", "approve", "mutex", "recheck", "rescan",
            "reserve", "run", "outcome", "mark", "end"} \subseteq Places
    BY DEF Places
  <1>r. ASSUME NEW place, Ready(f, place) PROVE pc[f] = place /\ at[f] = "out"
    BY <1>r DEF Ready
  <1>e. ASSUME Ends(f), NEW place, Ready(f, place), place # "end" PROVE Strides(f)
    BY <1>p, <1>e DEF Ends, Ready, Strides
  <1>1. CASE Begin(f) \/ BeginCheckpoint(f) \/ CheckKnown(f) \/ ScanFirst(f)
    BY <1>p, <1>r, <1>1 DEF Begin, BeginCheckpoint, CheckKnown, ScanFirst, Strides
  <1>2. CASE Refused(f) \/ MarkCompleted(f) \/ Interrupt(f)
    BY <1>e, <1>2 DEF Refused, MarkCompleted, Interrupt
  <1>3. CASE Approve(f)
    <2>1. CASE Ends(f)
      BY <1>e, <1>3, <2>1 DEF Approve
    <2>2. CASE Goes(f, "mutex") /\ UNCHANGED lockVars
      BY <1>p, <1>r, <1>3, <2>2 DEF Approve, Strides
    <2> QED
      BY <1>3, <2>1, <2>2 DEF Approve
  <1>4. CASE Enqueue(f) \/ Recheck(f) \/ Rescan(f) \/ Run(f)
    BY <1>p, <1>r, <1>4 DEF Enqueue, Recheck, Rescan, Run, Strides
  <1>5. CASE Reserved(f) \/ Recorded(f)
    <2>1. CASE Ends(f)
      BY <1>e, <1>5, <2>1 DEF Reserved, Recorded
    <2>2. CASE ~Ends(f)
      BY <1>p, <1>r, <1>5, <2>2 DEF Reserved, Recorded, Strides
    <2> QED
      BY <2>1, <2>2
  <1> QED
    BY <1>1, <1>2, <1>3, <1>4, <1>5 DEF Call

LEMMA StepNone == LInv /\ NoneIsMistaken /\ [Next]_vars => NoneIsMistaken'
  <1> SUFFICES ASSUME LInv, NoneIsMistaken, [Next]_vars, OneHost, "mistaken" \notin gaps
               PROVE  "mistaken" \notin gaps'
    BY DEF NoneIsMistaken
  <1>1. ASSUME NEW f \in Fibers, Reclaim(f) PROVE "mistaken" \notin gaps'
    <2> SUFFICES ASSUME "mistaken" \in gaps' PROVE FALSE
      OBVIOUS
    <2>1. at[f] = "reclaim" /\ Held /\ ~Another(f) /\ ~lockfile.aged
      BY <1>1 DEF Reclaim
    <2>2. Dead(lockfile.owner)
      BY <2>1, AnotherOrSame DEF LInv, LooksAt, ReclaimIsJust
    <2>3. PICK h \in UNION alive : Mine(h)
      BY <2>1 DEF Held
    <2> QED
      BY <2>2, <2>3 DEF Dead, Mine
  <1>2. ASSUME NEW f \in Fibers, Locking(f), ~Reclaim(f) PROVE "mistaken" \notin gaps'
    BY <1>2 DEF Locking, Enter, Claim, Record, Stat, Read, GiveUp, Count, ReadTail, WriteEvent,
                Release, Drop
  <1>3. ASSUME NEW f \in Fibers, Call(f) PROVE UNCHANGED gaps
    <2>1. UNCHANGED lockVars \/ Forget(f) \/ \E e : Log(f, e)
      BY <1>3, CallStrides DEF Strides
    <2> QED
      BY <2>1 DEF lockVars, Forget, Log
  <1>4. ASSUME NEW p \in Processes, Die(p) PROVE UNCHANGED gaps
    BY <1>4 DEF Die, Kill
  <1>5. CASE Age \/ UNCHANGED vars
    BY <1>5 DEF Age, vars, lockVars
  <1> QED
    BY <1>1, <1>2, <1>3, <1>4, <1>5 DEF Next

(***************************************************************************)
(* Where all processes see each other's pids nobody alive is taken for     *)
(* dead, however claims, reads, reclaims and kills interleave (Lock.ts:    *)
(* 68-90): there the last of the four ways is closed.                      *)
(***************************************************************************)
THEOREM NoneIsMistakenOnOneHost == Spec => []NoneIsMistaken
  <1>1. Init => NoneIsMistaken
    BY DEF Init, LockInit, NoneIsMistaken
  <1> QED
    BY <1>1, InitSInv, StepSInv, InitLInv, StepLInv, StepNone, PTL DEF Spec

-----------------------------------------------------------------------------
(***************************************************************************)
(* The state's types. The depth of a process never exceeds the fibers of   *)
(* it that entered: each enters once for a claim, and one that gives up    *)
(* with the depth left at 1 is at the end of its call.                     *)
(***************************************************************************)
Entered(f) ==
  \/ at[f] \notin {"out", "enter", "drop"}
  \/ /\ at[f] = "out"
     /\ pc[f] = "end" \/ (pc[f] \in {"refuse", "reserve", "outcome"} /\ answer[f] = 0)

Inside(p) == {f \in p : Entered(f)}

DepthIsCovered ==
  /\ depth \in [Processes -> Nat]
  /\ \A p \in Processes : depth[p] <= Cardinality(Inside(p))

CallsAreKeyed == \A f \in Callers : InCall(f) => call[f].key \in Keys

OnePermit == \A p \in Processes : mutex[p] = {} \/ \E f \in p : mutex[p] = {f}

TInv ==
  /\ DepthIsCovered /\ CallsAreKeyed /\ OnePermit
  /\ \A f \in Fibers : answer[f] <= Len(journal)
  /\ completed \in [Processes -> SUBSET Keys]

LEMMA InsideIsFinite ==
  ASSUME NEW p \in Processes
  PROVE  /\ IsFiniteSet(Inside(p)) /\ Cardinality(Inside(p)) \in Nat
         /\ Cardinality(Fibers) \in Nat /\ Cardinality(Inside(p)) <= Cardinality(Fibers)
  <1>1. IsFiniteSet(Fibers) /\ Inside(p) \subseteq Fibers
    BY FiberAssumption DEF Inside, Fibers
  <1>2. IsFiniteSet(Inside(p)) /\ Cardinality(Inside(p)) <= Cardinality(Fibers)
    BY <1>1, FS_Subset
  <1> QED
    BY <1>1, <1>2, FS_CardinalityType

LEMMA TypesFollow ==
  ASSUME SType, TInv
  PROVE  TypeOK
  <1>1. depth \in [Processes -> 0..Cardinality(Fibers)]
    <2>1. ASSUME NEW p \in Processes PROVE depth[p] \in 0..Cardinality(Fibers)
      BY InsideIsFinite DEF TInv, DepthIsCovered
    <2> QED
      BY <2>1 DEF TInv, DepthIsCovered
  <1>2. answer \in [Fibers -> 0..Len(journal)]
    <2>1. \A f \in Fibers : answer[f] \in 0..Len(journal)
      BY DEF SType, TInv
    <2> QED
      BY <2>1 DEF SType
  <1>3. ASSUME NEW p \in Processes PROVE mutex[p] \subseteq p /\ Cardinality(mutex[p]) <= 1
    <2>1. CASE mutex[p] = {}
      BY <2>1, FS_EmptySet
    <2>2. ASSUME NEW f \in p, mutex[p] = {f}
          PROVE  mutex[p] \subseteq p /\ Cardinality(mutex[p]) <= 1
      BY <2>2, FS_Singleton
    <2> QED
      BY <2>1, <2>2 DEF TInv, OnePermit
  <1> QED
    BY <1>1, <1>2, <1>3 DEF TypeOK, SType, TInv, CallRecord

LEMMA InsideGrows ==
  ASSUME NEW p \in Processes, \A g \in p : Entered(g) => Entered(g)'
  PROVE  Cardinality(Inside(p)) <= Cardinality(Inside(p)')
  <1>1. Inside(p) \subseteq Inside(p)'
    BY DEF Inside
  <1>2. IsFiniteSet(Inside(p)')
    <2>1. IsFiniteSet(Fibers) /\ Inside(p)' \subseteq Fibers
      BY FiberAssumption DEF Inside, Fibers
    <2> QED
      BY <2>1, FS_Subset
  <1> QED
    BY <1>1, <1>2, FS_Subset

LEMMA DepthStays ==
  ASSUME DepthIsCovered, UNCHANGED depth, \A g \in Fibers : Entered(g) => Entered(g)'
  PROVE  DepthIsCovered'
  <1>1. ASSUME NEW p \in Processes PROVE depth'[p] <= Cardinality(Inside(p)')
    <2>1. \A g \in p : g \in Fibers
      BY DEF Fibers
    <2>2. Cardinality(Inside(p)) <= Cardinality(Inside(p)')
      BY <2>1, InsideGrows
    <2>3. Cardinality(Inside(p)) \in Nat
      BY InsideIsFinite
    <2>4. Cardinality(Inside(p)') \in Nat
      <3>1. IsFiniteSet(Fibers) /\ Inside(p)' \subseteq Fibers
        BY FiberAssumption DEF Inside, Fibers
      <3> QED
        BY <3>1, FS_Subset, FS_CardinalityType
    <2>5. depth[p] \in Nat /\ depth[p] <= Cardinality(Inside(p))
      BY DEF DepthIsCovered
    <2> QED
      BY <2>2, <2>3, <2>4, <2>5
  <1> QED
    BY <1>1 DEF DepthIsCovered

\* Nobody else's standing changes with a step of f.
LEMMA OthersEntered ==
  ASSUME SType, NEW f \in Fibers, NEW step, GoesTo(f, step), UNCHANGED pc,
         \A g \in Fibers : g # f => answer'[g] = answer[g]
  PROVE  \A g \in Fibers : g # f => (Entered(g) <=> Entered(g)')
  BY DEF SType, GoesTo, Entered

LEMMA EnterCounts ==
  ASSUME SType, DepthIsCovered, NEW f \in Fibers, Enter(f), UNCHANGED pc
  PROVE  DepthIsCovered'
  <1> DEFINE h == ProcessOf(f)
  <1>1. /\ at[f] = "enter" /\ depth' = [depth EXCEPT ![h] = depth[h] + 1]
        /\ \E step \in {"claim", "count", "tail"} : GoesTo(f, step)
        /\ UNCHANGED answer
    BY DEF Enter, Entry
  <1>2. h \in Processes /\ f \in h /\ \A p \in Processes : f \in p => p = h
    BY ProcessIsUnique
  <1>3. ~Entered(f) /\ Entered(f)'
    BY <1>1 DEF SType, GoesTo, Entered
  <1>4. \A g \in Fibers : g # f => (Entered(g) <=> Entered(g)')
    BY <1>1, OthersEntered
  <1>5. ASSUME NEW p \in Processes PROVE depth'[p] <= Cardinality(Inside(p)')
    <2>1. IsFiniteSet(Inside(p)) /\ Cardinality(Inside(p)) \in Nat
      BY InsideIsFinite
    <2>2. depth[p] \in Nat /\ depth[p] <= Cardinality(Inside(p))
      BY DEF DepthIsCovered
    <2>3. \A g \in p : g \in Fibers
      BY DEF Fibers
    <2>4. CASE p = h
      <3>1. Inside(p)' = Inside(p) \cup {f} /\ f \notin Inside(p)
        BY <1>2, <1>3, <1>4, <2>3, <2>4 DEF Inside
      <3>2. Cardinality(Inside(p)') = Cardinality(Inside(p)) + 1
        BY <2>1, <3>1, FS_AddElement
      <3>3. depth'[p] = depth[p] + 1
        BY <1>1, <2>4 DEF DepthIsCovered
      <3> QED
        BY <2>1, <2>2, <3>2, <3>3
    <2>5. CASE p # h
      <3>1. Inside(p)' = Inside(p)
        BY <1>2, <1>4, <2>3, <2>5 DEF Inside
      <3>2. depth'[p] = depth[p]
        BY <1>1, <2>5 DEF DepthIsCovered
      <3> QED
        BY <2>2, <3>1, <3>2
    <2> QED
      BY <2>4, <2>5
  <1>6. depth' \in [Processes -> Nat]
    BY <1>1, <1>2 DEF DepthIsCovered
  <1> QED
    BY <1>5, <1>6 DEF DepthIsCovered

LEMMA ReleaseCounts ==
  ASSUME SType, DepthIsCovered, NEW f \in Fibers, Release(f), UNCHANGED pc
  PROVE  DepthIsCovered'
  <1> DEFINE h == ProcessOf(f)
             d == IF nested[f] /\ depth[h] > 1 THEN depth[h] - 1 ELSE 0
  <1>1. /\ at[f] = "release" /\ depth' = [depth EXCEPT ![h] = d]
        /\ \E step \in {"drop", "out"} : GoesTo(f, step)
        /\ UNCHANGED answer
    BY DEF Release
  <1>2. h \in Processes /\ f \in h /\ \A p \in Processes : f \in p => p = h
    BY ProcessIsUnique
  <1>3. Entered(f)
    BY <1>1 DEF Entered
  <1>4. \A g \in Fibers : g # f => (Entered(g) <=> Entered(g)')
    BY <1>1, OthersEntered
  <1>5. d \in Nat /\ (d = 0 \/ d = depth[h] - 1)
    BY <1>2 DEF DepthIsCovered
  <1> HIDE DEF d
  <1>6. ASSUME NEW p \in Processes PROVE depth'[p] <= Cardinality(Inside(p)')
    <2>1. IsFiniteSet(Inside(p)) /\ Cardinality(Inside(p)) \in Nat
      BY InsideIsFinite
    <2>2. depth[p] \in Nat /\ depth[p] <= Cardinality(Inside(p))
      BY DEF DepthIsCovered
    <2>3. \A g \in p : g \in Fibers
      BY DEF Fibers
    <2>4. CASE p = h
      <3>1. /\ f \in Inside(p)
            /\ Inside(p)' = Inside(p) \/ Inside(p)' = Inside(p) \ {f}
        BY <1>2, <1>3, <1>4, <2>3, <2>4 DEF Inside
      <3>2. Cardinality(Inside(p) \ {f}) = Cardinality(Inside(p)) - 1
        BY <2>1, <3>1, FS_RemoveElement
      <3>3. Cardinality(Inside(p)') >= Cardinality(Inside(p)) - 1
        <4>1. CASE Inside(p)' = Inside(p)
          BY <2>1, <4>1
        <4>2. CASE Inside(p)' = Inside(p) \ {f}
          BY <2>1, <3>2, <4>2
        <4> QED
          BY <3>1, <4>1, <4>2
      <3>4. Cardinality(Inside(p)') \in Nat
        <4>1. IsFiniteSet(Inside(p)')
          BY <2>1, <3>1, FS_Subset
        <4> QED
          BY <4>1, FS_CardinalityType
      <3>5. depth'[p] = d
        BY <1>1, <2>4 DEF DepthIsCovered
      <3> QED
        BY <1>5, <2>1, <2>2, <2>4, <3>3, <3>4, <3>5
    <2>5. CASE p # h
      <3>1. Inside(p)' = Inside(p)
        BY <1>2, <1>4, <2>3, <2>5 DEF Inside
      <3>2. depth'[p] = depth[p]
        BY <1>1, <2>5 DEF DepthIsCovered
      <3> QED
        BY <2>2, <3>1, <3>2
    <2> QED
      BY <2>4, <2>5
  <1>7. depth' \in [Processes -> Nat]
    BY <1>1, <1>2, <1>5 DEF DepthIsCovered
  <1> QED
    BY <1>6, <1>7 DEF DepthIsCovered

LEMMA LockKeepsTInv ==
  ASSUME SType, WorksAt, TInv, NEW f \in Fibers, Locking(f),
         UNCHANGED <<pc, call, completed, mutex>>
  PROVE  TInv'
  <1>1. DepthIsCovered'
    <2>1. CASE Enter(f)
      BY <2>1, EnterCounts DEF TInv
    <2>2. CASE Release(f)
      BY <2>2, ReleaseCounts DEF TInv
    <2>3. CASE ~Enter(f) /\ ~Release(f)
      <3>1. /\ UNCHANGED depth /\ at[f] \notin {"out", "enter"}
            /\ \E step : GoesTo(f, step) /\ (at[f] # "drop" => step \notin {"out", "enter", "drop"} \/ Fails(f))
        <4>1. CASE Claim(f) \/ Record(f) \/ GiveUp(f)
          BY <4>1 DEF Claim, Record, GiveUp, Fails, Entry
        <4>2. CASE Stat(f) \/ Read(f) \/ Reclaim(f)
          BY <4>2 DEF Stat, Read, Reclaim
        <4>3. CASE Count(f) \/ ReadTail(f) \/ WriteEvent(f) \/ Drop(f)
          BY <4>3 DEF Count, ReadTail, WriteEvent, Drop
        <4> QED
          BY <2>3, <4>1, <4>2, <4>3 DEF Locking
      <3>2. \A g \in Fibers : g # f => answer'[g] = answer[g]
        BY <2>3 DEF Locking, Claim, Record, Stat, Read, Reclaim, GiveUp, Count, ReadTail,
                    WriteEvent, Drop, Fails, SType
      <3>3. \A g \in Fibers : g # f => (Entered(g) <=> Entered(g)')
        BY <3>1, <3>2, OthersEntered
      <3>4. Entered(f) => Entered(f)'
        <4>1. CASE at[f] = "drop"
          BY <4>1 DEF Entered
        <4>2. CASE Fails(f)
          <5>1. pc[f] \in {"refuse", "reserve", "outcome"}
            <6>1. draft[f].event.type # "none"
              <7>1. draft[f].event \in SidecarEvent \/ draft[f].event = [type |-> "nothing"]
                BY DEF SType, Drafts
              <7> QED
                BY <7>1, EventTypes DEF Types
            <6> QED
              BY <3>1, <6>1 DEF WorksAt, Job
          <5> QED
            BY <4>2, <5>1 DEF Fails, GoesTo, SType, Entered
        <4>3. CASE at[f] # "drop" /\ ~Fails(f)
          BY <3>1, <4>3 DEF GoesTo, SType, Entered
        <4> QED
          BY <4>1, <4>2, <4>3
      <3> QED
        BY <3>1, <3>3, <3>4, DepthStays DEF TInv
    <2> QED
      BY <2>1, <2>2, <2>3
  <1>2. \A g \in Fibers : answer'[g] <= Len(journal')
    <2>1. CASE WriteEvent(f)
      <3>1. Len(journal) \in Nat /\ \A g \in Fibers : answer[g] \in Nat /\ answer[g] <= Len(journal)
        BY DEF SType, TInv
      <3>2. CASE journal' = Append(journal, draft[f].event)
                   /\ \E id \in {0, Len(journal) + 1} : answer' = [answer EXCEPT ![f] = id]
        <4>1. Len(journal') = Len(journal) + 1
          BY <3>2 DEF SType
        <4>2. \A g \in Fibers : answer'[g] = answer[g] \/ answer'[g] \in {0, Len(journal) + 1}
          BY <3>2 DEF SType
        <4> QED
          BY <3>1, <4>1, <4>2
      <3>3. CASE answer' = [answer EXCEPT ![f] = 0] /\ UNCHANGED journal
        BY <3>1, <3>3 DEF SType
      <3> QED
        BY <2>1, <3>2, <3>3 DEF WriteEvent
    <2>2. CASE ~WriteEvent(f)
      <3>1. UNCHANGED journal /\ (answer' = answer \/ answer' = [answer EXCEPT ![f] = 0])
        BY <2>2 DEF Locking, Enter, Claim, Record, Stat, Read, Reclaim, GiveUp, Count, ReadTail,
                    Release, Drop, Fails
      <3>2. Len(journal) \in Nat /\ \A g \in Fibers : answer[g] <= Len(journal)
        BY DEF SType, TInv
      <3>3. \A g \in Fibers : answer'[g] = answer[g] \/ answer'[g] = 0
        BY <3>1 DEF SType
      <3>4. UNCHANGED journal
        BY <3>1
      <3> QED
        BY <3>2, <3>3, <3>4
    <2> QED
      BY <2>1, <2>2
  <1>3. CallsAreKeyed' /\ OnePermit'
    BY DEF TInv, CallsAreKeyed, OnePermit, InCall
  <1> QED
    BY <1>1, <1>2, <1>3 DEF TInv

LEMMA StridesCount ==
  ASSUME SType, TInv, NEW f \in Fibers, Strides(f)
  PROVE  DepthIsCovered' /\ \A g \in Fibers : answer'[g] <= Len(journal')
  <1>1. /\ UNCHANGED <<depth, journal>>
        /\ at' = at \/ at' = [at EXCEPT ![f] = "enter"]
        /\ answer' = answer \/ answer' = [answer EXCEPT ![f] = 0]
    BY DEF Strides, lockVars, Forget, Log, GoesTo
  <1>2. \A g \in Fibers : answer'[g] <= Len(journal')
    <2>1. Len(journal) \in Nat /\ \A g \in Fibers : answer[g] <= Len(journal)
      BY DEF SType, TInv
    <2>2. \A g \in Fibers : answer'[g] = answer[g] \/ answer'[g] = 0
      BY <1>1 DEF SType
    <2>3. UNCHANGED journal
      BY <1>1
    <2> QED
      BY <2>1, <2>2, <2>3
  <1>3. ASSUME NEW g \in Fibers, g # f PROVE Entered(g) => Entered(g)'
    BY <1>1, <1>3 DEF Strides, Goes, SType, Entered
  <1>4. Entered(f) => Entered(f)'
    <2>1. ASSUME Entered(f) PROVE Ends(f)
      BY <2>1 DEF Strides, Entered
    <2>2. ASSUME Ends(f) PROVE Entered(f)'
      <3>1. UNCHANGED at /\ pc' = [pc EXCEPT ![f] = "end"]
        BY <2>2 DEF Ends, Forget, Goes
      <3> QED
        BY <3>1 DEF Strides, SType, Entered
    <2> QED
      BY <2>1, <2>2
  <1> QED
    BY <1>1, <1>2, <1>3, <1>4, DepthStays DEF TInv

\* The locals of nobody else's call change, and the key of f's is kept or chosen.
LEMMA KeysKept ==
  ASSUME SType, CallsAreKeyed, NEW f \in Fibers, NEW place, Goes(f, place),
         \A g \in Callers : g # f => call'[g] = call[g],
         place \in CallPlaces /\ f \in Callers => call'[f].key \in Keys
  PROVE  CallsAreKeyed'
  BY DEF SType, CallsAreKeyed, InCall, Goes

LEMMA CallKeepsKeys ==
  ASSUME SType, CallsAreKeyed, NEW f \in Fibers, Call(f)
  PROVE  CallsAreKeyed'
  <1>c. ASSUME NEW place \in CallPlaces, Ready(f, place)
        PROVE  f \in Callers /\ call[f].key \in Keys
    BY <1>c DEF Ready, SType, CallsAreKeyed, InCall
  <1>u. ASSUME f \in Callers, NEW v
        PROVE  /\ [call EXCEPT ![f].verdict = v][f].key = call[f].key
               /\ [call EXCEPT ![f].id = v][f].key = call[f].key
               /\ \A g \in Callers : g # f =>
                    /\ [call EXCEPT ![f].verdict = v][g] = call[g]
                    /\ [call EXCEPT ![f].id = v][g] = call[g]
    BY <1>u DEF SType, CallRecord
  <1>e. ASSUME Ends(f) PROVE CallsAreKeyed'
    <2>1. Goes(f, "end") /\ \A g \in Callers : g # f => call'[g] = call[g]
      BY <1>e DEF Ends
    <2>2. "end" \notin CallPlaces
      BY DEF CallPlaces
    <2> QED
      BY <2>1, <2>2, KeysKept
  <1>s. ASSUME NEW place, Goes(f, place), UNCHANGED call,
               place \in CallPlaces => InCall(f)
        PROVE  CallsAreKeyed'
    <2>1. place \in CallPlaces /\ f \in Callers => call'[f].key \in Keys
      BY <1>s DEF CallsAreKeyed
    <2> QED
      BY <1>s, <2>1, KeysKept
  <1>p. {"known", "scan", "approve", "mutex", "recheck", "rescan", "reserve", "run", "outcome", "mark"}
           = CallPlaces /\ "refuse" \notin CallPlaces
    BY DEF CallPlaces
  <1>1. CASE Begin(f)
    <2>1. PICK k \in Keys : call' = [call EXCEPT ![f].key = k]
      BY <1>1 DEF Begin
    <2>2. f \in Callers /\ Goes(f, "known")
      BY <1>1 DEF Begin
    <2>3. call'[f].key = k /\ \A g \in Callers : g # f => call'[g] = call[g]
      BY <2>1, <2>2 DEF SType, CallRecord
    <2> QED
      BY <2>2, <2>3, KeysKept
  <1>2. CASE BeginCheckpoint(f)
    BY <1>s, <1>p, <1>2 DEF BeginCheckpoint
  <1>3. CASE CheckKnown(f) \/ ScanFirst(f) \/ Enqueue(f) \/ Run(f)
    BY <1>s, <1>p, <1>3 DEF CheckKnown, ScanFirst, Enqueue, Run, Ready, InCall
  <1>4. CASE Refused(f) \/ MarkCompleted(f) \/ Interrupt(f)
    BY <1>e, <1>4 DEF Refused, MarkCompleted, Interrupt
  <1>5. CASE Approve(f)
    <2>1. CASE Ends(f)
      BY <1>e, <2>1
    <2>2. ASSUME Goes(f, "mutex"), NEW v, NEW dry,
                 call' = [call EXCEPT ![f].verdict = v, ![f].dry = dry]
          PROVE  CallsAreKeyed'
      <3>1. f \in Callers /\ call[f].key \in Keys
        BY <1>c, <1>p, <1>5 DEF Approve
      <3>2. call'[f].key \in Keys /\ \A g \in Callers : g # f => call'[g] = call[g]
        BY <2>2, <3>1 DEF SType, CallRecord
      <3> QED
        BY <2>2, <3>2, KeysKept
    <2> QED
      BY <1>5, <2>1, <2>2 DEF Approve
  <1>6. CASE Recheck(f) \/ Rescan(f)
    <2>1. f \in Callers /\ call[f].key \in Keys /\ InCall(f)
      BY <1>c, <1>p, <1>6 DEF Recheck, Rescan, Ready, InCall
    <2>2. PICK place \in {"rescan", "reserve"} : Goes(f, place)
      BY <1>6 DEF Recheck, Rescan
    <2>3. CASE UNCHANGED call
      BY <1>s, <2>1, <2>2, <2>3
    <2>4. CASE call' = [call EXCEPT ![f].verdict = "denied"]
      BY <1>u, <2>1, <2>2, <2>4, KeysKept
    <2> QED
      BY <1>6, <2>3, <2>4 DEF Recheck, Rescan
  <1>7. CASE Reserved(f)
    <2>1. CASE Ends(f)
      BY <1>e, <2>1
    <2>2. CASE Goes(f, "run") /\ call' = [call EXCEPT ![f].id = answer[f]]
      <3>1. f \in Callers /\ call[f].key \in Keys
        BY <1>c, <1>p, <1>7 DEF Reserved
      <3> QED
        BY <1>u, <2>2, <3>1, KeysKept
    <2> QED
      BY <1>7, <2>1, <2>2 DEF Reserved
  <1>8. CASE Recorded(f)
    <2>1. CASE Ends(f)
      BY <1>e, <2>1
    <2>2. CASE Goes(f, "mark") /\ UNCHANGED call
      BY <1>s, <1>p, <1>8, <2>2 DEF Recorded, Ready, InCall
    <2> QED
      BY <1>8, <2>1, <2>2 DEF Recorded
  <1> QED
    BY <1>1, <1>2, <1>3, <1>4, <1>5, <1>6, <1>7, <1>8 DEF Call

\* The process's own state: the keys it completed, and the permit.
LEMMA CallKeepsShares ==
  ASSUME SType, TInv, NEW f \in Fibers, Call(f)
  PROVE  OnePermit' /\ completed' \in [Processes -> SUBSET Keys]
  <1>h. ProcessOf(f) \in Processes /\ f \in ProcessOf(f)
    BY ProcessIsUnique
  <1>1. completed' \in [Processes -> SUBSET Keys]
    <2>1. CASE MarkCompleted(f)
      <3>1. call[f].key \in Keys
        BY <2>1 DEF MarkCompleted, Ready, SType, TInv, CallsAreKeyed, InCall, CallPlaces
      <3>2. completed' = [completed EXCEPT ![ProcessOf(f)] = @ \cup {call[f].key}]
        BY <2>1 DEF MarkCompleted
      <3> QED
        BY <3>1, <3>2 DEF TInv
    <2>2. CASE ~MarkCompleted(f)
      <3>1. UNCHANGED completed
        BY <2>2 DEF Call, Begin, BeginCheckpoint, CheckKnown, ScanFirst, Refused, Approve,
                    Enqueue, Recheck, Rescan, Reserved, Run, Recorded, Interrupt
      <3> QED
        BY <3>1 DEF TInv
    <2> QED
      BY <2>1, <2>2
  <1>2. OnePermit'
    <2>1. CASE Enqueue(f)
      <3>1. mutex' = [mutex EXCEPT ![ProcessOf(f)] = {f}]
        BY <2>1 DEF Enqueue
      <3> QED
        BY <1>h, <3>1 DEF SType, TInv, OnePermit
    <2>2. CASE mutex' = [mutex EXCEPT ![ProcessOf(f)] = @ \ {f}]
      <3>1. \A p \in Processes : mutex'[p] = mutex[p] \/ mutex'[p] = mutex[p] \ {f}
        BY <2>2 DEF SType
      <3> QED
        BY <3>1 DEF TInv, OnePermit
    <2>3. CASE UNCHANGED mutex
      BY <2>3 DEF TInv, OnePermit
    <2> QED
      BY <2>1, <2>2, <2>3 DEF Call, Begin, BeginCheckpoint, CheckKnown, ScanFirst, Refused,
           Approve, Recheck, Rescan, Reserved, Run, Recorded, MarkCompleted, Interrupt
  <1> QED
    BY <1>1, <1>2

LEMMA DieKeepsTInv ==
  ASSUME SType, TInv, NEW p \in Processes, Die(p)
  PROVE  TInv'
  <1>1. /\ at' = [f \in Fibers |-> IF f \in p THEN "out" ELSE at[f]]
        /\ answer' = [f \in Fibers |-> IF f \in p THEN 0 ELSE answer[f]]
        /\ pc' = [f \in Fibers |-> IF f \in p THEN "end" ELSE pc[f]]
        /\ call' = [f \in Callers |-> IF f \in p THEN NoCall ELSE call[f]]
        /\ depth' = [depth EXCEPT ![p] = 0]
        /\ completed' = [completed EXCEPT ![p] = {}] /\ mutex' = [mutex EXCEPT ![p] = {}]
        /\ UNCHANGED journal
    BY DEF Die, Kill
  <1>2. DepthIsCovered'
    <2>1. ASSUME NEW q \in Processes PROVE depth'[q] <= Cardinality(Inside(q)')
      <3>1. Cardinality(Inside(q)') \in Nat
        <4>1. IsFiniteSet(Fibers) /\ Inside(q)' \subseteq Fibers
          BY FiberAssumption DEF Inside, Fibers
        <4> QED
          BY <4>1, FS_Subset, FS_CardinalityType
      <3>2. CASE q = p
        BY <1>1, <3>1, <3>2 DEF TInv, DepthIsCovered
      <3>3. CASE q # p
        <4>1. \A g \in q : g \in Fibers /\ g \notin p
          BY <3>3, ProcessAssumption DEF Fibers
        <4>2. Inside(q)' = Inside(q)
          BY <1>1, <4>1 DEF Inside, Entered
        <4>3. depth'[q] = depth[q]
          BY <1>1, <3>3 DEF TInv, DepthIsCovered
        <4> QED
          BY <4>2, <4>3 DEF TInv, DepthIsCovered
      <3> QED
        BY <3>2, <3>3
    <2>2. depth' \in [Processes -> Nat]
      BY <1>1 DEF TInv, DepthIsCovered
    <2> QED
      BY <2>1, <2>2 DEF DepthIsCovered
  <1>3. CallsAreKeyed'
    <2>1. "end" \notin CallPlaces /\ Callers \subseteq Fibers
      BY CallerAssumption DEF CallPlaces
    <2> QED
      BY <1>1, <2>1 DEF TInv, CallsAreKeyed, InCall
  <1>4. OnePermit' /\ completed' \in [Processes -> SUBSET Keys]
    BY <1>1 DEF SType, TInv, OnePermit
  <1>5. \A f \in Fibers : answer'[f] <= Len(journal')
    <2>1. Len(journal) \in Nat
      BY DEF SType
    <2> QED
      BY <1>1, <2>1 DEF TInv
  <1> QED
    BY <1>2, <1>3, <1>4, <1>5 DEF TInv

LEMMA InitTInv == Init => TInv
  <1> SUFFICES ASSUME Init PROVE TInv
    OBVIOUS
  <1>1. /\ depth = [p \in Processes |-> 0] /\ answer = [f \in Fibers |-> 0]
        /\ pc = [f \in Fibers |-> "idle"] /\ completed = [p \in Processes |-> {}]
        /\ mutex = [p \in Processes |-> {}] /\ journal = << >>
    BY DEF Init, LockInit
  <1>2. DepthIsCovered
    <2>1. \A p \in Processes : Cardinality(Inside(p)) \in Nat
      BY InsideIsFinite
    <2> QED
      BY <1>1, <2>1 DEF DepthIsCovered
  <1>3. CallsAreKeyed
    <2>1. "idle" \notin CallPlaces /\ Callers \subseteq Fibers
      BY CallerAssumption DEF CallPlaces
    <2> QED
      BY <1>1, <2>1 DEF CallsAreKeyed, InCall
  <1>4. OnePermit /\ completed \in [Processes -> SUBSET Keys]
    BY <1>1 DEF OnePermit
  <1>5. \A f \in Fibers : answer[f] <= Len(journal)
    BY <1>1
  <1> QED
    BY <1>2, <1>3, <1>4, <1>5 DEF TInv

LEMMA StepTInv == SInv /\ LInv /\ TInv /\ [Next]_vars => TInv'
  <1> SUFFICES ASSUME SInv, LInv, TInv, [Next]_vars PROVE TInv'
    OBVIOUS
  <1>t. SType /\ WorksAt
    BY DEF SInv, LInv
  <1>1. ASSUME NEW f \in Fibers, Call(f) PROVE TInv'
    <2>1. DepthIsCovered' /\ \A g \in Fibers : answer'[g] <= Len(journal')
      BY <1>t, <1>1, CallStrides, StridesCount
    <2>2. CallsAreKeyed'
      BY <1>t, <1>1, CallKeepsKeys DEF TInv
    <2>3. OnePermit' /\ completed' \in [Processes -> SUBSET Keys]
      BY <1>t, <1>1, CallKeepsShares
    <2> QED
      BY <2>1, <2>2, <2>3 DEF TInv
  <1>2. ASSUME NEW f \in Fibers, Locking(f), UNCHANGED <<pc, call, completed, mutex>> PROVE TInv'
    BY <1>t, <1>2, LockKeepsTInv
  <1>3. ASSUME NEW p \in Processes, Die(p) PROVE TInv'
    BY <1>t, <1>3, DieKeepsTInv
  <1>4. CASE UNCHANGED <<depth, at, answer, journal, pc, call, completed, mutex>>
    <2>1. DepthIsCovered'
      <3>1. \A g \in Fibers : Entered(g) => Entered(g)'
        BY <1>4 DEF Entered
      <3> QED
        BY <1>4, <3>1, DepthStays DEF TInv
    <2> QED
      BY <1>4, <2>1 DEF TInv, CallsAreKeyed, InCall, OnePermit
  <1> QED
    BY <1>1, <1>2, <1>3, <1>4 DEF Next, Age, vars, lockVars

(***************************************************************************)
(* Type correctness: reentryDepth never exceeds the fibers there are, the  *)
(* mutex has one permit, and an append answers with an event on file, for  *)
(* any number of processes and fibers (Lock.ts:129-197, Guard.ts:439-478). *)
(***************************************************************************)
THEOREM TypesAlwaysHold == Spec => []TypeOK
  <1>1. SInv /\ TInv => TypeOK
    BY TypesFollow DEF SInv
  <1> QED
    BY <1>1, InitSInv, StepSInv, InitLInv, StepLInv, InitTInv, StepTInv, PTL DEF Spec
=============================================================================
