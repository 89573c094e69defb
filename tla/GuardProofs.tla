---------------------------- MODULE GuardProofs ----------------------------
(***************************************************************************)
(* Machine-checked facts about Guard, and about the audit of its journal,  *)
(* for any number of threads, processes and keys and journals of any       *)
(* length.                                                                 *)
(***************************************************************************)
EXTENDS AuditedGuard, FiniteSetTheorems, WellFoundedInduction, TLAPS

Less == {ss \in Nat \X Nat : ss[1] < ss[2]}

\* Every non-empty set of naturals has a least member.
LEMMA LeastNatural ==
  ASSUME NEW S, S \subseteq Nat, S # {}
  PROVE  \E d \in S : \A e \in S : d <= e
  <1>1. IsWellFoundedOn(Less, Nat)
    BY NatLessThanWellFounded DEF OpToRel, Less
  <1>2. PICK d \in S : \A e \in S : ~ (<<e, d>> \in Less)
    BY <1>1, WFMin
  <1>3. ASSUME NEW e \in S PROVE d <= e
    <2>1. <<e, d>> \in Nat \X Nat /\ <<e, d>>[1] = e /\ <<e, d>>[2] = d
      OBVIOUS
    <2>2. ~(e < d)
      BY <1>2, <2>1, Zenon DEF Less
    <2> QED
      BY <2>2
  <1> QED
    BY <1>3

\* A bounded set of naturals that is not empty has a greatest member.
LEMMA GreatestNatural ==
  ASSUME NEW n \in Nat, NEW S, S \subseteq 0..n, S # {}
  PROVE  \E m \in S : \A i \in S : i <= m
  <1> DEFINE T == {n - i : i \in S}
  <1>1. T \subseteq Nat /\ T # {}
    <2>1. \A i \in S : n - i \in Nat
      OBVIOUS
    <2>2. T \subseteq Nat
      BY <2>1
    <2> QED
      BY <2>2
  <1>2. PICK t \in T : \A u \in T : t <= u
    BY <1>1, LeastNatural
  <1>3. PICK m \in S : t = n - m
    BY <1>2
  <1>4. \A i \in S : n - m <= n - i
    BY <1>2, <1>3
  <1> QED
    BY <1>4

-----------------------------------------------------------------------------
\* First returns a member of the set, or 0.
LEMMA FirstIsMember ==
  ASSUME NEW S, S \subseteq Nat
  PROVE  /\ First(S) \in Nat
         /\ S # {} => First(S) \in S
  BY LeastNatural DEF First

-----------------------------------------------------------------------------
\* What an append does to a journal.
LEMMA AppendProperties ==
  ASSUME NEW j \in Seq(Event), NEW e \in Event
  PROVE  /\ Append(j, e) \in Seq(Event)
         /\ Len(Append(j, e)) = Len(j) + 1
         /\ Len(j) \in Nat
         /\ \A i \in 1..Len(j) : Append(j, e)[i] = j[i] /\ j[i] \in Event
         /\ Append(j, e)[Len(j) + 1] = e
  OBVIOUS

\* The constructors build events.
LEMMA Constructors ==
  /\ \A k \in Keys \cup {NoKey}, v \in Decisions, dry \in BOOLEAN, prior \in Nat :
       Decision(k, v, dry, prior) \in Event
  /\ \A d \in Nat, s \in Statuses : Outcome(d, s) \in Event
  /\ \A d \in Nat, r \in Resolutions : Resolution(d, r) \in Event
  BY DEF Decision, Outcome, Resolution, Event, Decisions, Verdicts, Statuses, Resolutions

\* MarkCompleted keeps the in-process memory a family of key sequences, no
\* longer than the cap.
LEMMA MarkType ==
  ASSUME TypeOK, NEW p \in Procs, NEW k \in Keys, MarkCompleted(p, k)
  PROVE  /\ completed' \in [Procs -> Seq(Keys)]
         /\ FileBacked => \A q \in Procs : Len(completed'[q]) <= CompletedMax
  <1> DEFINE marked == Append(completed[p], k)
  <1> DEFINE kept == IF FileBacked /\ Len(marked) > CompletedMax THEN Tail(marked) ELSE marked
  <1>1. completed[p] \in Seq(Keys) /\ CompletedMax \in Nat
    BY GuardAssumption DEF TypeOK
  <1>2. marked \in Seq(Keys) /\ Len(marked) = Len(completed[p]) + 1
    BY <1>1
  <1>3. Tail(marked) \in Seq(Keys) /\ Len(Tail(marked)) = Len(completed[p])
    BY <1>2
  <1>4. kept \in Seq(Keys) /\ (FileBacked => Len(kept) <= CompletedMax)
    <2>1. CASE FileBacked /\ Len(marked) > CompletedMax
      BY <1>3, <2>1 DEF TypeOK
    <2>2. CASE ~(FileBacked /\ Len(marked) > CompletedMax)
      BY <1>1, <1>2, <2>2
    <2> QED
      BY <2>1, <2>2
  <1>5. completed' = completed \/ completed' = [completed EXCEPT ![p] = kept]
    BY DEF MarkCompleted
  <1> HIDE DEF kept
  <1> QED
    BY <1>4, <1>5 DEF TypeOK

\* A keyed call in progress has its key in Keys; only a keyless call, or one on
\* a custom store, appends its decision without the scan.
KeyedOK == \A c \in Callers :
  /\ pc[c] \in {"completed?", "blocking?", "duplicate?", "mark"} => call[c].key \in Keys
  /\ pc[c] = "append" => ~(FileBacked /\ call[c].key # NoKey)

TInv == TypeOK /\ KeyedOK

\* Updating one local of a call keeps the others, and the type.
LEMMA CallUpdates ==
  ASSUME TypeOK, NEW c \in Callers
  PROVE  /\ \A n \in Nat :
              LET new == [call EXCEPT ![c].prior = n]
              IN  new \in [Callers -> Call] /\ \A b \in Callers : new[b].key = call[b].key
         /\ \A n \in Nat :
              LET new == [call EXCEPT ![c].id = n]
              IN  new \in [Callers -> Call] /\ \A b \in Callers : new[b].key = call[b].key
         /\ \A v \in Verdicts :
              LET new == [call EXCEPT ![c].verdict = v]
              IN  new \in [Callers -> Call] /\ \A b \in Callers : new[b].key = call[b].key
         /\ \A s \in Statuses :
              LET new == [call EXCEPT ![c].result = s]
              IN  new \in [Callers -> Call] /\ \A b \in Callers : new[b].key = call[b].key
  <1>1. call \in [Callers -> Call] /\ call[c] \in Call
    BY DEF TypeOK
  <1>2. \A r \in Call :
          /\ \A n \in Nat : [r EXCEPT !.prior = n] \in Call /\ [r EXCEPT !.prior = n].key = r.key
          /\ \A n \in Nat : [r EXCEPT !.id = n] \in Call /\ [r EXCEPT !.id = n].key = r.key
          /\ \A v \in Verdicts : [r EXCEPT !.verdict = v] \in Call
                                 /\ [r EXCEPT !.verdict = v].key = r.key
          /\ \A s \in Statuses : [r EXCEPT !.result = s] \in Call
                                 /\ [r EXCEPT !.result = s].key = r.key
    BY DEF Call
  <1> QED
    BY <1>1, <1>2

LEMMA ReturnType ==
  ASSUME TypeOK, NEW c \in Callers, Return(c)
  PROVE  pc' \in [Callers -> PCs] /\ call' \in [Callers -> Call]
  BY DEF TypeOK, Return, Goto, PCs, NoCall, Call, Verdicts, Statuses

LEMMA LogType ==
  ASSUME TypeOK, NEW e \in Event, Log(e)
  PROVE  journal' \in Seq(Event)
  BY DEF TypeOK, Log

LEMMA DecideType ==
  ASSUME TypeOK, NEW c \in Callers, Decide(c)
  PROVE  /\ journal' \in Seq(Event)
         /\ pc' \in [Callers -> PCs]
         /\ call' \in [Callers -> Call]
         /\ \A b \in Callers :
              (pc'[b] = pc[b] /\ call'[b] = call[b]) \/ pc'[b] \in {"idle", "run"}
  <1> DEFINE e == Decision(call[c].key, call[c].verdict, call[c].dry, 0)
  <1>1. call[c] \in Call /\ Len(journal) \in Nat
    BY DEF TypeOK
  <1>2. e \in Event
    BY <1>1, Constructors DEF Call, Decisions, Verdicts
  <1>3. journal' \in Seq(Event)
    BY <1>2, LogType DEF Decide
  <1>4. CASE Return(c)
    BY <1>3, <1>4, ReturnType DEF Return, Goto, TypeOK
  <1>5. CASE Goto(c, "run") /\ call' = [call EXCEPT ![c].id = Len(journal) + 1]
    <2>0. Len(journal) + 1 \in Nat
      BY <1>1
    <2>1. call' \in [Callers -> Call]
      BY <1>5, <2>0, CallUpdates
    <2>2. pc' \in [Callers -> PCs] /\ pc'[c] = "run"
      BY <1>5 DEF Goto, TypeOK, PCs
    <2>3. \A b \in Callers : b # c => pc'[b] = pc[b] /\ call'[b] = call[b]
      BY <1>5 DEF Goto, TypeOK
    <2> QED
      BY <1>3, <2>1, <2>2, <2>3
  <1> QED
    BY <1>4, <1>5 DEF Decide

LEMMA TypeInit == Init => TInv
  BY GuardAssumption DEF Init, TInv, TypeOK, KeyedOK, PCs, NoCall, Call, Verdicts, Statuses

LEMMA TypeStep == TInv /\ [Next]_vars => TInv'
  <1> SUFFICES ASSUME TInv, [Next]_vars PROVE TInv'
    OBVIOUS
  <1> USE DEF TInv
  <1>a. \A c \in Callers : ProcOf[c] \in Procs /\ call[c] \in Call
    BY GuardAssumption DEF TypeOK
  <1>b. \A k : Completed(journal, k) \subseteq Nat /\ Blocking(journal, k) \subseteq Nat
    BY DEF TypeOK, Completed, Blocking, ReservationsOf
  <1>c. \A k : First(Completed(journal, k)) \in Nat /\ First(Blocking(journal, k)) \in Nat
    BY <1>b, FirstIsMember
  <1>1. ASSUME NEW c \in Callers, NEW kd \in Calls[c], Begin(c, kd[1], kd[2]) PROVE TInv'
    <2>1. kd[1] \in Keys \cup {NoKey} /\ kd[2] \in BOOLEAN
      BY GuardAssumption
    <2>2. [NoCall EXCEPT !.key = kd[1], !.dry = kd[2]] \in Call
      BY <2>1 DEF NoCall, Call, Verdicts, Statuses
    <2> QED
      BY <1>1, <2>1, <2>2, KeyAssumption DEF Begin, Goto, TypeOK, KeyedOK, PCs, NoCall
  <1>2. ASSUME NEW c \in Callers, LookUpCompleted(c) PROVE TInv'
    <2>1. call[c].key \in Keys
      BY <1>2 DEF LookUpCompleted, KeyedOK
    <2>2. /\ completed' \in [Procs -> Seq(Keys)]
          /\ FileBacked => \A p \in Procs : Len(completed'[p]) <= CompletedMax
      BY <1>a, <1>2, <2>1, MarkType DEF LookUpCompleted, TypeOK
    <2>3. \/ UNCHANGED call
          \/ call' = [call EXCEPT ![c].prior = First(Completed(journal, call[c].key))]
      BY <1>2 DEF LookUpCompleted
    <2>4. call' \in [Callers -> Call] /\ \A b \in Callers : call'[b].key = call[b].key
      <3>1. CASE UNCHANGED call
        BY <3>1 DEF TypeOK
      <3>2. CASE call' = [call EXCEPT ![c].prior = First(Completed(journal, call[c].key))]
        BY <1>c, <3>2, CallUpdates
      <3> QED
        BY <2>3, <3>1, <3>2
    <2>5. Goto(c, "duplicate?") \/ Goto(c, "blocking?")
      BY <1>2 DEF LookUpCompleted
    <2> QED
      BY <1>2, <2>1, <2>2, <2>4, <2>5 DEF LookUpCompleted, Goto, TypeOK, KeyedOK, PCs
  <1>3. ASSUME NEW c \in Callers, LookUpBlocking(c) PROVE TInv'
    <2>1. call' \in [Callers -> Call] /\ \A b \in Callers : call'[b].key = call[b].key
      BY <1>c, <1>3, CallUpdates DEF LookUpBlocking
    <2> QED
      BY <1>3, <2>1 DEF LookUpBlocking, Goto, TypeOK, KeyedOK, PCs
  <1>4. ASSUME NEW c \in Callers, DenyKnownDuplicate(c) PROVE TInv'
    <2>1. Decision(call[c].key, "duplicate", FALSE, call[c].prior) \in Event
      BY <1>a, Constructors DEF Call, Decisions
    <2> QED
      BY <1>4, <2>1, LogType, ReturnType
      DEF DenyKnownDuplicate, Return, Goto, TypeOK, KeyedOK
  <1>5. ASSUME NEW c \in Callers, PassPrecheck(c) PROVE TInv'
    BY <1>5 DEF PassPrecheck, Goto, TypeOK, KeyedOK, PCs
  <1>6. ASSUME NEW c \in Callers, Approve(c) PROVE TInv'
    <2>1. CASE Return(c)
      BY <1>6, <2>1, ReturnType DEF Approve, Return, Goto, TypeOK, KeyedOK
    <2>2. CASE \E verdict \in Verdicts :
                 call' = [call EXCEPT ![c].verdict = verdict] /\ Goto(c, "reserve")
      <3>1. PICK verdict \in Verdicts : call' = [call EXCEPT ![c].verdict = verdict] /\ Goto(c, "reserve")
        BY <2>2
      <3>2. call' \in [Callers -> Call] /\ \A b \in Callers : call'[b].key = call[b].key
        BY <1>6, <3>1, CallUpdates
      <3>3. TypeOK'
        BY <1>a, <1>6, <3>1, <3>2 DEF Approve, Goto, TypeOK, PCs
      <3> QED
        BY <1>a, <1>6, <3>1, <3>2, <3>3 DEF Approve, Goto, KeyedOK, TypeOK
    <2> QED
      BY <1>6, <2>1, <2>2 DEF Approve
  <1>7. ASSUME NEW c \in Callers, Reserve(c) PROVE TInv'
    <2>1. Decision(call[c].key, "duplicate", FALSE, First(Blocking(journal, call[c].key))) \in Event
      BY <1>a, <1>c, Constructors DEF Call, Decisions
    <2>2. CASE Decide(c)
      BY <1>7, <2>2, DecideType DEF Reserve, TypeOK, KeyedOK
    <2>3. CASE Return(c) /\ Log(Decision(call[c].key, "duplicate", FALSE,
                                        First(Blocking(journal, call[c].key))))
      BY <1>7, <2>1, <2>3, LogType, ReturnType DEF Reserve, Return, Goto, TypeOK, KeyedOK
    <2> QED
      BY <1>7, <2>2, <2>3 DEF Reserve
  <1>8. ASSUME NEW c \in Callers, Recheck(c) PROVE TInv'
    <2>1. Decision(call[c].key, "duplicate", FALSE, 0) \in Event
      BY <1>a, Constructors DEF Call, Decisions
    <2>2. CASE Return(c) /\ Log(Decision(call[c].key, "duplicate", FALSE, 0))
      BY <1>8, <2>1, <2>2, LogType, ReturnType DEF Recheck, Return, Goto, TypeOK, KeyedOK
    <2>3. CASE Goto(c, "append") /\ UNCHANGED <<journal, call>>
      BY <1>8, <2>3 DEF Recheck, Atomic, Goto, TypeOK, KeyedOK, PCs
    <2> QED
      BY <1>8, <2>2, <2>3 DEF Recheck
  <1>9. ASSUME NEW c \in Callers, AppendDecision(c) PROVE TInv'
    BY <1>9, DecideType DEF AppendDecision, TypeOK, KeyedOK
  <1>10. ASSUME NEW c \in Callers, AppendFails(c) PROVE TInv'
    BY <1>10, ReturnType DEF AppendFails, Return, Goto, TypeOK, KeyedOK
  <1>11. ASSUME NEW c \in Callers, DecisionRaises(c) PROVE TInv'
    <2>1. Decision(call[c].key, call[c].verdict, call[c].dry, 0) \in Event
      BY <1>a, Constructors DEF Call, Decisions, Verdicts
    <2> QED
      BY <1>11, <2>1, LogType, ReturnType DEF DecisionRaises, Return, Goto, TypeOK, KeyedOK
  <1>12. ASSUME NEW c \in Callers, Run(c) PROVE TInv'
    <2>1. PICK result \in Statuses :
            /\ runs' = runs \cup {[id |-> call[c].id, result |-> result]}
            /\ call' = [call EXCEPT ![c].result = result]
      BY <1>12 DEF Run
    <2>2. runs' \subseteq [id : Nat, result : Statuses \cup {"interrupted"}]
      BY <1>a, <2>1 DEF TypeOK, Call
    <2>3. call' \in [Callers -> Call] /\ \A b \in Callers : call'[b].key = call[b].key
      BY <2>1, CallUpdates
    <2> QED
      BY <1>12, <2>2, <2>3 DEF Run, Goto, TypeOK, KeyedOK, PCs
  <1>13. ASSUME NEW c \in Callers, Interrupt(c) PROVE TInv'
    <2>1. runs' \subseteq [id : Nat, result : Statuses \cup {"interrupted"}]
      BY <1>a, <1>13 DEF Interrupt, TypeOK, Call
    <2> QED
      BY <1>13, <2>1, ReturnType DEF Interrupt, Return, Goto, TypeOK, KeyedOK
  <1>14. ASSUME NEW c \in Callers, RecordOutcome(c) PROVE TInv'
    <2>1. Outcome(call[c].id, call[c].result) \in Event
      BY <1>a, Constructors DEF Call
    <2>2. CASE Return(c)
      BY <1>14, <2>1, <2>2, LogType, ReturnType DEF RecordOutcome, Return, Goto, TypeOK, KeyedOK
    <2>3. CASE call[c].key # NoKey /\ Goto(c, "mark") /\ UNCHANGED call
      BY <1>a, <1>14, <2>1, <2>3, LogType DEF RecordOutcome, Goto, TypeOK, KeyedOK, PCs, Call
    <2> QED
      BY <1>14, <2>2, <2>3 DEF RecordOutcome
  <1>15. ASSUME NEW c \in Callers, OutcomeRaises(c) PROVE TInv'
    <2>1. Outcome(call[c].id, call[c].result) \in Event
      BY <1>a, Constructors DEF Call
    <2>2. journal' \in Seq(Event)
      BY <1>15, <2>1, LogType DEF OutcomeRaises, TypeOK
    <2> QED
      BY <1>15, <2>2, ReturnType DEF OutcomeRaises, Return, Goto, TypeOK, KeyedOK
  <1>16. ASSUME NEW c \in Callers, Mark(c) PROVE TInv'
    <2>1. call[c].key \in Keys
      BY <1>16 DEF Mark, KeyedOK
    <2>2. /\ completed' \in [Procs -> Seq(Keys)]
          /\ FileBacked => \A p \in Procs : Len(completed'[p]) <= CompletedMax
      BY <1>a, <1>16, <2>1, MarkType DEF Mark
    <2> QED
      BY <1>16, <2>2, ReturnType DEF Mark, Return, Goto, TypeOK, KeyedOK
  <1>17. ASSUME NEW p \in Procs, Crash(p) PROVE TInv'
    <2>1. runs' \subseteq [id : Nat, result : Statuses \cup {"interrupted"}]
      BY <1>a, <1>17 DEF Crash, TypeOK, Call
    <2>2. /\ completed' \in [Procs -> Seq(Keys)]
          /\ FileBacked => \A q \in Procs : Len(completed'[q]) <= CompletedMax
      BY <1>17, GuardAssumption DEF Crash, TypeOK
    <2>3. pc' \in [Callers -> PCs] /\ call' \in [Callers -> Call]
      BY <1>a, <1>17 DEF Crash, TypeOK, PCs, NoCall, Call, Verdicts, Statuses
    <2> QED
      BY <1>17, <2>1, <2>2, <2>3 DEF Crash, TypeOK, KeyedOK
  <1>18. ASSUME NEW d \in 1..Len(journal), NEW r \in Resolutions, Resolve(d, r) PROVE TInv'
    <2>1. Resolution(d, r) \in Event
      BY Constructors DEF TypeOK
    <2> QED
      BY <1>18, <2>1, LogType DEF Resolve, TypeOK, KeyedOK
  <1>19. CASE UNCHANGED vars
    BY <1>19 DEF vars, TypeOK, KeyedOK
  <1> QED
    BY <1>1, <1>2, <1>3, <1>4, <1>5, <1>6, <1>7, <1>8, <1>9, <1>10, <1>11, <1>12,
       <1>13, <1>14, <1>15, <1>16, <1>17, <1>18, <1>19 DEF Next, Step

(***************************************************************************)
(* Every reachable state of the guarded call is well typed.                *)
(***************************************************************************)
THEOREM TypeCorrect == Spec => []TypeOK
  <1>1. TInv => TypeOK
    BY DEF TInv
  <1> QED
    BY <1>1, TypeInit, TypeStep, PTL DEF Spec

-----------------------------------------------------------------------------
(***************************************************************************)
(* The inductive invariant.  Safety of the runs rests on what the journal  *)
(* says of reservations (OneReservation) and on every executing call       *)
(* standing for one reservation nobody else executes (Executing).          *)
(***************************************************************************)
Executing(c) == pc[c] \in {"run", "record"}

ExecutingIsReserved ==
  \A c \in Callers : Executing(c) =>
    IsReservation(journal, call[c].id) /\ OutcomesOf(journal, call[c].id) = {}

ExecutingIsExclusive ==
  \A b, c \in Callers : Executing(b) /\ Executing(c) /\ b # c => call[b].id # call[c].id

RunsAreTracked ==
  \A c \in Callers :
    /\ pc[c] = "run" => \A r \in runs : r.id # call[c].id
    /\ pc[c] = "record" => [id |-> call[c].id, result |-> call[c].result] \in runs

OneReservation(j) ==
  \A d, e \in 1..Len(j) :
    IsReservation(j, d) /\ IsReservation(j, e) /\ d < e
      /\ j[d].key = j[e].key /\ j[d].key # NoKey
      => Failed(j, d) \/ Released(j, d)

IInv ==
  /\ TInv
  /\ ExecutingIsReserved
  /\ ExecutingIsExclusive
  /\ RunsAreTracked
  /\ EvidenceIsTrue
  /\ FileBacked => OneReservation(journal)

LEMMA InitIInv == Init => IInv
  <1> SUFFICES ASSUME Init PROVE IInv
    OBVIOUS
  <1>1. TInv
    BY TypeInit
  <1>2. journal = <<>> /\ Len(journal) = 0 /\ runs = {} /\ \A c \in Callers : pc[c] = "idle"
    BY DEF Init
  <1> QED
    BY <1>1, <1>2 DEF IInv, ExecutingIsReserved, ExecutingIsExclusive, RunsAreTracked,
       EvidenceIsTrue, OneReservation, Executing

\* What an append leaves true of the older events.
LEMMA AppendPreserves ==
  ASSUME NEW j \in Seq(Event), NEW e \in Event, NEW d \in 1..Len(j)
  PROVE  LET j2 == Append(j, e)
         IN  /\ j2[d] = j[d]
             /\ d \in 1..Len(j2)
             /\ IsReservation(j2, d) <=> IsReservation(j, d)
             /\ Failed(j, d) => Failed(j2, d)
             /\ Released(j, d) => Released(j2, d)
  <1> DEFINE j2 == Append(j, e)
  <1>1. Len(j2) = Len(j) + 1 /\ Len(j) \in Nat /\ \A i \in 1..Len(j) : j2[i] = j[i]
    BY AppendProperties
  <1>2. OutcomesOf(j, d) \subseteq OutcomesOf(j2, d) /\ ResolutionsOf(j, d) \subseteq ResolutionsOf(j2, d)
    BY <1>1 DEF OutcomesOf, ResolutionsOf
  <1>3. j2[d] = j[d] /\ d \in 1..Len(j2)
    BY <1>1
  <1>4. IsReservation(j2, d) <=> IsReservation(j, d)
    BY <1>3 DEF IsReservation
  <1>5. Failed(j, d) => Failed(j2, d)
    BY <1>1, <1>2 DEF Failed, OutcomesOf
  <1>6. Released(j, d) => Released(j2, d)
    BY <1>1, <1>2 DEF Released, ResolutionsOf
  <1> QED
    BY <1>3, <1>4, <1>5, <1>6

\* An append adds its own id to the outcomes of the decision it refers to.
LEMMA AppendOutcomes ==
  ASSUME NEW j \in Seq(Event), NEW e \in Event, NEW d
  PROVE  OutcomesOf(Append(j, e), d) =
           IF e.type = "outcome" /\ e.ref = d
           THEN OutcomesOf(j, d) \cup {Len(j) + 1} ELSE OutcomesOf(j, d)
  <1> DEFINE j2 == Append(j, e)
  <1>1. /\ Len(j2) = Len(j) + 1 /\ Len(j) \in Nat
        /\ \A i \in 1..Len(j) : j2[i] = j[i]
        /\ j2[Len(j) + 1] = e
    BY AppendProperties
  <1>2. \A i : i \in 1..Len(j2) <=> i \in 1..Len(j) \/ i = Len(j) + 1
    BY <1>1
  <1> QED
    BY <1>1, <1>2 DEF OutcomesOf

(***************************************************************************)
(* A new reservation of a key, on a file-backed store, is appended only    *)
(* when nothing in the journal blocks the key.                             *)
(***************************************************************************)
Justified(e) ==
  e.type = "decision" /\ e.value = "allowed" /\ ~e.dry /\ e.key # NoKey /\ FileBacked
    => Blocking(journal, e.key) = {}

LEMMA AppendKeepsOneReservation ==
  ASSUME journal \in Seq(Event), NEW e \in Event, FileBacked, OneReservation(journal),
         Justified(e)
  PROVE  OneReservation(Append(journal, e))
  <1> DEFINE j  == journal
             j2 == Append(journal, e)
  <1> SUFFICES ASSUME NEW d \in 1..Len(j2), NEW f \in 1..Len(j2),
                      IsReservation(j2, d), IsReservation(j2, f), d < f,
                      j2[d].key = j2[f].key, j2[d].key # NoKey
               PROVE  Failed(j2, d) \/ Released(j2, d)
    BY DEF OneReservation
  <1>1. /\ Len(j2) = Len(j) + 1 /\ Len(j) \in Nat
        /\ \A i \in 1..Len(j) : j2[i] = j[i]
        /\ j2[Len(j) + 1] = e
    BY AppendProperties
  <1>2. d \in 1..Len(j) /\ j2[d] = j[d] /\ IsReservation(j, d)
    BY <1>1, AppendPreserves
  <1>3. Failed(j, d) \/ Released(j, d)
    <2>1. CASE f \in 1..Len(j)
      <3>1. j2[f] = j[f] /\ IsReservation(j, f)
        BY <2>1, AppendPreserves
      <3> QED
        BY <1>2, <2>1, <3>1 DEF OneReservation
    <2>2. CASE f = Len(j) + 1
      <3>1. e.type = "decision" /\ e.value = "allowed" /\ ~e.dry /\ e.key = j[d].key
        BY <1>1, <1>2, <2>2 DEF IsReservation
      <3>2. Blocking(j, e.key) = {}
        BY <1>2, <3>1 DEF Justified
      <3>3. d \in ReservationsOf(j, e.key)
        BY <1>2, <3>1 DEF ReservationsOf
      <3>4. ~Succeeded(j, d) /\ (OutcomesOf(j, d) # {} \/ Cleared(j, d))
        BY <3>2, <3>3 DEF Blocking
      <3>5. CASE Cleared(j, d)
        BY <3>5 DEF Cleared, Released
      <3>6. CASE OutcomesOf(j, d) # {}
        <4>1. PICK o \in OutcomesOf(j, d) : TRUE
          BY <3>6
        <4>2. j[o] \in Event /\ j[o].type = "outcome"
          BY <4>1 DEF OutcomesOf
        <4>3. j[o].value \in Statuses
          BY <4>2 DEF Event
        <4> QED
          BY <3>4, <4>1, <4>3 DEF Succeeded, Failed, Statuses
      <3> QED
        BY <3>4, <3>5, <3>6
    <2> QED
      BY <1>1, <2>1, <2>2
  <1> QED
    BY <1>2, <1>3, AppendPreserves

-----------------------------------------------------------------------------
\* No caller starts executing, and those that go on keep what they stand for.
Undisturbed ==
  \A b \in Callers : Executing(b)' =>
    pc'[b] = pc[b] /\ call'[b].id = call[b].id /\ call'[b].result = call[b].result

\* The journal stays, or grows by a justified event that is no outcome.
Grows == \E e \in Event : journal' = Append(journal, e) /\ Justified(e) /\ e.type # "outcome"

LEMMA ExecutingPreserved ==
  ASSUME TInv, ExecutingIsReserved, ExecutingIsExclusive, RunsAreTracked, Undisturbed,
         \/ journal' = journal
         \/ \E e \in Event :
              /\ journal' = Append(journal, e)
              /\ e.type = "outcome" => \A b \in Callers : Executing(b)' => e.ref # call[b].id,
         runs \subseteq runs',
         \A r \in runs' \ runs : \A b \in Callers : pc'[b] = "run" => r.id # call[b].id
  PROVE  (ExecutingIsReserved /\ ExecutingIsExclusive /\ RunsAreTracked)'
  <1>1. \A b \in Callers : Executing(b)' =>
          Executing(b) /\ call'[b].id = call[b].id /\ call'[b].result = call[b].result
    BY DEF Undisturbed, Executing
  <1>2. ASSUME NEW b \in Callers, Executing(b)'
        PROVE  IsReservation(journal', call'[b].id) /\ OutcomesOf(journal', call'[b].id) = {}
    <2>1. IsReservation(journal, call[b].id) /\ OutcomesOf(journal, call[b].id) = {}
      BY <1>1, <1>2 DEF ExecutingIsReserved
    <2>2. call[b].id \in 1..Len(journal)
      BY <2>1 DEF IsReservation
    <2>3. CASE journal' = journal
      BY <1>1, <1>2, <2>1, <2>3
    <2>4. CASE journal' # journal
      <3>1. PICK e \in Event :
              /\ journal' = Append(journal, e)
              /\ e.type = "outcome" => \A c \in Callers : Executing(c)' => e.ref # call[c].id
        BY <2>4
      <3>2. journal \in Seq(Event)
        BY DEF TInv, TypeOK
      <3>3. IsReservation(journal', call[b].id)
        BY <2>1, <2>2, <3>1, <3>2, AppendPreserves
      <3>4. OutcomesOf(journal', call[b].id) = {}
        BY <1>2, <2>1, <3>1, <3>2, AppendOutcomes
      <3> QED
        BY <1>1, <1>2, <3>3, <3>4
    <2> QED
      BY <2>3, <2>4
  <1>3. ExecutingIsExclusive'
    BY <1>1 DEF ExecutingIsExclusive
  <1>4. RunsAreTracked'
    BY <1>1 DEF RunsAreTracked, Undisturbed, Executing
  <1> QED
    BY <1>2, <1>3, <1>4 DEF ExecutingIsReserved

\* An event that is no outcome leaves the evidence as true as it was.
LEMMA EvidenceGrows ==
  ASSUME TypeOK, EvidenceIsTrue, runs' = runs, Grows
  PROVE  EvidenceIsTrue'
  <1>1. PICK e \in Event : journal' = Append(journal, e) /\ e.type # "outcome"
    BY DEF Grows
  <1>2. /\ Len(journal') = Len(journal) + 1 /\ Len(journal) \in Nat
        /\ \A i \in 1..Len(journal) : journal'[i] = journal[i]
        /\ journal'[Len(journal) + 1] = e
        /\ journal \in Seq(Event)
    BY <1>1, AppendProperties DEF TypeOK
  <1>3. \A d : OutcomesOf(journal', d) = OutcomesOf(journal, d)
    BY <1>1, <1>2, AppendOutcomes
  <1>4. ASSUME NEW r \in runs PROVE IsReservation(journal', r.id)
    <2>1. IsReservation(journal, r.id) /\ r.id \in 1..Len(journal)
      BY <1>4 DEF EvidenceIsTrue, IsReservation
    <2> QED
      BY <1>1, <1>2, <2>1, AppendPreserves
  <1>5. ASSUME NEW i \in 1..Len(journal'), journal'[i].type = "outcome"
        PROVE  /\ [id |-> journal'[i].ref, result |-> journal'[i].value] \in runs
               /\ OutcomesOf(journal', journal'[i].ref) = {i}
    <2>1. i \in 1..Len(journal) /\ journal'[i] = journal[i]
      BY <1>1, <1>2, <1>5
    <2> QED
      BY <1>3, <1>5, <2>1 DEF EvidenceIsTrue
  <1>6. \A r, s \in runs : r.id = s.id => r = s
    BY DEF EvidenceIsTrue
  <1> QED
    BY <1>4, <1>5, <1>6 DEF EvidenceIsTrue

\* So does the outcome of a run that had none.
LEMMA EvidenceRecorded ==
  ASSUME TypeOK, EvidenceIsTrue, runs' = runs,
         NEW d \in Nat, NEW s \in Statuses,
         journal' = Append(journal, Outcome(d, s)),
         [id |-> d, result |-> s] \in runs, OutcomesOf(journal, d) = {}
  PROVE  EvidenceIsTrue'
  <1> DEFINE e == Outcome(d, s)
  <1>1. e \in Event /\ e.type = "outcome" /\ e.ref = d /\ e.value = s
    BY Constructors DEF Outcome
  <1>2. /\ Len(journal') = Len(journal) + 1 /\ Len(journal) \in Nat
        /\ \A i \in 1..Len(journal) : journal'[i] = journal[i]
        /\ journal'[Len(journal) + 1] = e
        /\ journal \in Seq(Event)
    BY <1>1, AppendProperties DEF TypeOK
  <1>3. \A f : OutcomesOf(journal', f) =
                 IF f = d THEN {Len(journal) + 1} ELSE OutcomesOf(journal, f)
    BY <1>1, <1>2, AppendOutcomes
  <1>4. ASSUME NEW r \in runs PROVE IsReservation(journal', r.id)
    <2>1. IsReservation(journal, r.id) /\ r.id \in 1..Len(journal)
      BY <1>4 DEF EvidenceIsTrue, IsReservation
    <2> QED
      BY <1>1, <1>2, <2>1, AppendPreserves
  <1>5. ASSUME NEW i \in 1..Len(journal'), journal'[i].type = "outcome"
        PROVE  /\ [id |-> journal'[i].ref, result |-> journal'[i].value] \in runs
               /\ OutcomesOf(journal', journal'[i].ref) = {i}
    <2>1. CASE i = Len(journal) + 1
      <3>1. journal'[i].ref = d /\ journal'[i].value = s
        BY <1>1, <1>2, <2>1
      <3>2. OutcomesOf(journal', d) = {i}
        BY <1>3, <2>1
      <3>3. [id |-> journal'[i].ref, result |-> journal'[i].value] = [id |-> d, result |-> s]
        BY <3>1
      <3>4. OutcomesOf(journal', journal'[i].ref) = {i}
        BY <3>1, <3>2, Zenon
      <3>5. [id |-> journal'[i].ref, result |-> journal'[i].value] \in runs
        BY <3>3
      <3> QED
        BY <3>4, <3>5
    <2>2. CASE i \in 1..Len(journal)
      <3>1. journal'[i] = journal[i] /\ i \in OutcomesOf(journal, journal[i].ref)
        BY <1>2, <1>5, <2>2 DEF OutcomesOf
      <3>2. journal[i].ref # d
        BY <3>1
      <3> QED
        BY <1>3, <1>5, <2>2, <3>1, <3>2 DEF EvidenceIsTrue
    <2>3. i = Len(journal) + 1 \/ i \in 1..Len(journal)
      BY <1>2, <1>5
    <2> QED
      BY <2>1, <2>2, <2>3, Zenon
  <1>6. \A r, t \in runs : r.id = t.id => r = t
    BY DEF EvidenceIsTrue
  <1> QED
    BY <1>4, <1>5, <1>6 DEF EvidenceIsTrue

\* So do the runs of executing calls that had not run yet.
LEMMA EvidenceRan ==
  ASSUME EvidenceIsTrue, ExecutingIsReserved, ExecutingIsExclusive, RunsAreTracked,
         UNCHANGED journal,
         NEW B \in SUBSET Callers, \A b \in B : pc[b] = "run",
         NEW R \in [B -> Statuses \cup {"interrupted"}],
         runs' = runs \cup {[id |-> call[b].id, result |-> R[b]] : b \in B}
  PROVE  EvidenceIsTrue'
  <1>1. ASSUME NEW r \in runs' PROVE IsReservation(journal, r.id)
    BY DEF EvidenceIsTrue, ExecutingIsReserved, Executing
  <1>2. ASSUME NEW r \in runs', NEW s \in runs', r.id = s.id PROVE r = s
    <2>1. CASE r \in runs /\ s \in runs
      BY <1>2, <2>1 DEF EvidenceIsTrue
    <2>a. \A b \in B, q \in runs : q.id # call[b].id
      BY DEF RunsAreTracked
    <2>2. CASE r \in runs /\ s \notin runs
      <3>1. PICK b \in B : s = [id |-> call[b].id, result |-> R[b]]
        BY <2>2
      <3> QED
        BY <1>2, <2>a, <2>2, <3>1
    <2>3. CASE r \notin runs /\ s \in runs
      <3>1. PICK b \in B : r = [id |-> call[b].id, result |-> R[b]]
        BY <2>3
      <3> QED
        BY <1>2, <2>a, <2>3, <3>1
    <2>4. CASE r \notin runs /\ s \notin runs
      <3>1. PICK b \in B : r = [id |-> call[b].id, result |-> R[b]]
        BY <2>4
      <3>2. PICK c \in B : s = [id |-> call[c].id, result |-> R[c]]
        BY <2>4
      <3>3. call[b].id = call[c].id
        BY <1>2, <3>1, <3>2
      <3>4. b = c
        BY <3>3 DEF ExecutingIsExclusive, Executing
      <3> QED
        BY <3>1, <3>2, <3>4
    <2> QED
      BY <2>1, <2>2, <2>3, <2>4
  <1>3. \A i \in 1..Len(journal) : journal[i].type = "outcome" =>
          /\ [id |-> journal[i].ref, result |-> journal[i].value] \in runs'
          /\ OutcomesOf(journal, journal[i].ref) = {i}
    BY DEF EvidenceIsTrue
  <1> QED
    BY <1>1, <1>2, <1>3 DEF EvidenceIsTrue

-----------------------------------------------------------------------------
\* A step that starts no execution and ends no run keeps the invariant.
LEMMA QuietStep ==
  ASSUME IInv, TInv', Undisturbed, runs' = runs, journal' = journal \/ Grows
  PROVE  IInv'
  <1>1. (ExecutingIsReserved /\ ExecutingIsExclusive /\ RunsAreTracked)'
    BY ExecutingPreserved DEF IInv, Grows
  <1>2. EvidenceIsTrue'
    <2>1. CASE journal' = journal
      BY <2>1 DEF IInv, EvidenceIsTrue
    <2>2. CASE Grows
      BY <2>2, EvidenceGrows DEF IInv, TInv
    <2> QED
      BY <2>1, <2>2
  <1>3. ASSUME FileBacked PROVE OneReservation(journal')
    <2>1. CASE journal' = journal
      BY <1>3, <2>1 DEF IInv
    <2>2. CASE Grows
      BY <1>3, <2>2, AppendKeepsOneReservation DEF Grows, IInv, TInv, TypeOK
    <2> QED
      BY <2>1, <2>2
  <1> QED
    BY <1>1, <1>2, <1>3 DEF IInv

\* The outcome of an executing call keeps the invariant.
LEMMA OutcomeStep ==
  ASSUME IInv, TInv', Undisturbed, runs' = runs, NEW c \in Callers,
         pc[c] = "record", pc'[c] \notin {"run", "record"},
         journal' = Append(journal, Outcome(call[c].id, call[c].result))
  PROVE  IInv'
  <1> DEFINE d == call[c].id
             s == call[c].result
             e == Outcome(d, s)
  <1>1. d \in Nat /\ s \in Statuses /\ journal \in Seq(Event)
    BY DEF IInv, TInv, TypeOK, Call
  <1>2. e \in Event /\ e.type = "outcome" /\ e.ref = d /\ e.value = s
    BY <1>1, Constructors DEF Outcome
  <1>3. [id |-> d, result |-> s] \in runs /\ OutcomesOf(journal, d) = {}
    BY DEF IInv, RunsAreTracked, ExecutingIsReserved, Executing
  <1>4. EvidenceIsTrue'
    BY <1>1, <1>3, EvidenceRecorded DEF IInv, TInv
  <1>5. \A b \in Callers : Executing(b)' => e.ref # call[b].id
    BY <1>2 DEF IInv, ExecutingIsExclusive, Undisturbed, Executing
  <1>6. (ExecutingIsReserved /\ ExecutingIsExclusive /\ RunsAreTracked)'
    BY <1>2, <1>5, ExecutingPreserved DEF IInv
  <1>7. FileBacked => OneReservation(journal')
    BY <1>1, <1>2, AppendKeepsOneReservation DEF IInv, Justified
  <1> QED
    BY <1>4, <1>6, <1>7 DEF IInv

\* An approved decision is a justified event.
LEMMA DecideJustified ==
  ASSUME TypeOK, NEW c \in Callers, Decide(c),
         FileBacked /\ call[c].key # NoKey => Blocking(journal, call[c].key) = {}
  PROVE  Grows /\ Len(journal) \in Nat
  <1> DEFINE e == Decision(call[c].key, call[c].verdict, call[c].dry, 0)
  <1>1. e \in Event /\ e.type # "outcome" /\ e.key = call[c].key
    BY Constructors DEF TypeOK, Call, Decision, Decisions, Verdicts
  <1>2. Justified(e)
    BY <1>1 DEF Justified
  <1>3. journal' = Append(journal, e)
    BY DEF Decide, Log
  <1> QED
    BY <1>1, <1>2, <1>3 DEF Grows, TypeOK

\* A decision that lets its target run keeps the invariant.
LEMMA DecideStep ==
  ASSUME IInv, TInv', NEW c \in Callers, Decide(c), ~Executing(c), runs' = runs,
         FileBacked /\ call[c].key # NoKey => Blocking(journal, call[c].key) = {}
  PROVE  IInv'
  <1> DEFINE e == Decision(call[c].key, call[c].verdict, call[c].dry, 0)
             n == Len(journal) + 1
  <1>1. Grows /\ Len(journal) \in Nat
    BY DecideJustified DEF IInv, TInv
  <1>2. CASE Return(c)
    <2>1. Undisturbed
      BY <1>2 DEF Undisturbed, Executing, Return, Goto, IInv, TInv, TypeOK
    <2> QED
      BY <1>1, <2>1, QuietStep
  <1>3. CASE ~Return(c)
    <2>1. /\ call[c].verdict = "allowed" /\ ~call[c].dry
          /\ Goto(c, "run") /\ call' = [call EXCEPT ![c].id = n]
          /\ journal' = Append(journal, e)
      BY <1>3 DEF Decide, Log
    <2>2. call \in [Callers -> Call] /\ pc \in [Callers -> PCs] /\ journal \in Seq(Event)
      BY DEF IInv, TInv, TypeOK
    <2>3. pc'[c] = "run" /\ call'[c].id = n
      BY <1>1, <2>1, <2>2 DEF Goto, Call
    <2>4. \A b \in Callers : b # c => pc'[b] = pc[b] /\ call'[b] = call[b]
      BY <2>1, <2>2 DEF Goto
    <2>5. e \in Event /\ e.type = "decision" /\ e.value = "allowed" /\ e.dry = FALSE
      <3>1. call[c] \in Call
        BY <2>2
      <3> QED
        BY <2>1, <3>1, Constructors DEF Call, Decision, Decisions, Verdicts
    <2>6. IsReservation(journal', n)
      BY <1>1, <2>1, <2>2, <2>5, AppendProperties DEF IsReservation
    <2>7. \A d : OutcomesOf(journal', d) = OutcomesOf(journal, d)
      BY <2>1, <2>2, <2>5, AppendOutcomes
    <2>8. \A r \in runs : r.id \in 1..Len(journal)
      BY DEF IInv, EvidenceIsTrue, IsReservation
    <2>9. OutcomesOf(journal, n) = {}
      <3>1. ASSUME NEW i \in OutcomesOf(journal, n) PROVE FALSE
        <4>1. [id |-> journal[i].ref, result |-> journal[i].value] \in runs /\ journal[i].ref = n
          BY <3>1 DEF OutcomesOf, IInv, EvidenceIsTrue
        <4>2. [id |-> journal[i].ref, result |-> journal[i].value].id = n
          BY <4>1
        <4> QED
          BY <1>1, <2>8, <4>1, <4>2
      <3> QED
        BY <3>1
    <2>10. \A b \in Callers : b # c /\ Executing(b)' =>
             /\ call'[b].id = call[b].id /\ call[b].id \in 1..Len(journal)
             /\ IsReservation(journal, call[b].id) /\ OutcomesOf(journal, call[b].id) = {}
      BY <2>4 DEF IInv, ExecutingIsReserved, Executing, IsReservation
    <2>11. ExecutingIsReserved'
      <3>1. ASSUME NEW b \in Callers, b # c, Executing(b)'
            PROVE  IsReservation(journal', call'[b].id)
        BY <2>1, <2>2, <2>5, <2>10, <3>1, AppendPreserves
      <3> QED
        BY <2>3, <2>6, <2>7, <2>9, <2>10, <3>1 DEF ExecutingIsReserved
    <2>12. ExecutingIsExclusive'
      <3>1. \A b \in Callers : b # c /\ Executing(b)' => call'[b].id # n
        BY <1>1, <2>10
      <3>2. \A a, b \in Callers : a # c /\ b # c /\ a # b /\ Executing(a)' /\ Executing(b)'
              => call'[a].id # call'[b].id
        BY <2>4 DEF IInv, ExecutingIsExclusive, Executing
      <3> QED
        BY <2>3, <3>1, <3>2 DEF ExecutingIsExclusive
    <2>13. RunsAreTracked'
      <3>1. \A r \in runs : r.id # n
        BY <1>1, <2>8
      <3> QED
        BY <2>3, <2>4, <3>1 DEF IInv, RunsAreTracked
    <2>14. EvidenceIsTrue'
      BY <1>1, EvidenceGrows DEF IInv, TInv
    <2>15. FileBacked => OneReservation(journal')
      BY <1>1, <2>2, AppendKeepsOneReservation DEF Grows, IInv
    <2> QED
      BY <2>11, <2>12, <2>13, <2>14, <2>15 DEF IInv
  <1> QED
    BY <1>2, <1>3

-----------------------------------------------------------------------------
LEMMA StepIInv == IInv /\ [Next]_vars => IInv'
  <1> SUFFICES ASSUME IInv, [Next]_vars PROVE IInv'
    OBVIOUS
  <1>t. TInv /\ TypeOK /\ TInv'
    BY TypeStep DEF IInv, TInv
  <1>u. /\ pc \in [Callers -> PCs] /\ call \in [Callers -> Call]
        /\ \A c \in Callers : call[c] \in Call
    BY <1>t DEF TypeOK
  <1>d. \A k : First(Blocking(journal, k)) \in Nat
    <2>1. \A k : Blocking(journal, k) \subseteq Nat
      BY <1>t DEF TypeOK, Blocking, ReservationsOf
    <2> QED
      BY <2>1, FirstIsMember
  <1>dup. ASSUME NEW c \in Callers, NEW prior \in Nat,
                 Log(Decision(call[c].key, "duplicate", FALSE, prior))
          PROVE  Grows
    <2> DEFINE e == Decision(call[c].key, "duplicate", FALSE, prior)
    <2>1. e \in Event
      BY <1>u, Constructors DEF Decisions, Call
    <2>2. e.type = "decision" /\ e.value = "duplicate"
      BY DEF Decision
    <2> QED
      BY <1>dup, <2>1, <2>2 DEF Log, Grows, Justified
  <1>ret. ASSUME NEW c \in Callers, Return(c) PROVE Undisturbed /\ pc'[c] = "idle"
    BY <1>u, <1>ret DEF Undisturbed, Executing, Return, Goto
  <1>1. ASSUME NEW c \in Callers, NEW kd \in Calls[c], Begin(c, kd[1], kd[2]) PROVE IInv'
    <2>1. Undisturbed
      BY <1>u, <1>1 DEF Undisturbed, Executing, Begin, Goto
    <2> QED
      BY <1>t, <1>1, <2>1, QuietStep DEF Begin
  <1>2. ASSUME NEW c \in Callers, LookUpCompleted(c) PROVE IInv'
    <2>1. Undisturbed
      BY <1>u, <1>2 DEF Undisturbed, Executing, LookUpCompleted, Goto
    <2> QED
      BY <1>t, <1>2, <2>1, QuietStep DEF LookUpCompleted
  <1>3. ASSUME NEW c \in Callers, LookUpBlocking(c) PROVE IInv'
    <2>1. Undisturbed
      BY <1>u, <1>3 DEF Undisturbed, Executing, LookUpBlocking, Goto
    <2> QED
      BY <1>t, <1>3, <2>1, QuietStep DEF LookUpBlocking
  <1>4. ASSUME NEW c \in Callers, DenyKnownDuplicate(c) PROVE IInv'
    BY <1>t, <1>u, <1>4, <1>dup, <1>ret, QuietStep DEF DenyKnownDuplicate, Call
  <1>5. ASSUME NEW c \in Callers, PassPrecheck(c) PROVE IInv'
    <2>1. Undisturbed
      BY <1>u, <1>5 DEF Undisturbed, Executing, PassPrecheck, Goto
    <2> QED
      BY <1>t, <1>5, <2>1, QuietStep DEF PassPrecheck
  <1>6. ASSUME NEW c \in Callers, Approve(c) PROVE IInv'
    <2>1. Undisturbed
      <3>1. CASE Return(c)
        BY <1>ret, <3>1
      <3>2. CASE Goto(c, "reserve") /\ \E v \in Verdicts : call' = [call EXCEPT ![c].verdict = v]
        BY <1>u, <1>6, <3>2 DEF Undisturbed, Executing, Goto, Call
      <3> QED
        BY <1>6, <3>1, <3>2 DEF Approve
    <2> QED
      BY <1>t, <1>6, <2>1, QuietStep DEF Approve
  <1>7. ASSUME NEW c \in Callers, Reserve(c) PROVE IInv'
    <2>1. CASE Decide(c) /\ Blocking(journal, call[c].key) = {}
      BY <1>t, <1>7, <2>1, DecideStep DEF Reserve, Executing
    <2>2. CASE Return(c) /\ Log(Decision(call[c].key, "duplicate", FALSE,
                                        First(Blocking(journal, call[c].key))))
      BY <1>t, <1>d, <1>7, <1>dup, <1>ret, <2>2, QuietStep DEF Reserve
    <2> QED
      BY <1>7, <2>1, <2>2 DEF Reserve
  <1>8. ASSUME NEW c \in Callers, Recheck(c) PROVE IInv'
    <2>1. CASE Return(c) /\ Log(Decision(call[c].key, "duplicate", FALSE, 0))
      BY <1>t, <1>8, <1>dup, <1>ret, <2>1, QuietStep DEF Recheck
    <2>2. CASE Goto(c, "append") /\ UNCHANGED <<journal, call>>
      <3>1. Undisturbed
        BY <1>u, <1>8, <2>2 DEF Undisturbed, Executing, Goto
      <3> QED
        BY <1>t, <1>8, <2>2, <3>1, QuietStep DEF Recheck
    <2> QED
      BY <1>8, <2>1, <2>2 DEF Recheck
  <1>9. ASSUME NEW c \in Callers, AppendDecision(c) PROVE IInv'
    <2>1. FileBacked /\ call[c].key # NoKey => Blocking(journal, call[c].key) = {}
      BY <1>9 DEF AppendDecision, IInv, TInv, KeyedOK, Atomic
    <2> QED
      BY <1>t, <1>9, <2>1, DecideStep DEF AppendDecision, Executing
  <1>10. ASSUME NEW c \in Callers, AppendFails(c) PROVE IInv'
    BY <1>t, <1>10, <1>ret, QuietStep DEF AppendFails
  <1>11. ASSUME NEW c \in Callers, DecisionRaises(c) PROVE IInv'
    <2> DEFINE e == Decision(call[c].key, call[c].verdict, call[c].dry, 0)
    <2>1. FileBacked /\ call[c].key # NoKey => Blocking(journal, call[c].key) = {}
      BY <1>11 DEF DecisionRaises, IInv, TInv, KeyedOK, Atomic
    <2>2. e \in Event /\ e.type # "outcome" /\ e.key = call[c].key
      BY <1>u, Constructors DEF Call, Decision, Decisions, Verdicts
    <2>3. Grows
      BY <1>11, <2>1, <2>2 DEF Grows, DecisionRaises, Log, Justified
    <2> QED
      BY <1>t, <1>11, <1>ret, <2>3, QuietStep DEF DecisionRaises
  <1>16. ASSUME NEW c \in Callers, Mark(c) PROVE IInv'
    BY <1>t, <1>16, <1>ret, QuietStep DEF Mark
  <1>18. ASSUME NEW d \in 1..Len(journal), NEW r \in Resolutions, Resolve(d, r) PROVE IInv'
    <2>1. Resolution(d, r) \in Event /\ Resolution(d, r).type = "resolution"
      BY <1>t, Constructors DEF TypeOK, Resolution
    <2>2. Grows
      BY <1>18, <2>1 DEF Resolve, Log, Grows, Justified
    <2>3. Undisturbed
      BY <1>18 DEF Undisturbed, Executing, Resolve
    <2> QED
      BY <1>t, <1>18, <2>2, <2>3, QuietStep DEF Resolve
  <1>12. ASSUME NEW c \in Callers, Run(c) PROVE IInv'
    <2>1. PICK result \in Statuses :
            /\ runs' = runs \cup {[id |-> call[c].id, result |-> result]}
            /\ call' = [call EXCEPT ![c].result = result]
      BY <1>12 DEF Run
    <2>2. pc[c] = "run" /\ pc' = [pc EXCEPT ![c] = "record"] /\ journal' = journal
      BY <1>12 DEF Run, Goto
    <2>3. call'[c].id = call[c].id /\ call'[c].result = result
      BY <1>u, <2>1 DEF Call
    <2>4. \A b \in Callers : call'[b].id = call[b].id /\ (b # c => call'[b] = call[b])
      BY <1>u, <2>1, <2>3
    <2>5. EvidenceIsTrue'
      <3> DEFINE R == [b \in {c} |-> result]
      <3>1. runs' = runs \cup {[id |-> call[b].id, result |-> R[b]] : b \in {c}}
        BY <2>1
      <3>2. R \in [{c} -> Statuses \cup {"interrupted"}] /\ {c} \in SUBSET Callers
        OBVIOUS
      <3> HIDE DEF R
      <3> QED
        BY <2>2, <3>1, <3>2, EvidenceRan DEF IInv
    <2>6. ExecutingIsReserved' /\ ExecutingIsExclusive'
      <3>1. ExecutingIsReserved'
        BY <1>u, <2>2, <2>4 DEF IInv, ExecutingIsReserved, Executing
      <3>2. ExecutingIsExclusive'
        BY <1>u, <2>2, <2>4 DEF IInv, ExecutingIsExclusive, Executing
      <3> QED
        BY <3>1, <3>2
    <2>7. RunsAreTracked'
      <3>1. \A b \in Callers : b # c /\ pc[b] = "run" => call[b].id # call[c].id
        BY <2>2 DEF IInv, ExecutingIsExclusive, Executing
      <3>2. ASSUME NEW b \in Callers, b # c
            PROVE  /\ pc'[b] = "run" => \A r \in runs' : r.id # call'[b].id
                   /\ pc'[b] = "record" =>
                        [id |-> call'[b].id, result |-> call'[b].result] \in runs'
        BY <1>u, <2>1, <2>2, <2>4, <3>1, <3>2 DEF IInv, RunsAreTracked
      <3>3. pc'[c] = "record" /\ [id |-> call'[c].id, result |-> call'[c].result] \in runs'
        BY <1>u, <2>1, <2>2, <2>3
      <3> QED
        BY <3>2, <3>3 DEF RunsAreTracked
    <2> QED
      BY <1>t, <2>2, <2>5, <2>6, <2>7 DEF IInv
  <1>13. ASSUME NEW c \in Callers, Interrupt(c) PROVE IInv'
    <2>1. /\ pc[c] = "run" /\ Return(c) /\ journal' = journal
          /\ runs' = runs \cup {[id |-> call[c].id, result |-> "interrupted"]}
      BY <1>13 DEF Interrupt
    <2>2. Undisturbed /\ pc'[c] = "idle"
      BY <1>ret, <2>1
    <2>3. EvidenceIsTrue'
      <3> DEFINE R == [b \in {c} |-> "interrupted"]
      <3>1. runs' = runs \cup {[id |-> call[b].id, result |-> R[b]] : b \in {c}}
        BY <2>1
      <3>2. R \in [{c} -> Statuses \cup {"interrupted"}] /\ {c} \in SUBSET Callers
        OBVIOUS
      <3> HIDE DEF R
      <3> QED
        BY <2>1, <3>1, <3>2, EvidenceRan DEF IInv
    <2>4. \A r \in runs' \ runs : \A b \in Callers : pc'[b] = "run" => r.id # call[b].id
      BY <2>1, <2>2 DEF IInv, ExecutingIsExclusive, Executing, Undisturbed
    <2>5. (ExecutingIsReserved /\ ExecutingIsExclusive /\ RunsAreTracked)'
      BY <2>1, <2>2, <2>4, ExecutingPreserved DEF IInv
    <2> QED
      BY <1>t, <2>1, <2>3, <2>5 DEF IInv
  <1>14. ASSUME NEW c \in Callers, RecordOutcome(c) PROVE IInv'
    <2>1. Undisturbed /\ pc'[c] \notin {"run", "record"}
      <3>1. CASE Return(c)
        BY <1>ret, <3>1
      <3>2. CASE Goto(c, "mark") /\ UNCHANGED call
        BY <1>u, <3>2 DEF Undisturbed, Executing, Goto
      <3> QED
        BY <1>14, <3>1, <3>2 DEF RecordOutcome
    <2> QED
      BY <1>t, <1>14, <2>1, OutcomeStep DEF RecordOutcome, Log
  <1>15. ASSUME NEW c \in Callers, OutcomeRaises(c) PROVE IInv'
    <2>1. Undisturbed /\ pc'[c] \notin {"run", "record"}
      BY <1>15, <1>ret DEF OutcomeRaises
    <2>2. CASE UNCHANGED journal
      BY <1>t, <1>15, <2>1, <2>2, QuietStep DEF OutcomeRaises
    <2>3. CASE Log(Outcome(call[c].id, call[c].result))
      BY <1>t, <1>15, <2>1, <2>3, OutcomeStep DEF OutcomeRaises, Log
    <2> QED
      BY <1>15, <2>2, <2>3 DEF OutcomeRaises
  <1>17. ASSUME NEW p \in Procs, Crash(p) PROVE IInv'
    <2> DEFINE mine == {c \in Callers : ProcOf[c] = p}
    <2>1. PICK cut \in SUBSET {c \in mine : pc[c] = "run"} :
            runs' = runs \cup {[id |-> call[c].id, result |-> "interrupted"] : c \in cut}
      BY <1>17 DEF Crash
    <2>2. /\ journal' = journal
          /\ pc' = [c \in Callers |-> IF c \in mine THEN "idle" ELSE pc[c]]
          /\ call' = [c \in Callers |-> IF c \in mine THEN NoCall ELSE call[c]]
      BY <1>17 DEF Crash
    <2>3. Undisturbed
      BY <2>2 DEF Undisturbed, Executing
    <2>4. EvidenceIsTrue'
      <3> DEFINE R == [b \in cut |-> "interrupted"]
      <3>1. runs' = runs \cup {[id |-> call[b].id, result |-> R[b]] : b \in cut}
        BY <2>1
      <3>2. R \in [cut -> Statuses \cup {"interrupted"}] /\ cut \in SUBSET Callers
        OBVIOUS
      <3>3. \A b \in cut : pc[b] = "run"
        OBVIOUS
      <3> HIDE DEF R
      <3> QED
        BY <2>2, <3>1, <3>2, <3>3, EvidenceRan DEF IInv
    <2>5. \A r \in runs' \ runs : \A b \in Callers : pc'[b] = "run" => r.id # call[b].id
      <3>1. ASSUME NEW r \in runs' \ runs, NEW b \in Callers, pc'[b] = "run"
            PROVE  r.id # call[b].id
        <4>1. PICK c \in cut : r = [id |-> call[c].id, result |-> "interrupted"]
          BY <2>1, <3>1
        <4>2. b \notin mine /\ pc[b] = "run" /\ c \in mine /\ pc[c] = "run"
          BY <2>2, <3>1
        <4> QED
          BY <4>1, <4>2 DEF IInv, ExecutingIsExclusive, Executing
      <3> QED
        BY <3>1
    <2>6. (ExecutingIsReserved /\ ExecutingIsExclusive /\ RunsAreTracked)'
      BY <2>1, <2>2, <2>3, <2>5, ExecutingPreserved DEF IInv
    <2> QED
      BY <1>t, <2>2, <2>4, <2>6 DEF IInv
  <1>19. CASE UNCHANGED vars
    BY <1>t, <1>19, QuietStep DEF vars, Undisturbed, Executing
  <1> QED
    BY <1>1, <1>2, <1>3, <1>4, <1>5, <1>6, <1>7, <1>8, <1>9, <1>10, <1>11, <1>12,
       <1>13, <1>14, <1>15, <1>16, <1>17, <1>18, <1>19 DEF Next, Step

THEOREM Invariance == Spec => []IInv
  BY InitIInv, StepIInv, PTL DEF Spec

(***************************************************************************)
(* A target only runs under a reservation that is in the journal, once     *)
(* under it, and every recorded outcome is what its run ended with, on     *)
(* both kinds of store.                                                    *)
(***************************************************************************)
THEOREM EvidenceIsAlwaysTrue == Spec => []EvidenceIsTrue
  <1>1. IInv => EvidenceIsTrue
    BY DEF IInv
  <1> QED
    BY <1>1, Invariance, PTL

(***************************************************************************)
(* With append_event_atomic, two runs of one idempotency key are always    *)
(* separated by a recorded failure or by an operator's clearance.          *)
(***************************************************************************)
THEOREM AtMostOneRunPerRelease ==
  ASSUME FileBacked
  PROVE  Spec => []OneRunPerRelease
  <1>1. IInv => OneRunPerRelease
    <2> SUFFICES ASSUME IInv, NEW r \in runs, NEW s \in runs, r.id < s.id,
                        KeyOf(r.id) = KeyOf(s.id), KeyOf(r.id) # NoKey
                 PROVE  Failed(journal, r.id) \/ Released(journal, r.id)
      BY DEF OneRunPerRelease
    <2>1. IsReservation(journal, r.id) /\ IsReservation(journal, s.id)
      BY DEF IInv, EvidenceIsTrue
    <2>2. r.id \in 1..Len(journal) /\ s.id \in 1..Len(journal)
      BY <2>1 DEF IsReservation
    <2> QED
      BY <2>1, <2>2 DEF IInv, OneReservation, KeyOf
  <1> QED
    BY <1>1, Invariance, PTL

-----------------------------------------------------------------------------
(***************************************************************************)
(* The in-process memory of completed keys, for any number of remembered   *)
(* completions.                                                            *)
(***************************************************************************)
\* A call executes under a reservation of its own key.
ExecutingOwnsKey ==
  \A c \in Callers : Executing(c) => journal[call[c].id].key = call[c].key

\* A call about to mark its key has recorded a success.
MarkingIsRecorded ==
  \A c \in Callers : pc[c] = "mark" => Completed(journal, call[c].key) # {}

CInv == IInv /\ ExecutingOwnsKey /\ MarkingIsRecorded /\ CompletedIsRecorded

-----------------------------------------------------------------------------
LEMMA CompletedGrows ==
  ASSUME NEW j \in Seq(Event), NEW e \in Event, NEW k
  PROVE  Completed(j, k) \subseteq Completed(Append(j, e), k)
  <1>1. /\ Len(Append(j, e)) = Len(j) + 1 /\ Len(j) \in Nat
        /\ \A i \in 1..Len(j) : Append(j, e)[i] = j[i]
    BY AppendProperties
  <1> QED
    BY <1>1 DEF Completed, Succeeded, OutcomesOf

\* Recording the success of decision d completes d's key.
LEMMA SuccessCompletes ==
  ASSUME NEW j \in Seq(Event), NEW d, IsReservation(j, d)
  PROVE  d \in Completed(Append(j, Outcome(d, "succeeded")), j[d].key)
  <1> DEFINE e  == Outcome(d, "succeeded")
             j2 == Append(j, e)
  <1>1. d \in 1..Len(j) /\ d \in Nat
    BY DEF IsReservation
  <1>2. e \in Event
    BY <1>1, Constructors DEF Statuses
  <1>3. /\ Len(j2) = Len(j) + 1 /\ Len(j) \in Nat
        /\ \A i \in 1..Len(j) : j2[i] = j[i]
        /\ j2[Len(j) + 1] = e
    BY <1>2, AppendProperties
  <1>4. e.type = "outcome" /\ e.ref = d /\ e.value = "succeeded"
    BY DEF Outcome
  <1>5. Len(j) + 1 \in OutcomesOf(j2, d) /\ j2[Len(j) + 1].value = "succeeded"
    BY <1>3, <1>4 DEF OutcomesOf
  <1>6. Succeeded(j2, d)
    BY <1>5 DEF Succeeded
  <1> QED
    BY <1>1, <1>3, <1>6 DEF Completed, IsReservation

\* The journal only grows, one event at a time.
LEMMA JournalGrows ==
  TInv /\ [Next]_vars => \/ journal' = journal
                         \/ \E e \in Event : journal' = Append(journal, e)
  <1> SUFFICES ASSUME TInv, [Next]_vars
               PROVE  journal' = journal \/ \E e \in Event : journal' = Append(journal, e)
    OBVIOUS
  <1>u. /\ \A c \in Callers : call[c] \in Call
        /\ journal \in Seq(Event)
    BY DEF TInv, TypeOK
  <1>d. \A k : First(Blocking(journal, k)) \in Nat
    <2>1. \A k : Blocking(journal, k) \subseteq Nat
      BY <1>u DEF Blocking, ReservationsOf
    <2> QED
      BY <2>1, FirstIsMember
  <1>e. ASSUME NEW c \in Callers
        PROVE  /\ \A v \in Decisions, dry \in BOOLEAN, prior \in Nat :
                    Decision(call[c].key, v, dry, prior) \in Event
               /\ Outcome(call[c].id, call[c].result) \in Event
               /\ call[c].verdict \in Decisions /\ call[c].dry \in BOOLEAN
               /\ call[c].prior \in Nat
    BY <1>u, Constructors DEF Call, Decisions
  <1>f. "duplicate" \in Decisions /\ FALSE \in BOOLEAN /\ 0 \in Nat
    BY DEF Decisions
  <1>1. ASSUME NEW c \in Callers, Step(c)
        PROVE  journal' = journal \/ \E e \in Event : journal' = Append(journal, e)
    <2>1. CASE \E kd \in Calls[c] : Begin(c, kd[1], kd[2])
      BY <2>1 DEF Begin
    <2>2. CASE LookUpCompleted(c) \/ LookUpBlocking(c) \/ PassPrecheck(c) \/ Approve(c)
               \/ AppendFails(c) \/ Run(c) \/ Interrupt(c) \/ Mark(c)
      BY <2>2 DEF LookUpCompleted, LookUpBlocking, PassPrecheck, Approve, AppendFails,
                  Run, Interrupt, Mark
    <2>3. CASE DenyKnownDuplicate(c)
      BY <1>e, <1>f, <2>3 DEF DenyKnownDuplicate, Log
    <2>4. CASE Reserve(c)
      BY <1>d, <1>e, <1>f, <2>4 DEF Reserve, Decide, Log
    <2>5. CASE Recheck(c)
      BY <1>e, <1>f, <2>5 DEF Recheck, Log
    <2>6. CASE AppendDecision(c) \/ DecisionRaises(c)
      BY <1>e, <1>f, <2>6 DEF AppendDecision, DecisionRaises, Decide, Log
    <2>7. CASE RecordOutcome(c) \/ OutcomeRaises(c)
      BY <1>e, <2>7 DEF RecordOutcome, OutcomeRaises, Log
    <2> QED
      BY <1>1, <2>1, <2>2, <2>3, <2>4, <2>5, <2>6, <2>7 DEF Step
  <1>2. ASSUME NEW d \in 1..Len(journal), NEW r \in Resolutions, Resolve(d, r)
        PROVE  \E e \in Event : journal' = Append(journal, e)
    BY <1>u, <1>2, Constructors DEF Resolve, Log
  <1> QED
    BY <1>1, <1>2 DEF Next, Crash, vars

\* What was completed stays so.
LEMMA CompletedStays ==
  ASSUME TInv, [Next]_vars, NEW k, Completed(journal, k) # {}
  PROVE  Completed(journal', k) # {}
  <1>1. CASE journal' = journal
    BY <1>1
  <1>2. CASE \E e \in Event : journal' = Append(journal, e)
    BY <1>2, CompletedGrows DEF TInv, TypeOK
  <1> QED
    BY <1>1, <1>2, JournalGrows

\* Nobody but c starts to execute or to mark, and the others keep their call.
OnlyMoves(c) ==
  \A b \in Callers : b # c => pc'[b] = pc[b] /\ call'[b] = call[b]

LEMMA OthersKeepOwning ==
  ASSUME IInv, ExecutingOwnsKey, [Next]_vars, NEW b \in Callers, Executing(b),
         call'[b].id = call[b].id, call'[b].key = call[b].key
  PROVE  journal'[call'[b].id].key = call'[b].key
  <1>1. call[b].id \in 1..Len(journal) /\ journal[call[b].id].key = call[b].key
    BY DEF IInv, ExecutingIsReserved, IsReservation, ExecutingOwnsKey
  <1>2. journal' = journal \/ \E e \in Event : journal' = Append(journal, e)
    BY JournalGrows DEF IInv
  <1> QED
    BY <1>1, <1>2, AppendProperties DEF IInv, TInv, TypeOK

(***************************************************************************)
(* A step in which every caller that executes or marks afterwards was      *)
(* doing so before, and no key is added to the memory.                     *)
(***************************************************************************)
LEMMA CalmStep ==
  ASSUME CInv, [Next]_vars,
         \A b \in Callers : /\ Executing(b)' => Executing(b) /\ call'[b].id = call[b].id
                            /\ pc'[b] = "mark" => pc[b] = "mark"
                            /\ pc'[b] \in {"run", "record", "mark"} => call'[b].key = call[b].key,
         \A p \in Procs : completed'[p] = completed[p] \/ completed'[p] = <<>>
  PROVE  CInv'
  <1>1. IInv'
    BY StepIInv DEF CInv
  <1>2. ExecutingOwnsKey'
    BY OthersKeepOwning DEF CInv, ExecutingOwnsKey, Executing
  <1>3. MarkingIsRecorded'
    BY CompletedStays DEF CInv, IInv, MarkingIsRecorded
  <1>4. CompletedIsRecorded'
    BY CompletedStays DEF CInv, IInv, CompletedIsRecorded
  <1> QED
    BY <1>1, <1>2, <1>3, <1>4 DEF CInv

\* MarkCompleted keeps what the memory held, or forgets it, and adds k.
LEMMA MarkAdds ==
  ASSUME TypeOK, NEW p \in Procs, NEW k \in Keys, MarkCompleted(p, k),
         NEW q \in Procs, NEW i \in 1..Len(completed'[q])
  PROVE  completed'[q][i] = k \/ \E n \in 1..Len(completed[q]) : completed'[q][i] = completed[q][n]
  <1> DEFINE marked == Append(completed[p], k)
  <1>1. completed[p] \in Seq(Keys) /\ completed[q] \in Seq(Keys)
    BY DEF TypeOK
  <1>2. CASE completed'[q] = completed[q]
    BY <1>2
  <1>3. CASE q = p /\ completed'[q] = marked
    BY <1>1, <1>3
  <1>4. CASE q = p /\ completed'[q] = Tail(marked)
    <2>1. Len(marked) = Len(completed[p]) + 1 /\ Len(completed[p]) \in Nat /\ marked \in Seq(Keys)
      BY <1>1
    <2>2. Len(Tail(marked)) = Len(completed[p])
      BY <2>1
    <2>3. i \in 1..Len(completed[p]) /\ Tail(marked)[i] = marked[i + 1]
      BY <1>4, <2>1, <2>2
    <2>4. i + 1 = Len(completed[p]) + 1 \/ i + 1 \in 1..Len(completed[p])
      BY <2>1, <2>3
    <2> QED
      BY <1>1, <1>4, <2>1, <2>3, <2>4
  <1> QED
    BY <1>2, <1>3, <1>4 DEF MarkCompleted, TypeOK

\* Marking a key that is recorded as completed.
LEMMA MarkRecorded ==
  ASSUME CInv, [Next]_vars, NEW p \in Procs, NEW k \in Keys, MarkCompleted(p, k),
         Completed(journal, k) # {}
  PROVE  CompletedIsRecorded'
  <1>1. ASSUME NEW q \in Procs, NEW i \in 1..Len(completed'[q])
        PROVE  Completed(journal', completed'[q][i]) # {}
    <2>1. PICK m : m = completed'[q][i]
      OBVIOUS
    <2>2. m = k \/ \E h \in 1..Len(completed[q]) : m = completed[q][h]
      BY <1>1, <2>1, MarkAdds DEF CInv, IInv, TInv
    <2>3. Completed(journal, m) # {}
      BY <2>2 DEF CInv, CompletedIsRecorded
    <2>4. Completed(journal', m) # {}
      BY <2>3, CompletedStays DEF CInv, IInv, TInv
    <2> QED
      BY <2>1, <2>4
  <1> QED
    BY <1>1 DEF CompletedIsRecorded

-----------------------------------------------------------------------------
LEMMA InitCInv == Init => CInv
  BY InitIInv DEF CInv, Init, ExecutingOwnsKey, Executing, MarkingIsRecorded, CompletedIsRecorded

LEMMA StepCInv == CInv /\ [Next]_vars => CInv'
  <1> SUFFICES ASSUME CInv, [Next]_vars PROVE CInv'
    OBVIOUS
  <1>t. IInv /\ TInv /\ TypeOK
    BY DEF CInv, IInv, TInv
  <1>u. /\ pc \in [Callers -> PCs] /\ call \in [Callers -> Call]
        /\ \A c \in Callers : call[c] \in Call
    BY <1>t DEF TypeOK
  <1>v. IInv'
    BY <1>t, StepIInv
  \* Steps that end c's call, or take it to a label before the reservation.
  <1>1. ASSUME NEW c \in Callers, OnlyMoves(c), completed' = completed,
               pc'[c] \notin {"run", "record", "mark"}
        PROVE  CInv'
    <2>1. \A b \in Callers : pc'[b] \in {"run", "record", "mark"} => pc'[b] = pc[b] /\ call'[b] = call[b]
      BY <1>1 DEF OnlyMoves
    <2> QED
      BY <1>1, <2>1, CalmStep DEF Executing
  <1>ret. ASSUME NEW c \in Callers, Return(c) PROVE OnlyMoves(c) /\ pc'[c] = "idle"
    BY <1>u, <1>ret DEF OnlyMoves, Return, Goto
  <1>2. ASSUME NEW c \in Callers, Decide(c), completed' = completed PROVE CInv'
    <2>1. CASE Return(c)
      BY <1>1, <1>2, <1>ret, <2>1
    <2>2. CASE Goto(c, "run") /\ call' = [call EXCEPT ![c].id = Len(journal) + 1]
      <3> DEFINE e == Decision(call[c].key, call[c].verdict, call[c].dry, 0)
      <3>1. journal' = Append(journal, e) /\ e \in Event /\ e.key = call[c].key
        BY <1>2, <1>u, Constructors DEF Decide, Log, Call, Decision, Decisions
      <3>2. pc'[c] = "run" /\ call'[c].id = Len(journal) + 1 /\ call'[c].key = call[c].key
        BY <1>u, <2>2 DEF Goto, Call
      <3>3. \A b \in Callers : b # c => pc'[b] = pc[b] /\ call'[b] = call[b]
        BY <1>u, <2>2 DEF Goto
      <3>4. journal'[call'[c].id].key = call'[c].key
        BY <1>t, <3>1, <3>2, AppendProperties DEF TypeOK
      <3>5. ExecutingOwnsKey'
        BY <3>3, <3>4, OthersKeepOwning DEF CInv, ExecutingOwnsKey, Executing
      <3>6. MarkingIsRecorded'
        BY <1>t, <3>2, <3>3, CompletedStays DEF CInv, MarkingIsRecorded
      <3>7. CompletedIsRecorded'
        BY <1>t, <1>2, CompletedStays DEF CInv, CompletedIsRecorded
      <3> QED
        BY <1>v, <3>5, <3>6, <3>7 DEF CInv
    <2> QED
      BY <1>2, <2>1, <2>2 DEF Decide
  <1>3. ASSUME NEW c \in Callers, NEW kd \in Calls[c], Begin(c, kd[1], kd[2]) PROVE CInv'
    <2>1. OnlyMoves(c) /\ pc'[c] \notin {"run", "record", "mark"}
      BY <1>u, <1>3 DEF Begin, Goto, OnlyMoves
    <2> QED
      BY <1>1, <1>3, <2>1 DEF Begin
  <1>4. ASSUME NEW c \in Callers, LookUpCompleted(c) PROVE CInv'
    <2>1. OnlyMoves(c) /\ pc'[c] \notin {"run", "record", "mark"}
      BY <1>u, <1>4 DEF LookUpCompleted, Goto, OnlyMoves
    <2>2. CASE completed' = completed
      BY <1>1, <2>1, <2>2
    <2>3. CASE Completed(journal, call[c].key) # {} /\ MarkCompleted(ProcOf[c], call[c].key)
      <3>1. call[c].key \in Keys /\ ProcOf[c] \in Procs
        BY <1>t, <1>4, GuardAssumption DEF LookUpCompleted, TInv, KeyedOK, GuardAssumption
      <3>2. CompletedIsRecorded'
        BY <2>3, <3>1, MarkRecorded
      <3>3. ExecutingOwnsKey'
        BY <1>t, <2>1, OthersKeepOwning DEF CInv, ExecutingOwnsKey, Executing, OnlyMoves
      <3>4. MarkingIsRecorded'
        BY <1>t, <2>1, CompletedStays DEF CInv, MarkingIsRecorded, OnlyMoves
      <3> QED
        BY <1>v, <3>2, <3>3, <3>4 DEF CInv
    <2> QED
      BY <1>4, <2>2, <2>3 DEF LookUpCompleted
  <1>5. ASSUME NEW c \in Callers, LookUpBlocking(c) \/ PassPrecheck(c) PROVE CInv'
    <2>1. OnlyMoves(c) /\ pc'[c] \notin {"run", "record", "mark"}
      BY <1>u, <1>5 DEF LookUpBlocking, PassPrecheck, Goto, OnlyMoves
    <2> QED
      BY <1>1, <1>5, <2>1 DEF LookUpBlocking, PassPrecheck
  <1>6. ASSUME NEW c \in Callers, Approve(c) PROVE CInv'
    <2>1. CASE Return(c)
      BY <1>1, <1>6, <1>ret, <2>1 DEF Approve
    <2>2. CASE Goto(c, "reserve") /\ \E v \in Verdicts : call' = [call EXCEPT ![c].verdict = v]
      <3>1. OnlyMoves(c) /\ pc'[c] \notin {"run", "record", "mark"}
        BY <1>u, <2>2 DEF Goto, OnlyMoves
      <3> QED
        BY <1>1, <1>6, <3>1 DEF Approve
    <2> QED
      BY <1>6, <2>1, <2>2 DEF Approve
  <1>7. ASSUME NEW c \in Callers, Reserve(c) \/ AppendDecision(c) PROVE CInv'
    BY <1>1, <1>2, <1>7, <1>ret DEF Reserve, AppendDecision
  <1>8. ASSUME NEW c \in Callers, Recheck(c) PROVE CInv'
    <2>1. CASE Return(c)
      BY <1>1, <1>8, <1>ret, <2>1 DEF Recheck
    <2>2. CASE Goto(c, "append") /\ UNCHANGED <<journal, call>>
      <3>1. OnlyMoves(c) /\ pc'[c] \notin {"run", "record", "mark"}
        BY <1>u, <2>2 DEF Goto, OnlyMoves
      <3> QED
        BY <1>1, <1>8, <3>1 DEF Recheck
    <2> QED
      BY <1>8, <2>1, <2>2 DEF Recheck
  <1>9. ASSUME NEW c \in Callers, DenyKnownDuplicate(c) \/ AppendFails(c) \/ DecisionRaises(c)
                                   \/ Interrupt(c) \/ OutcomeRaises(c)
        PROVE  CInv'
    BY <1>1, <1>9, <1>ret
    DEF DenyKnownDuplicate, AppendFails, DecisionRaises, Interrupt, OutcomeRaises
  <1>10. ASSUME NEW c \in Callers, Run(c) PROVE CInv'
    <2>1. PICK result \in Statuses : call' = [call EXCEPT ![c].result = result]
      BY <1>10 DEF Run
    <2>2. \A b \in Callers : call'[b].id = call[b].id /\ call'[b].key = call[b].key
      BY <1>u, <2>1 DEF Call
    <2>3. \A b \in Callers : /\ Executing(b)' => Executing(b)
                             /\ pc'[b] = "mark" => pc[b] = "mark"
      BY <1>u, <1>10 DEF Run, Goto, Executing
    <2> QED
      BY <1>10, <2>2, <2>3, CalmStep DEF Run
  <1>11. ASSUME NEW c \in Callers, RecordOutcome(c) PROVE CInv'
    <2>1. CASE Return(c)
      BY <1>1, <1>11, <1>ret, <2>1 DEF RecordOutcome
    <2>2. CASE call[c].result = "succeeded" /\ Goto(c, "mark") /\ UNCHANGED call
      <3>1. pc'[c] = "mark" /\ \A b \in Callers : b # c => pc'[b] = pc[b]
        BY <1>u, <2>2 DEF Goto
      <3>2. Completed(journal', call'[c].key) # {}
        <4>1. IsReservation(journal, call[c].id) /\ journal[call[c].id].key = call[c].key
          BY <1>t, <1>11 DEF RecordOutcome, IInv, ExecutingIsReserved, CInv, ExecutingOwnsKey, Executing
        <4>2. journal' = Append(journal, Outcome(call[c].id, "succeeded"))
          BY <1>11, <2>2 DEF RecordOutcome, Log
        <4> QED
          BY <1>t, <2>2, <4>1, <4>2, SuccessCompletes DEF TypeOK
      <3>3. ExecutingOwnsKey'
        BY <1>t, <2>2, <3>1, OthersKeepOwning DEF CInv, ExecutingOwnsKey, Executing
      <3>4. MarkingIsRecorded'
        BY <1>t, <2>2, <3>1, <3>2, CompletedStays DEF CInv, MarkingIsRecorded
      <3>5. CompletedIsRecorded'
        BY <1>t, <1>11, CompletedStays DEF CInv, CompletedIsRecorded, RecordOutcome
      <3> QED
        BY <1>v, <3>3, <3>4, <3>5 DEF CInv
    <2> QED
      BY <1>11, <2>1, <2>2 DEF RecordOutcome
  <1>12. ASSUME NEW c \in Callers, Mark(c) PROVE CInv'
    <2>1. OnlyMoves(c) /\ pc'[c] = "idle"
      BY <1>12, <1>ret DEF Mark
    <2>2. call[c].key \in Keys /\ ProcOf[c] \in Procs
      BY <1>t, <1>12, GuardAssumption DEF Mark, TInv, KeyedOK, GuardAssumption
    <2>3. Completed(journal, call[c].key) # {}
      BY <1>12 DEF Mark, CInv, MarkingIsRecorded
    <2>4. CompletedIsRecorded'
      BY <1>12, <2>2, <2>3, MarkRecorded DEF Mark
    <2>5. ExecutingOwnsKey'
      BY <1>t, <2>1, OthersKeepOwning DEF CInv, ExecutingOwnsKey, Executing, OnlyMoves
    <2>6. MarkingIsRecorded'
      BY <1>t, <2>1, CompletedStays DEF CInv, MarkingIsRecorded, OnlyMoves
    <2> QED
      BY <1>v, <2>4, <2>5, <2>6 DEF CInv
  <1>13. ASSUME NEW p \in Procs, Crash(p) PROVE CInv'
    <2>1. \A b \in Callers : pc'[b] = "idle" \/ (pc'[b] = pc[b] /\ call'[b] = call[b])
      BY <1>13 DEF Crash
    <2>2. \A q \in Procs : completed'[q] = completed[q] \/ completed'[q] = <<>>
      BY <1>t, <1>13 DEF Crash, TypeOK
    <2> QED
      BY <2>1, <2>2, CalmStep DEF Executing
  <1>14. ASSUME NEW d \in 1..Len(journal), NEW r \in Resolutions, Resolve(d, r) PROVE CInv'
    BY <1>14, CalmStep DEF Resolve, Executing
  <1>15. CASE UNCHANGED vars
    BY <1>15, CalmStep DEF vars, Executing
  <1> QED
    BY <1>3, <1>4, <1>5, <1>6, <1>7, <1>8, <1>9, <1>10, <1>11, <1>12, <1>13, <1>14, <1>15
    DEF Next, Step

(***************************************************************************)
(* Whatever races, evictions and restarts happen, a key that a process     *)
(* remembers as completed has a succeeded decision in the journal, so      *)
(* forgetting it costs a scan and never an answer.                         *)
(***************************************************************************)
THEOREM MemoryNeverRunsAhead == Spec => []CompletedIsRecorded
  <1>1. CInv => CompletedIsRecorded
    BY DEF CInv
  <1> QED
    BY <1>1, InitCInv, StepCInv, PTL DEF Spec

-----------------------------------------------------------------------------
(***************************************************************************)
(* What the journal tells about keys: every duplicate that was denied had  *)
(* its reason on record, on a file-backed store the journal is a ledger of *)
(* reservations, and the audit of it reads true.                           *)
(***************************************************************************)

\* The prior a call found is a reservation of its key.
PriorsAreReserved ==
  \A c \in Callers : call[c].prior # 0 =>
    call[c].prior \in ReservationsOf(journal, call[c].key)

\* Operators only resolve reservations.
ResolvedIsReserved ==
  \A i \in 1..Len(journal) : journal[i].type = "resolution" => IsReservation(journal, journal[i].ref)

LInv == CInv /\ PriorsAreReserved /\ ResolvedIsReserved /\ DuplicatesAreJustified

\* Why a call is denied as a duplicate.
HasReason(e) ==
  \/ e.ref \in ReservationsOf(journal, e.key)
  \/ e.ref = 0 /\ Completed(journal, e.key) # {}

\* What the journal says before an event is appended that the event rests on.
Founded(e) ==
  /\ Justified(e)
  /\ e.type = "outcome" => IsReservation(journal, e.ref) /\ OutcomesOf(journal, e.ref) = {}
  /\ e.type = "resolution" => IsReservation(journal, e.ref)
  /\ e.value = "duplicate" => HasReason(e)

-----------------------------------------------------------------------------
(* What an append adds to the readings of a journal.                       *)

Reserves(e, k) == e.type = "decision" /\ e.value = "allowed" /\ ~e.dry /\ e.key = k

LEMMA AppendReservations ==
  ASSUME NEW j \in Seq(Event), NEW e \in Event, NEW k
  PROVE  /\ Reserves(e, k) =>
              ReservationsOf(Append(j, e), k) = ReservationsOf(j, k) \cup {Len(j) + 1}
         /\ ~Reserves(e, k) => ReservationsOf(Append(j, e), k) = ReservationsOf(j, k)
  <1>1. /\ Len(Append(j, e)) = Len(j) + 1 /\ Len(j) \in Nat
        /\ \A i \in 1..Len(j) : Append(j, e)[i] = j[i]
        /\ Append(j, e)[Len(j) + 1] = e
    BY AppendProperties
  <1>2. \A i : i \in 1..Len(Append(j, e)) <=> i \in 1..Len(j) \/ i = Len(j) + 1
    BY <1>1
  <1>3. Len(j) + 1 \notin 1..Len(j)
    BY <1>1
  <1> QED
    BY <1>1, <1>2, <1>3 DEF ReservationsOf, IsReservation, Reserves

LEMMA AppendResolutions ==
  ASSUME NEW j \in Seq(Event), NEW e \in Event, NEW d
  PROVE  ResolutionsOf(Append(j, e), d) =
           IF e.type = "resolution" /\ e.ref = d
           THEN ResolutionsOf(j, d) \cup {Len(j) + 1} ELSE ResolutionsOf(j, d)
  <1>1. /\ Len(Append(j, e)) = Len(j) + 1 /\ Len(j) \in Nat
        /\ \A i \in 1..Len(j) : Append(j, e)[i] = j[i]
        /\ Append(j, e)[Len(j) + 1] = e
    BY AppendProperties
  <1>2. \A i : i \in 1..Len(Append(j, e)) <=> i \in 1..Len(j) \/ i = Len(j) + 1
    BY <1>1
  <1> QED
    BY <1>1, <1>2 DEF ResolutionsOf

\* An event that does not refer to d leaves its fate as it was.
LEMMA FateStays ==
  ASSUME NEW j \in Seq(Event), NEW e \in Event, NEW d, e.type = "decision" \/ e.ref # d
  PROVE  /\ OutcomesOf(Append(j, e), d) = OutcomesOf(j, d)
         /\ Succeeded(Append(j, e), d) <=> Succeeded(j, d)
         /\ Cleared(Append(j, e), d) <=> Cleared(j, d)
  <1> DEFINE j2 == Append(j, e)
  <1>1. \A i \in 1..Len(j) : j2[i] = j[i]
    BY AppendProperties
  <1>2. OutcomesOf(j2, d) = OutcomesOf(j, d) /\ ResolutionsOf(j2, d) = ResolutionsOf(j, d)
    BY AppendOutcomes, AppendResolutions
  <1>3. \A i \in OutcomesOf(j, d) \cup ResolutionsOf(j, d) : j2[i] = j[i]
    BY <1>1 DEF OutcomesOf, ResolutionsOf
  <1>4. Succeeded(j2, d) <=> Succeeded(j, d)
    BY <1>2, <1>3 DEF Succeeded
  <1>5. Cleared(j2, d) <=> Cleared(j, d)
    BY <1>2, <1>3 DEF Cleared
  <1> QED
    BY <1>2, <1>4, <1>5

\* What was completed was reserved: only the outcome of a run is ever recorded.
LEMMA CompletedWasReserved ==
  ASSUME EvidenceIsTrue, NEW k
  PROVE  Completed(journal, k) \subseteq ReservationsOf(journal, k)
  <1> SUFFICES ASSUME NEW d \in Completed(journal, k) PROVE d \in ReservationsOf(journal, k)
    OBVIOUS
  <1>1. PICK o \in OutcomesOf(journal, d) : TRUE
    BY DEF Completed, Succeeded
  <1>2. [id |-> journal[o].ref, result |-> journal[o].value] \in runs /\ journal[o].ref = d
    BY <1>1 DEF OutcomesOf, EvidenceIsTrue
  <1>3. IsReservation(journal, [id |-> journal[o].ref, result |-> journal[o].value].id)
    BY <1>2 DEF EvidenceIsTrue
  <1>4. IsReservation(journal, d)
    BY <1>2, <1>3
  <1> QED
    BY <1>4 DEF ReservationsOf, Completed, IsReservation

\* A key the process remembers has a reason on record.
LEMMA RememberedHasReason ==
  ASSUME CInv, NEW c \in Callers, IsCompleted(ProcOf[c], call[c].key)
  PROVE  Completed(journal, call[c].key) # {}
  BY GuardAssumption DEF CInv, CompletedIsRecorded, IsCompleted

-----------------------------------------------------------------------------
(* Every append of the guard, and of an operator, is founded.              *)

LEMMA DecisionIsFounded ==
  ASSUME CInv, NEW c \in Callers,
         Log(Decision(call[c].key, call[c].verdict, call[c].dry, 0)),
         FileBacked /\ call[c].key # NoKey => Blocking(journal, call[c].key) = {}
  PROVE  \E e \in Event : journal' = Append(journal, e) /\ Founded(e)
  <1> DEFINE e == Decision(call[c].key, call[c].verdict, call[c].dry, 0)
  <1>1. call[c] \in Call
    BY DEF CInv, IInv, TInv, TypeOK
  <1>2. e \in Event /\ e.type = "decision" /\ e.key = call[c].key /\ e.value \in Verdicts
    BY <1>1, Constructors DEF Call, Decision, Decisions
  <1>3. Founded(e)
    BY <1>2 DEF Founded, Justified, Verdicts
  <1> QED
    BY <1>2, <1>3 DEF Log

LEMMA DuplicateIsFounded ==
  ASSUME CInv, NEW c \in Callers, NEW prior \in Nat,
         Log(Decision(call[c].key, "duplicate", FALSE, prior)),
         \/ prior \in ReservationsOf(journal, call[c].key)
         \/ prior = 0 /\ IsCompleted(ProcOf[c], call[c].key)
  PROVE  \E e \in Event : journal' = Append(journal, e) /\ Founded(e)
  <1> DEFINE e == Decision(call[c].key, "duplicate", FALSE, prior)
  <1>1. call[c] \in Call
    BY DEF CInv, IInv, TInv, TypeOK
  <1>2. /\ e \in Event /\ e.type = "decision" /\ e.key = call[c].key
        /\ e.value = "duplicate" /\ e.ref = prior
    BY <1>1, Constructors DEF Call, Decision, Decisions
  <1>3. HasReason(e)
    BY <1>2, RememberedHasReason DEF HasReason
  <1>4. Founded(e)
    BY <1>2, <1>3 DEF Founded, Justified
  <1> QED
    BY <1>2, <1>4 DEF Log

LEMMA OutcomeIsFounded ==
  ASSUME CInv, NEW c \in Callers, pc[c] = "record", Log(Outcome(call[c].id, call[c].result))
  PROVE  \E e \in Event : journal' = Append(journal, e) /\ Founded(e)
  <1> DEFINE e == Outcome(call[c].id, call[c].result)
  <1>1. call[c] \in Call
    BY DEF CInv, IInv, TInv, TypeOK
  <1>2. e \in Event /\ e.type = "outcome" /\ e.ref = call[c].id /\ e.value \in Statuses
    BY <1>1, Constructors DEF Call, Outcome
  <1>3. IsReservation(journal, call[c].id) /\ OutcomesOf(journal, call[c].id) = {}
    BY DEF CInv, IInv, ExecutingIsReserved, Executing
  <1>4. Founded(e)
    BY <1>2, <1>3 DEF Founded, Justified, Statuses
  <1> QED
    BY <1>2, <1>4 DEF Log

\* Every step of a caller leaves the journal as it is or appends what is founded.
LEMMA StepIsFounded ==
  ASSUME LInv, NEW c \in Callers, Step(c)
  PROVE  journal' = journal \/ \E e \in Event : journal' = Append(journal, e) /\ Founded(e)
  <1>t. CInv /\ TypeOK /\ call[c] \in Call /\ journal \in Seq(Event)
    BY DEF LInv, CInv, IInv, TInv, TypeOK
  <1>1. CASE \E kd \in Calls[c] : Begin(c, kd[1], kd[2])
    BY <1>1 DEF Begin
  <1>2. CASE LookUpCompleted(c) \/ LookUpBlocking(c) \/ PassPrecheck(c) \/ Approve(c)
             \/ AppendFails(c) \/ Run(c) \/ Interrupt(c) \/ Mark(c)
    BY <1>2 DEF LookUpCompleted, LookUpBlocking, PassPrecheck, Approve, AppendFails,
                Run, Interrupt, Mark
  <1>3. CASE DenyKnownDuplicate(c)
    <2>1. call[c].prior \in Nat
      BY <1>t DEF Call
    <2>2. /\ call[c].prior # 0 \/ IsCompleted(ProcOf[c], call[c].key)
          /\ Log(Decision(call[c].key, "duplicate", FALSE, call[c].prior))
      BY <1>3 DEF DenyKnownDuplicate
    <2>3. call[c].prior # 0 => call[c].prior \in ReservationsOf(journal, call[c].key)
      BY DEF LInv, PriorsAreReserved
    <2>4. \/ call[c].prior \in ReservationsOf(journal, call[c].key)
          \/ call[c].prior = 0 /\ IsCompleted(ProcOf[c], call[c].key)
      BY <2>2, <2>3
    <2> QED
      BY <1>t, <2>1, <2>2, <2>4, DuplicateIsFounded
  <1>4. CASE Reserve(c)
    <2> DEFINE prior == Blocking(journal, call[c].key)
    <2>1. prior \subseteq Nat /\ prior \subseteq ReservationsOf(journal, call[c].key)
      BY <1>t DEF Blocking, ReservationsOf
    <2>2. First(prior) \in Nat /\ (prior # {} => First(prior) \in prior)
      BY <2>1, FirstIsMember
    <2>3. prior = {} => First(prior) = 0
      BY DEF First
    <2> HIDE DEF prior
    <2>4. CASE Log(Decision(call[c].key, "duplicate", FALSE, First(prior)))
               /\ (prior # {} \/ IsCompleted(ProcOf[c], call[c].key))
      BY <1>t, <2>1, <2>2, <2>3, <2>4, DuplicateIsFounded
    <2>5. CASE prior = {} /\ Decide(c)
      BY <1>t, <2>5, DecisionIsFounded DEF Decide, prior
    <2> QED
      BY <1>4, <2>4, <2>5 DEF Reserve, prior
  <1>5. CASE Recheck(c)
    BY <1>t, <1>5, DuplicateIsFounded DEF Recheck
  <1>6. CASE AppendDecision(c)
    <2>1. FileBacked /\ call[c].key # NoKey => Blocking(journal, call[c].key) = {}
      BY <1>t, <1>6 DEF AppendDecision, CInv, IInv, TInv, KeyedOK
    <2> QED
      BY <1>t, <1>6, <2>1, DecisionIsFounded DEF AppendDecision, Decide
  <1>7. CASE DecisionRaises(c)
    <2>1. FileBacked /\ call[c].key # NoKey => Blocking(journal, call[c].key) = {}
      BY <1>t, <1>7 DEF DecisionRaises, CInv, IInv, TInv, KeyedOK
    <2> QED
      BY <1>t, <1>7, <2>1, DecisionIsFounded DEF DecisionRaises
  <1>8. CASE RecordOutcome(c) \/ OutcomeRaises(c)
    BY <1>t, <1>8, OutcomeIsFounded DEF RecordOutcome, OutcomeRaises
  <1> QED
    BY <1>1, <1>2, <1>3, <1>4, <1>5, <1>6, <1>7, <1>8 DEF Step

LEMMA NextIsFounded ==
  ASSUME LInv, [Next]_vars
  PROVE  journal' = journal \/ \E e \in Event : journal' = Append(journal, e) /\ Founded(e)
  <1>1. ASSUME NEW d \in 1..Len(journal), NEW r \in Resolutions, Resolve(d, r)
        PROVE  \E e \in Event : journal' = Append(journal, e) /\ Founded(e)
    <2> DEFINE e == Resolution(d, r)
    <2>1. /\ e \in Event /\ e.type = "resolution" /\ e.ref = d /\ e.value \in Resolutions
      BY Constructors DEF Resolution, LInv, CInv, IInv, TInv, TypeOK
    <2>2. Founded(e)
      BY <1>1, <2>1 DEF Resolve, Founded, Justified, Resolutions
    <2> QED
      BY <1>1, <2>1, <2>2 DEF Resolve, Log
  <1>2. CASE \E c \in Callers : Step(c)
    BY <1>2, StepIsFounded
  <1>3. CASE (\E p \in Procs : Crash(p)) \/ UNCHANGED vars
    BY <1>3 DEF Crash, vars
  <1> QED
    BY <1>1, <1>2, <1>3 DEF Next

\* A prior is found in the journal, or kept with the key, or there is none.
Finds(c) ==
  \/ call'[c].prior = 0
  \/ /\ call'[c].key = call[c].key
     /\ \/ call'[c].prior = call[c].prior
        \/ call'[c].prior \in ReservationsOf(journal, call[c].key)

LEMMA StepFinds ==
  ASSUME LInv, NEW c \in Callers, Step(c)
  PROVE  \A b \in Callers : Finds(b)
  <1>t. /\ call \in [Callers -> Call] /\ call[c] \in Call /\ journal \in Seq(Event)
        /\ EvidenceIsTrue
    BY DEF LInv, CInv, IInv, TInv, TypeOK
  <1>1. ASSUME NEW r, call' = [call EXCEPT ![c] = r],
               \/ r.prior = 0
               \/ /\ r.key = call[c].key
                  /\ r.prior = call[c].prior \/ r.prior \in ReservationsOf(journal, call[c].key)
        PROVE  \A b \in Callers : Finds(b)
    BY <1>t, <1>1 DEF Finds
  <1>2. CASE UNCHANGED call
    BY <1>2 DEF Finds
  <1>3. CASE Return(c)
    BY <1>1, <1>3 DEF Return, NoCall
  <1>4. CASE \E n : call' = [call EXCEPT ![c].prior = n]
                    /\ (n = 0 \/ n \in ReservationsOf(journal, call[c].key))
    <2>1. PICK n : call' = [call EXCEPT ![c].prior = n]
                   /\ (n = 0 \/ n \in ReservationsOf(journal, call[c].key))
      BY <1>4
    <2>2. [call[c] EXCEPT !.prior = n].prior = n /\ [call[c] EXCEPT !.prior = n].key = call[c].key
      BY <1>t DEF Call
    <2> QED
      BY <1>1, <2>1, <2>2
  <1>5. CASE \/ \E n : call' = [call EXCEPT ![c].id = n]
             \/ \E n : call' = [call EXCEPT ![c].verdict = n]
             \/ \E n : call' = [call EXCEPT ![c].result = n]
    <2>1. \A n : /\ [call[c] EXCEPT !.id = n].prior = call[c].prior
                 /\ [call[c] EXCEPT !.id = n].key = call[c].key
                 /\ [call[c] EXCEPT !.verdict = n].prior = call[c].prior
                 /\ [call[c] EXCEPT !.verdict = n].key = call[c].key
                 /\ [call[c] EXCEPT !.result = n].prior = call[c].prior
                 /\ [call[c] EXCEPT !.result = n].key = call[c].key
      BY <1>t DEF Call
    <2>2. CASE \E n : call' = [call EXCEPT ![c].id = n]
      BY <1>1, <2>1, <2>2
    <2>3. CASE \E n : call' = [call EXCEPT ![c].verdict = n]
      BY <1>1, <2>1, <2>3
    <2>4. CASE \E n : call' = [call EXCEPT ![c].result = n]
      BY <1>1, <2>1, <2>4
    <2> QED
      BY <1>5, <2>2, <2>3, <2>4
  <1>6. CASE \E kd \in Calls[c] : Begin(c, kd[1], kd[2])
    BY <1>1, <1>6 DEF Begin, NoCall
  <1>7. CASE LookUpCompleted(c)
    <2>1. Completed(journal, call[c].key) \subseteq Nat
      BY <1>t DEF Completed
    <2>2. Completed(journal, call[c].key) # {} =>
            First(Completed(journal, call[c].key)) \in ReservationsOf(journal, call[c].key)
      BY <1>t, <2>1, FirstIsMember, CompletedWasReserved
    <2> QED
      BY <1>2, <1>4, <1>7, <2>2 DEF LookUpCompleted
  <1>8. CASE LookUpBlocking(c)
    <2> DEFINE found == Blocking(journal, call[c].key)
    <2>1. found \subseteq Nat /\ found \subseteq ReservationsOf(journal, call[c].key)
      BY <1>t DEF Blocking, ReservationsOf
    <2>2. found # {} => First(found) \in ReservationsOf(journal, call[c].key)
      BY <2>1, FirstIsMember
    <2>3. found = {} => First(found) = 0
      BY DEF First
    <2> QED
      BY <1>4, <1>8, <2>2, <2>3 DEF LookUpBlocking
  <1>9. CASE PassPrecheck(c) \/ DenyKnownDuplicate(c) \/ AppendFails(c) \/ DecisionRaises(c)
             \/ Interrupt(c) \/ OutcomeRaises(c) \/ Mark(c) \/ Recheck(c) \/ RecordOutcome(c)
    BY <1>2, <1>3, <1>9 DEF PassPrecheck, DenyKnownDuplicate, AppendFails, DecisionRaises,
       Interrupt, OutcomeRaises, Mark, Recheck, RecordOutcome
  <1>10. CASE Approve(c) \/ Run(c)
    BY <1>3, <1>5, <1>10 DEF Approve, Run
  <1>11. CASE Reserve(c) \/ AppendDecision(c)
    BY <1>3, <1>5, <1>11 DEF Reserve, AppendDecision, Decide
  <1> QED
    BY <1>6, <1>7, <1>8, <1>9, <1>10, <1>11 DEF Step

LEMMA NextFinds ==
  ASSUME LInv, [Next]_vars
  PROVE  \A b \in Callers : Finds(b)
  <1>1. ASSUME NEW p \in Procs, Crash(p) PROVE \A b \in Callers : Finds(b)
    BY <1>1 DEF Crash, Finds, NoCall
  <1>2. CASE \E d \in 1..Len(journal), r \in Resolutions : Resolve(d, r)
    BY <1>2 DEF Resolve, Finds
  <1>3. CASE UNCHANGED vars
    BY <1>3 DEF vars, Finds
  <1> QED
    BY <1>1, <1>2, <1>3, StepFinds DEF Next

-----------------------------------------------------------------------------
(* The invariant.                                                          *)

LEMMA AppendKeepsReasons ==
  ASSUME NEW e \in Event, journal \in Seq(Event), journal' = Append(journal, e),
         Founded(e), EvidenceIsTrue, DuplicatesAreJustified
  PROVE  DuplicatesAreJustified'
  <1>1. /\ Len(journal') = Len(journal) + 1 /\ Len(journal) \in Nat
        /\ \A i \in 1..Len(journal) : journal'[i] = journal[i]
        /\ journal'[Len(journal) + 1] = e
    BY AppendProperties
  <1>2. \A k : ReservationsOf(journal, k) \subseteq ReservationsOf(journal', k)
    BY AppendReservations
  <1>3. \A d : OutcomesOf(journal, d) \subseteq OutcomesOf(journal', d)
    BY AppendOutcomes
  <1>4. \A d : \A o \in OutcomesOf(journal, d) : o \in 1..Len(journal) /\ journal'[o] = journal[o]
    BY <1>1 DEF OutcomesOf
  <1>5. ASSUME NEW i \in 1..Len(journal), journal[i].value = "duplicate"
        PROVE  \/ journal[i].ref \in ReservationsOf(journal', journal[i].key) /\ journal[i].ref < i
               \/ /\ journal[i].ref = 0
                  /\ \E d \in ReservationsOf(journal', journal[i].key) :
                       \E o \in OutcomesOf(journal', d) : o < i /\ journal'[o].value = "succeeded"
    <2>1. CASE journal[i].ref \in ReservationsOf(journal, journal[i].key) /\ journal[i].ref < i
      BY <1>2, <2>1
    <2>2. CASE /\ journal[i].ref = 0
               /\ \E d \in ReservationsOf(journal, journal[i].key) :
                    \E o \in OutcomesOf(journal, d) : o < i /\ journal[o].value = "succeeded"
      BY <1>2, <1>3, <1>4, <2>2
    <2> QED
      BY <1>5, <2>1, <2>2 DEF DuplicatesAreJustified
  <1>6. ASSUME e.value = "duplicate"
        PROVE  \/ e.ref \in ReservationsOf(journal', e.key) /\ e.ref < Len(journal) + 1
               \/ /\ e.ref = 0
                  /\ \E d \in ReservationsOf(journal', e.key) :
                       \E o \in OutcomesOf(journal', d) :
                         o < Len(journal) + 1 /\ journal'[o].value = "succeeded"
    <2>1. CASE e.ref \in ReservationsOf(journal, e.key)
      BY <1>1, <1>2, <2>1 DEF ReservationsOf
    <2>2. CASE e.ref = 0 /\ Completed(journal, e.key) # {}
      <3>1. PICK d \in Completed(journal, e.key) : TRUE
        BY <2>2
      <3>2. d \in ReservationsOf(journal', e.key)
        BY <1>2, <3>1, CompletedWasReserved
      <3>3. PICK o \in OutcomesOf(journal, d) : journal[o].value = "succeeded"
        BY <3>1 DEF Completed, Succeeded
      <3>4. o \in OutcomesOf(journal', d) /\ o < Len(journal) + 1 /\ journal'[o].value = "succeeded"
        BY <1>1, <1>3, <1>4, <3>3
      <3> QED
        BY <2>2, <3>2, <3>4
    <2> QED
      BY <1>6, <2>1, <2>2 DEF Founded, HasReason
  <1> SUFFICES ASSUME NEW i \in 1..Len(journal'), journal'[i].value = "duplicate"
               PROVE  \/ /\ journal'[i].ref \in ReservationsOf(journal', journal'[i].key)
                         /\ journal'[i].ref < i
                      \/ /\ journal'[i].ref = 0
                         /\ \E d \in ReservationsOf(journal', journal'[i].key) :
                              \E o \in OutcomesOf(journal', d) :
                                o < i /\ journal'[o].value = "succeeded"
    BY DEF DuplicatesAreJustified
  <1>7. CASE i \in 1..Len(journal)
    <2>1. journal'[i] = journal[i]
      BY <1>1, <1>7
    <2> QED
      BY <1>5, <1>7, <2>1
  <1>8. CASE i = Len(journal) + 1
    <2>1. journal'[i] = e
      BY <1>1, <1>8
    <2> QED
      BY <1>6, <1>8, <2>1
  <1>9. i \in 1..Len(journal) \/ i = Len(journal) + 1
    BY <1>1
  <1> QED
    BY <1>7, <1>8, <1>9

LEMMA InitLInv == Init => LInv
  <1> SUFFICES ASSUME Init PROVE LInv
    OBVIOUS
  <1>1. Len(journal) = 0 /\ \A c \in Callers : call[c].prior = 0
    BY DEF Init, NoCall
  <1> QED
    BY <1>1, InitCInv DEF LInv, PriorsAreReserved, ResolvedIsReserved, DuplicatesAreJustified

LEMMA StepLInv == LInv /\ [Next]_vars => LInv'
  <1> SUFFICES ASSUME LInv, [Next]_vars PROVE LInv'
    OBVIOUS
  <1>t. journal \in Seq(Event) /\ EvidenceIsTrue /\ CInv
    BY DEF LInv, CInv, IInv, TInv, TypeOK
  <1>1. CInv'
    BY <1>t, StepCInv
  <1>2. \A k : ReservationsOf(journal, k) \subseteq ReservationsOf(journal', k)
    <2>1. CASE journal' = journal
      BY <2>1
    <2>2. ASSUME NEW e \in Event, journal' = Append(journal, e), NEW k
          PROVE  ReservationsOf(journal, k) \subseteq ReservationsOf(journal', k)
      BY <1>t, <2>2, AppendReservations
    <2> QED
      BY <2>1, <2>2, NextIsFounded
  <1>3. PriorsAreReserved'
    BY <1>2, NextFinds DEF LInv, PriorsAreReserved, Finds
  <1>4. CASE journal' = journal
    BY <1>1, <1>3, <1>4 DEF LInv, ResolvedIsReserved, DuplicatesAreJustified
  <1>5. ASSUME NEW e \in Event, journal' = Append(journal, e), Founded(e) PROVE LInv'
    <2>1. /\ Len(journal') = Len(journal) + 1 /\ Len(journal) \in Nat
          /\ \A i \in 1..Len(journal) : journal'[i] = journal[i]
          /\ journal'[Len(journal) + 1] = e
      BY <1>t, <1>5, AppendProperties
    <2>2. ASSUME NEW i \in 1..Len(journal'), journal'[i].type = "resolution"
          PROVE  IsReservation(journal', journal'[i].ref)
      <3>1. IsReservation(journal, journal'[i].ref)
        BY <1>5, <2>1, <2>2 DEF LInv, ResolvedIsReserved, Founded
      <3>2. journal'[i].ref \in 1..Len(journal)
        BY <3>1 DEF IsReservation
      <3> QED
        BY <1>t, <1>5, <3>1, <3>2, AppendPreserves
    <2>3. DuplicatesAreJustified'
      BY <1>t, <1>5, AppendKeepsReasons DEF LInv
    <2> QED
      BY <1>1, <1>3, <2>2, <2>3 DEF LInv, ResolvedIsReserved
  <1> QED
    BY <1>4, <1>5, NextIsFounded

LEMMA LedgerInvariance == Spec => []LInv
  BY InitLInv, StepLInv, PTL DEF Spec

(***************************************************************************)
(* Whatever was stale when a call was denied as a duplicate, the prior it  *)
(* names is an earlier reservation of its key, and when it names none the  *)
(* key had succeeded before.                                               *)
(***************************************************************************)
THEOREM DuplicatesAlwaysJustified == Spec => []DuplicatesAreJustified
  <1>1. LInv => DuplicatesAreJustified
    BY DEF LInv
  <1> QED
    BY <1>1, LedgerInvariance, PTL

-----------------------------------------------------------------------------
(* The journal as a ledger.                                                *)

\* What a journal says of a key: KeyStatus, of any journal.
Fate(j, k) ==
  IF \E d \in ReservationsOf(j, k) : Succeeded(j, d) THEN "done"
  ELSE IF Blocking(j, k) # {} THEN "held" ELSE "free"

LEMMA LedgerTellsFates ==
  /\ [k \in Keys |-> KeyStatus(k)] = [k \in Keys |-> Fate(journal, k)]
  /\ [k \in Keys |-> KeyStatus(k)]' = [k \in Keys |-> Fate(journal', k)]
  /\ [k \in Keys |-> ReservationsOf(journal, k)]' = [k \in Keys |-> ReservationsOf(journal', k)]
  BY DEF KeyStatus, Fate

\* An event about other keys leaves a key's fate as it was.
LEMMA FateOfOthers ==
  ASSUME NEW j \in Seq(Event), NEW e \in Event, NEW k, ~Reserves(e, k),
         \A d \in ReservationsOf(j, k) : e.type = "decision" \/ e.ref # d
  PROVE  /\ ReservationsOf(Append(j, e), k) = ReservationsOf(j, k)
         /\ Fate(Append(j, e), k) = Fate(j, k)
  <1> DEFINE j2 == Append(j, e)
  <1>1. ReservationsOf(j2, k) = ReservationsOf(j, k)
    BY AppendReservations
  <1>2. \A d \in ReservationsOf(j, k) :
          /\ OutcomesOf(j2, d) = OutcomesOf(j, d)
          /\ Succeeded(j2, d) <=> Succeeded(j, d)
          /\ Cleared(j2, d) <=> Cleared(j, d)
    BY FateStays
  <1> HIDE DEF j2
  <1>3. Blocking(j2, k) = Blocking(j, k)
    BY <1>1, <1>2 DEF Blocking
  <1> QED
    BY <1>1, <1>2, <1>3 DEF Fate, j2

\* What succeeded stays so.
LEMMA SuccessStays ==
  ASSUME NEW j \in Seq(Event), NEW e \in Event, NEW d, Succeeded(j, d)
  PROVE  Succeeded(Append(j, e), d)
  <1>1. \A i \in 1..Len(j) : Append(j, e)[i] = j[i]
    BY AppendProperties
  <1>2. OutcomesOf(j, d) \subseteq OutcomesOf(Append(j, e), d)
    BY AppendOutcomes
  <1> QED
    BY <1>1, <1>2 DEF Succeeded, OutcomesOf

(***************************************************************************)
(* A change of one key that has been attempted, and is not taken back from *)
(* done, is a step of the ledger: the new status tells which.              *)
(***************************************************************************)
LEMMA ChangeIsMove ==
  ASSUME NEW k \in Keys, ReservationsOf(journal, k) # {},
         \A h \in Keys : ReservationsOf(journal', h) = ReservationsOf(journal, h),
         \A h \in Keys \ {k} : Fate(journal', h) = Fate(journal, h),
         Fate(journal, k) = "done" => Fate(journal', k) = "done"
  PROVE  [Ledger!Next]_(Ledger!vars)
  <1> DEFINE status   == [h \in Keys |-> KeyStatus(h)]
             attempts == [h \in Keys |-> ReservationsOf(journal, h)]
  <1>1. status = [h \in Keys |-> Fate(journal, h)] /\ status' = [h \in Keys |-> Fate(journal', h)]
    BY LedgerTellsFates
  <1>2. attempts' = attempts /\ attempts[k] # {}
    BY LedgerTellsFates
  <1>3. status' = [status EXCEPT ![k] = Fate(journal', k)] /\ status[k] = Fate(journal, k)
    BY <1>1
  <1>4. /\ Fate(journal, k) \in {"free", "held", "done"}
        /\ Fate(journal', k) \in {"free", "held", "done"}
    BY DEF Fate
  <1>5. CASE Fate(journal', k) = Fate(journal, k)
    <2>1. status' = status
      BY <1>1, <1>5
    <2> QED
      BY <1>2, <2>1 DEF Ledger!vars
  <1>6. CASE Fate(journal', k) = "done" /\ Fate(journal, k) # "done"
    <2>1. Ledger!Complete(k)
      BY <1>2, <1>3, <1>6 DEF Ledger!Complete
    <2> QED
      BY <2>1 DEF Ledger!Next
  <1>7. CASE Fate(journal', k) = "free" /\ Fate(journal, k) = "held"
    <2>1. Ledger!Release(k)
      BY <1>2, <1>3, <1>7 DEF Ledger!Release
    <2> QED
      BY <2>1 DEF Ledger!Next
  <1>8. CASE Fate(journal', k) = "held" /\ Fate(journal, k) = "free"
    <2>1. Ledger!Reclaim(k)
      BY <1>2, <1>3, <1>8 DEF Ledger!Reclaim
    <2> QED
      BY <2>1 DEF Ledger!Next
  <1> QED
    BY <1>4, <1>5, <1>6, <1>7, <1>8

\* A reservation is made of a free key, and holds it.
LEMMA ReservationIsMove ==
  ASSUME LInv, FileBacked, NEW e \in Event, NEW k \in Keys, Reserves(e, k), Founded(e),
         journal' = Append(journal, e), Len(journal) < MaxEvents
  PROVE  Ledger!Next
  <1> DEFINE status   == [h \in Keys |-> KeyStatus(h)]
             attempts == [h \in Keys |-> ReservationsOf(journal, h)]
             n        == Len(journal) + 1
  <1>1. /\ journal \in Seq(Event) /\ Len(journal) \in Nat /\ EvidenceIsTrue
        /\ Len(journal') = n /\ journal'[n] = e
    BY AppendProperties DEF LInv, CInv, IInv, TInv, TypeOK
  <1>2. status = [h \in Keys |-> Fate(journal, h)] /\ status' = [h \in Keys |-> Fate(journal', h)]
    BY LedgerTellsFates
  <1>3. e.type = "decision" /\ \A h \in Keys \ {k} : ~Reserves(e, h)
    BY DEF Reserves
  <1>4. \A h \in Keys \ {k} : /\ ReservationsOf(journal', h) = ReservationsOf(journal, h)
                              /\ Fate(journal', h) = Fate(journal, h)
    BY <1>1, <1>3, FateOfOthers
  <1>5. ReservationsOf(journal', k) = ReservationsOf(journal, k) \cup {n}
    BY <1>1, AppendReservations
  <1>6. Blocking(journal, k) = {}
    BY KeyAssumption DEF Founded, Justified, Reserves
  <1>7. \A d \in ReservationsOf(journal, k) : ~Succeeded(journal, d)
    BY <1>6 DEF Blocking
  <1>8. Fate(journal, k) = "free"
    BY <1>6, <1>7 DEF Fate
  <1>9. Fate(journal', k) = "held"
    <2>1. \A d \in ReservationsOf(journal, k) : ~Succeeded(journal', d)
      BY <1>1, <1>3, <1>7, FateStays
    <2>2. OutcomesOf(journal, n) = {}
      <3> SUFFICES ASSUME NEW o \in OutcomesOf(journal, n) PROVE FALSE
        OBVIOUS
      <3>1. [id |-> journal[o].ref, result |-> journal[o].value] \in runs /\ journal[o].ref = n
        BY <1>1 DEF OutcomesOf, EvidenceIsTrue
      <3>2. IsReservation(journal, [id |-> journal[o].ref, result |-> journal[o].value].id)
        BY <1>1, <3>1 DEF EvidenceIsTrue
      <3> QED
        BY <1>1, <3>1, <3>2 DEF IsReservation
    <2>3. ~Cleared(journal, n)
      BY <1>1 DEF Cleared, ResolutionsOf, LInv, ResolvedIsReserved, IsReservation
    <2>4. OutcomesOf(journal', n) = {} /\ ~Succeeded(journal', n) /\ ~Cleared(journal', n)
      BY <1>1, <1>3, <2>2, <2>3, FateStays DEF Succeeded
    <2>5. n \in Blocking(journal', k)
      BY <1>5, <2>4 DEF Blocking
    <2>6. ~\E d \in ReservationsOf(journal', k) : Succeeded(journal', d)
      BY <1>5, <2>1, <2>4
    <2> QED
      BY <2>5, <2>6 DEF Fate
  <1>10. status[k] = "free" /\ status' = [status EXCEPT ![k] = "held"]
    BY <1>2, <1>4, <1>8, <1>9
  <1>11. attempts' = [attempts EXCEPT ![k] = @ \cup {n}]
    <2>1. attempts' = [h \in Keys |-> ReservationsOf(journal', h)]
      BY LedgerTellsFates
    <2> QED
      BY <1>4, <1>5, <2>1
  <1>12. n \in 1..MaxEvents \ attempts[k]
    BY <1>1, GuardAssumption DEF ReservationsOf
  <1>13. Ledger!Acquire(k)
    BY <1>10, <1>11, <1>12 DEF Ledger!Acquire
  <1> QED
    BY <1>13 DEF Ledger!Next

\* Outcomes and resolutions change the key of the reservation they refer to.
LEMMA ReferenceIsMove ==
  ASSUME LInv, NEW e \in Event, e.type # "decision", Founded(e), journal' = Append(journal, e)
  PROVE  [Ledger!Next]_(Ledger!vars)
  <1> DEFINE d == e.ref
  <1>1. journal \in Seq(Event) /\ journal[d].key \in Keys \cup {NoKey}
    <2>1. journal \in Seq(Event) /\ e.type \in {"outcome", "resolution"}
      BY DEF LInv, CInv, IInv, TInv, TypeOK, Event
    <2>2. d \in 1..Len(journal) /\ journal[d].type = "decision"
      BY <2>1 DEF Founded, IsReservation
    <2>3. journal[d] \in Event
      BY <2>1, <2>2
    <2> QED
      BY <2>1, <2>2, <2>3 DEF Event
  <1>2. IsReservation(journal, d)
    BY DEF Founded, Event
  <1>3. \A k : ~Reserves(e, k)
    BY DEF Reserves
  <1>4. \A k \in Keys : k # journal[d].key => d \notin ReservationsOf(journal, k)
    BY DEF ReservationsOf
  <1>5. \A k \in Keys : ReservationsOf(journal', k) = ReservationsOf(journal, k)
    BY <1>1, <1>3, AppendReservations
  <1>6. \A k \in Keys : k # journal[d].key => Fate(journal', k) = Fate(journal, k)
    BY <1>1, <1>3, <1>4, FateOfOthers
  <1>7. CASE journal[d].key = NoKey
    <2>1. /\ [k \in Keys |-> Fate(journal', k)] = [k \in Keys |-> Fate(journal, k)]
          /\ [k \in Keys |-> ReservationsOf(journal', k)] = [k \in Keys |-> ReservationsOf(journal, k)]
      BY <1>5, <1>6, <1>7, KeyAssumption
    <2> QED
      BY <2>1, LedgerTellsFates DEF Ledger!vars
  <1>8. CASE journal[d].key \in Keys
    <2> DEFINE k == journal[d].key
    <2>1. d \in ReservationsOf(journal, k)
      BY <1>2 DEF ReservationsOf, IsReservation
    <2>2. Fate(journal, k) = "done" => Fate(journal', k) = "done"
      BY <1>1, <1>5, <1>8, SuccessStays DEF Fate
    <2> QED
      BY <1>5, <1>6, <1>8, <2>1, <2>2, ChangeIsMove
  <1> QED
    BY <1>1, <1>7, <1>8

\* An append finds room in the journal.
LEMMA AppendHasRoom ==
  ASSUME [Next]_vars, journal' # journal
  PROVE  Len(journal) < MaxEvents
  <1>1. ASSUME NEW c \in Callers, Step(c) PROVE Room
    BY <1>1 DEF Step, Begin, LookUpCompleted, LookUpBlocking, PassPrecheck, Approve, AppendFails,
       Run, Interrupt, Mark, DenyKnownDuplicate, Reserve, Recheck, AppendDecision, DecisionRaises,
       RecordOutcome, OutcomeRaises, Decide, Log
  <1> QED
    BY <1>1 DEF Next, Crash, Resolve, Log, vars, Room

LEMMA StepIsMove ==
  ASSUME LInv, FileBacked, [Next]_vars
  PROVE  [Ledger!Next]_(Ledger!vars)
  <1>1. CASE journal' = journal
    BY <1>1, LedgerTellsFates DEF Ledger!vars
  <1>2. ASSUME NEW e \in Event, journal' = Append(journal, e), Founded(e), journal' # journal
        PROVE  [Ledger!Next]_(Ledger!vars)
    <2>1. CASE e.type # "decision"
      BY <1>2, <2>1, ReferenceIsMove
    <2>2. CASE \E k \in Keys : Reserves(e, k)
      BY <1>2, <2>2, ReservationIsMove, AppendHasRoom
    <2>3. CASE e.type = "decision" /\ \A k \in Keys : ~Reserves(e, k)
      <3>1. journal \in Seq(Event)
        BY DEF LInv, CInv, IInv, TInv, TypeOK
      <3>2. \A k \in Keys : /\ ReservationsOf(journal', k) = ReservationsOf(journal, k)
                            /\ Fate(journal', k) = Fate(journal, k)
        BY <1>2, <2>3, <3>1, FateOfOthers
      <3>3. /\ [k \in Keys |-> Fate(journal', k)] = [k \in Keys |-> Fate(journal, k)]
            /\ [k \in Keys |-> ReservationsOf(journal', k)] = [k \in Keys |-> ReservationsOf(journal, k)]
        BY <3>2
      <3> QED
        BY <3>3, LedgerTellsFates DEF Ledger!vars
    <2> QED
      BY <2>1, <2>2, <2>3
  <1> QED
    BY <1>1, <1>2, NextIsFounded

(***************************************************************************)
(* With append_event_atomic the journal implements the abstract promise of *)
(* an idempotency key: it is reserved only when free, and once it has      *)
(* succeeded it never opens again.                                         *)
(***************************************************************************)
THEOREM GuardImplementsReservation ==
  ASSUME FileBacked
  PROVE  Spec => ImplementsReservation
  <1>1. Init => Ledger!Init
    <2> SUFFICES ASSUME Init PROVE Ledger!Init
      OBVIOUS
    <2>1. \A k \in Keys : ReservationsOf(journal, k) = {} /\ Blocking(journal, k) = {}
      BY DEF Init, ReservationsOf, Blocking
    <2>2. \A k \in Keys : Fate(journal, k) = "free"
      BY <2>1 DEF Fate
    <2> QED
      BY <2>1, <2>2, LedgerTellsFates DEF Ledger!Init
  <1>2. LInv /\ [Next]_vars => [Ledger!Next]_(Ledger!vars)
    BY StepIsMove
  <1> QED
    BY <1>1, <1>2, LedgerInvariance, PTL DEF Spec, ImplementsReservation, Ledger!Spec

-----------------------------------------------------------------------------
(***************************************************************************)
(* What the audit says of the journals the guard and its operators write.  *)
(***************************************************************************)

\* Outcomes and resolutions come after the reservation they refer to.
ReferencesPrecede ==
  \A i \in 1..Len(journal) : journal[i].type # "decision" =>
    IsReservation(journal, journal[i].ref) /\ journal[i].ref < i

AInv == LInv /\ ReferencesPrecede

LEMMA InitAInv == Init => AInv
  BY InitLInv DEF AInv, Init, ReferencesPrecede

LEMMA StepAInv == AInv /\ [Next]_vars => AInv'
  <1> SUFFICES ASSUME AInv, [Next]_vars PROVE AInv'
    OBVIOUS
  <1>t. LInv /\ journal \in Seq(Event)
    BY DEF AInv, LInv, CInv, IInv, TInv, TypeOK
  <1>1. LInv'
    BY <1>t, StepLInv
  <1>2. CASE journal' = journal
    BY <1>1, <1>2 DEF AInv, ReferencesPrecede
  <1>3. ASSUME NEW e \in Event, journal' = Append(journal, e), Founded(e)
        PROVE  ReferencesPrecede'
    <2>1. /\ Len(journal') = Len(journal) + 1 /\ Len(journal) \in Nat
          /\ \A i \in 1..Len(journal) : journal'[i] = journal[i]
          /\ journal'[Len(journal) + 1] = e
      BY <1>t, <1>3, AppendProperties
    <2>2. ASSUME NEW i \in 1..Len(journal'), journal'[i].type # "decision"
          PROVE  IsReservation(journal', journal'[i].ref) /\ journal'[i].ref < i
      <3>1. IsReservation(journal, journal'[i].ref) /\ journal'[i].ref < i
        <4>1. CASE i \in 1..Len(journal)
          BY <2>1, <2>2, <4>1 DEF AInv, ReferencesPrecede
        <4>2. CASE i = Len(journal) + 1
          <5>1. e.type \in {"outcome", "resolution"}
            BY <2>1, <2>2, <4>2 DEF Event
          <5>2. IsReservation(journal, e.ref)
            BY <1>3, <5>1 DEF Founded
          <5> QED
            BY <2>1, <4>2, <5>2 DEF IsReservation
        <4> QED
          BY <2>1, <4>1, <4>2
      <3>2. journal'[i].ref \in 1..Len(journal)
        BY <3>1 DEF IsReservation
      <3> QED
        BY <1>t, <1>3, <3>1, <3>2, AppendPreserves
    <2> QED
      BY <2>2 DEF ReferencesPrecede
  <1> QED
    BY <1>t, <1>1, <1>2, <1>3, NextIsFounded DEF AInv

LEMMA AuditInvariance == Spec => []AInv
  BY InitAInv, StepAInv, PTL DEF Spec

-----------------------------------------------------------------------------
(* What the readings of the audit are.                                     *)

\* The latest resolution is one of the resolutions.
LEMMA LatestIsResolution ==
  ASSUME NEW j \in Seq(Event), NEW d, ResolutionsOf(j, d) # {}
  PROVE  LatestResolution(j, d) \in Resolutions
  <1> DEFINE linked == ResolutionsOf(j, d)
             m      == CHOOSE i \in linked : \A r \in linked : r <= i
  <1>1. linked \subseteq 1..Len(j) /\ Len(j) \in Nat
    BY DEF ResolutionsOf
  <1>2. \E i \in linked : \A r \in linked : r <= i
    <2>1. PICK n \in Nat : n = Len(j)
      BY <1>1
    <2>2. linked \subseteq 0..n /\ linked # {}
      BY <1>1, <2>1
    <2> HIDE DEF linked
    <2> QED
      BY <2>2, GreatestNatural
  <1>3. m \in linked
    BY <1>2
  <1>4. j[m] \in Event /\ j[m].type = "resolution"
    BY <1>3 DEF ResolutionsOf
  <1>5. j[m].value \in Resolutions
    BY <1>4 DEF Event
  <1> QED
    BY <1>5 DEF LatestResolution

LEMMA LatestType ==
  ASSUME NEW j \in Seq(Event), NEW d
  PROVE  /\ LatestResolution(j, d) \in Resolutions \cup {"none"}
         /\ LatestResolution(j, d) = "none" <=> ResolutionsOf(j, d) = {}
  <1>1. ResolutionsOf(j, d) = {} => LatestResolution(j, d) = "none"
    BY DEF LatestResolution
  <1> QED
    BY <1>1, LatestIsResolution DEF Resolutions

\* An outcome is the only one of its decision, and the audit reads it.
LEMMA OutcomeIsSole ==
  ASSUME EvidenceIsTrue, NEW d, NEW i \in OutcomesOf(journal, d)
  PROVE  OutcomesOf(journal, d) = {i} /\ SoleOutcome(journal, d) = journal[i].value
  <1>1. OutcomesOf(journal, d) = {i}
    BY DEF EvidenceIsTrue, OutcomesOf
  <1>2. Cardinality({i}) = 1 /\ (CHOOSE o \in {i} : TRUE) = i
    BY FS_Singleton
  <1> QED
    BY <1>1, <1>2 DEF SoleOutcome

LEMMA NoOutcomeReadsNone ==
  ASSUME NEW d, OutcomesOf(journal, d) = {}
  PROVE  SoleOutcome(journal, d) = "none"
  BY FS_EmptySet DEF SoleOutcome

\* Which readings make a status.
LEMMA StatusReadings ==
  ASSUME NEW j, NEW d, LatestResolution(j, d) \in Resolutions \cup {"none"}
  PROVE  /\ StatusOf(j, d) = "succeeded" =>
              /\ Allowed(j, d) /\ SoleOutcome(j, d) = "succeeded"
              /\ LatestResolution(j, d) = "none"
         /\ /\ Allowed(j, d) /\ ~j[d].dry
            /\ SoleOutcome(j, d) = "none" /\ LatestResolution(j, d) = "none"
            => StatusOf(j, d) = "needs_reconciliation"
  BY DEF StatusOf, Resolutions

\* A decision the audit reads as succeeded is a reservation whose run returned.
LEMMA SucceededRan ==
  ASSUME AInv, NEW d \in DecisionsOf(journal), StatusOf(journal, d) = "succeeded"
  PROVE  /\ [id |-> d, result |-> "succeeded"] \in runs
         /\ IsReservation(journal, d) /\ ResolutionsOf(journal, d) = {}
         /\ ~Failed(journal, d)
  <1>1. journal \in Seq(Event) /\ EvidenceIsTrue
    BY DEF AInv, LInv, CInv, IInv, TInv, TypeOK
  <1>2. SoleOutcome(journal, d) = "succeeded" /\ LatestResolution(journal, d) = "none"
    BY <1>1, LatestType, StatusReadings
  <1>3. PICK i \in OutcomesOf(journal, d) : TRUE
    BY <1>2, NoOutcomeReadsNone
  <1>4. OutcomesOf(journal, d) = {i} /\ journal[i].value = "succeeded"
    BY <1>1, <1>2, <1>3, OutcomeIsSole
  <1>5. [id |-> d, result |-> "succeeded"] \in runs
    BY <1>1, <1>3, <1>4 DEF OutcomesOf, EvidenceIsTrue
  <1>6. IsReservation(journal, [id |-> d, result |-> "succeeded"].id)
    BY <1>1, <1>5 DEF EvidenceIsTrue
  <1>7. ResolutionsOf(journal, d) = {}
    BY <1>1, <1>2, LatestType
  <1> QED
    BY <1>4, <1>5, <1>6, <1>7 DEF Failed

-----------------------------------------------------------------------------
LEMMA NoStructuralIssues ==
  ASSUME AInv
  PROVE  \A issue \in ResolutionIssues(journal) \cup OutcomeIssues(journal)
                        \cup ContradictedSuccesses(journal) :
           issue.code = "conflicting_resolution"
  <1>1. journal \in Seq(Event) /\ EvidenceIsTrue /\ ReferencesPrecede
    BY DEF AInv, LInv, CInv, IInv, TInv, TypeOK
  <1>2. \A i \in 1..Len(journal) : journal[i].type # "decision" =>
          /\ journal[i].ref \in DecisionsOf(journal) /\ Allowed(journal, journal[i].ref)
          /\ ~(i <= journal[i].ref)
    <2> SUFFICES ASSUME NEW i \in 1..Len(journal), journal[i].type # "decision"
                 PROVE  /\ journal[i].ref \in DecisionsOf(journal)
                        /\ Allowed(journal, journal[i].ref)
                        /\ ~(i <= journal[i].ref)
      OBVIOUS
    <2>1. IsReservation(journal, journal[i].ref) /\ journal[i].ref < i
      BY <1>1 DEF ReferencesPrecede
    <2>2. journal[i].ref \in 1..Len(journal)
      BY <2>1 DEF IsReservation
    <2> QED
      BY <2>1, <2>2 DEF IsReservation, DecisionsOf, Allowed
  <1>3. Orphans(journal, "resolution") = {} /\ Orphans(journal, "outcome") = {}
    BY <1>2 DEF Orphans
  <1>4. \A issue \in ResolutionIssues(journal) : issue.code = "conflicting_resolution"
    BY <1>2, <1>3 DEF ResolutionIssues
  <1>5. OutcomeIssues(journal) = {}
    <2>1. \A i \in 1..Len(journal) : journal[i].type = "outcome" =>
            ~(Cardinality(OutcomesOf(journal, journal[i].ref)) > 1)
      <3> SUFFICES ASSUME NEW i \in 1..Len(journal), journal[i].type = "outcome"
                   PROVE  ~(Cardinality(OutcomesOf(journal, journal[i].ref)) > 1)
        OBVIOUS
      <3>1. OutcomesOf(journal, journal[i].ref) = {i}
        BY <1>1 DEF EvidenceIsTrue
      <3>2. Cardinality({i}) = 1
        BY FS_Singleton
      <3> QED
        BY <3>1, <3>2
    <2> QED
      BY <1>2, <1>3, <2>1 DEF OutcomeIssues
  <1>6. \A issue \in ContradictedSuccesses(journal) : issue.code = "conflicting_resolution"
    BY DEF ContradictedSuccesses
  <1> QED
    BY <1>4, <1>5, <1>6

(***************************************************************************)
(* With append_event_atomic the audit of any journal the engine and its    *)
(* operators write reports no structural issue, says "succeeded" only of   *)
(* runs that returned, and leaves a run whose outcome was lost open until  *)
(* it is resolved.                                                         *)
(***************************************************************************)
THEOREM AuditAlwaysReadsTrue ==
  ASSUME FileBacked
  PROVE  Spec => []AuditReadsTrue
  <1>1. AInv => AuditReadsTrue
    <2> SUFFICES ASSUME AInv PROVE AuditReadsTrue
      OBVIOUS
    <2>t. journal \in Seq(Event) /\ EvidenceIsTrue /\ OneReservation(journal)
      BY DEF AInv, LInv, CInv, IInv, TInv, TypeOK
    <2>1. \A issue \in DuplicateKeyIssues(journal) : issue.code = "duplicate_idempotency_key"
      BY DEF DuplicateKeyIssues
    <2>2. \A issue \in Issues(journal) :
            issue.code \in {"conflicting_resolution", "duplicate_idempotency_key"}
      BY <2>1, NoStructuralIssues DEF Issues
    <2>3. ASSUME NEW r \in runs,
                 OutcomesOf(journal, r.id) = {}, ResolutionsOf(journal, r.id) = {}
          PROVE  StatusOf(journal, r.id) = "needs_reconciliation"
      <3>1. Allowed(journal, r.id) /\ ~journal[r.id].dry
        BY <2>t DEF EvidenceIsTrue, IsReservation, Allowed
      <3>2. SoleOutcome(journal, r.id) = "none" /\ LatestResolution(journal, r.id) = "none"
        BY <2>t, <2>3, NoOutcomeReadsNone, LatestType
      <3> QED
        BY <3>1, <3>2, StatusReadings
    <2> QED
      BY <2>2, <2>3, SucceededRan DEF AuditReadsTrue
  <1> QED
    BY <1>1, AuditInvariance, PTL

(***************************************************************************)
(* With append_event_atomic the audit's duplicate_idempotency_key pass     *)
(* never fires on a journal the engine and its operators wrote: a second   *)
(* success takes a resolution of the first, and the resolution makes the   *)
(* first read needs_reconciliation (audit_verified_snapshot).  This is why *)
(* the report the documents promise of two successes never comes.          *)
(***************************************************************************)
THEOREM DuplicateKeyNeverReported ==
  ASSUME FileBacked
  PROVE  Spec => [](DuplicateKeyIssues(journal) = {})
  <1>1. AInv => DuplicateKeyIssues(journal) = {}
    <2> SUFFICES ASSUME AInv PROVE DuplicateKeyIssues(journal) = {}
      OBVIOUS
    <2>1. OneReservation(journal)
      BY DEF AInv, LInv, CInv, IInv
    <2>2. ASSUME NEW d \in DecisionsOf(journal), NEW e \in DecisionsOf(journal), e < d,
                 journal[d].key # NoKey, journal[e].key = journal[d].key,
                 StatusOf(journal, d) = "succeeded", StatusOf(journal, e) = "succeeded"
          PROVE  FALSE
      <3>1. IsReservation(journal, d) /\ IsReservation(journal, e)
        BY <2>2, SucceededRan
      <3>2. d \in 1..Len(journal) /\ e \in 1..Len(journal)
        BY DEF DecisionsOf
      <3>3. Failed(journal, e) \/ Released(journal, e)
        BY <2>1, <2>2, <3>1, <3>2 DEF OneReservation
      <3> QED
        BY <2>2, <3>3, SucceededRan DEF Released
    <2> QED
      BY <2>2 DEF DuplicateKeyIssues
  <1> QED
    BY <1>1, AuditInvariance, PTL

(***************************************************************************)
(* With append_event_atomic, two successes of one key never go unnoticed:  *)
(* the audit flags the first as contradicted by the resolution that let    *)
(* the second in.                                                          *)
(***************************************************************************)
THEOREM DoubleSuccessAlwaysFlagged ==
  ASSUME FileBacked
  PROVE  Spec => []DoubleSuccessIsFlagged
  <1>1. AInv => DoubleSuccessIsFlagged
    <2> SUFFICES ASSUME AInv, NEW k \in Keys, NEW d \in ReservationsOf(journal, k),
                        NEW e \in ReservationsOf(journal, k), d < e, Succeeded(journal, d)
                 PROVE  [code |-> "conflicting_resolution", id |-> d] \in Issues(journal)
      BY DEF DoubleSuccessIsFlagged
    <2>t. journal \in Seq(Event) /\ EvidenceIsTrue /\ OneReservation(journal)
      BY DEF AInv, LInv, CInv, IInv, TInv, TypeOK
    <2>1. /\ d \in DecisionsOf(journal) /\ Allowed(journal, d)
          /\ IsReservation(journal, d) /\ IsReservation(journal, e)
          /\ d \in 1..Len(journal) /\ e \in 1..Len(journal)
          /\ journal[d].key = k /\ journal[e].key = k
      BY DEF ReservationsOf, IsReservation, DecisionsOf, Allowed
    <2>2. PICK i \in OutcomesOf(journal, d) : journal[i].value = "succeeded"
      BY DEF Succeeded
    <2>3. OutcomesOf(journal, d) = {i} /\ SoleOutcome(journal, d) = "succeeded"
      BY <2>t, <2>2, OutcomeIsSole
    <2>4. ~Failed(journal, d)
      BY <2>2, <2>3 DEF Failed
    <2>5. Released(journal, d)
      BY <2>t, <2>1, <2>4, KeyAssumption DEF OneReservation
    <2>6. LatestResolution(journal, d) # "none"
      BY <2>t, <2>5, LatestType DEF Released
    <2> QED
      BY <2>1, <2>3, <2>6 DEF Issues, ContradictedSuccesses
  <1> QED
    BY <1>1, AuditInvariance, PTL
=============================================================================
