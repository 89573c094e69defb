------------------------------- MODULE Guard -------------------------------
(***************************************************************************)
(* The guarded call (tesera/engine.py), run by several threads of several  *)
(* processes over one journal, with crashes, failed appends and operator   *)
(* resolutions.                                                            *)
(*                                                                         *)
(* One append is one step: it happens inside the in-process lock and the   *)
(* file lock (JournalFile.tla has the steps inside).  Everything the       *)
(* engine does between two appends is a step of its own, so what a thread  *)
(* has read may be stale by the time it acts on it.                        *)
(***************************************************************************)
EXTENDS Journal

CONSTANTS
  Callers,       \* threads that make guarded calls
  Procs,         \* processes
  ProcOf,        \* [Callers -> Procs]
  Calls,         \* per caller, the calls it makes: <<key or NoKey, dry_run>>
  FileBacked,    \* the store has append_event_atomic and a path
  CompletedMax,  \* _COMPLETED_FILE_MAX
  MaxEvents      \* bound: longest journal explored; a full disk beyond it

ASSUME GuardAssumption ==
  /\ ProcOf \in [Callers -> Procs]
  /\ Calls \in [Callers -> SUBSET ((Keys \cup {NoKey}) \X BOOLEAN)]
  /\ FileBacked \in BOOLEAN
  /\ CompletedMax \in Nat \ {0}
  /\ MaxEvents \in Nat

VARIABLES
  journal,    \* the events on disk
  completed,  \* per process, the keys remembered as completed, oldest first
  pc,         \* per caller, where its call stands
  call,       \* per caller, the locals of the call
  runs        \* history: how the target ended, for each decision it ran under

vars == <<journal, completed, pc, call, runs>>

PCs == {"idle", "completed?", "blocking?", "duplicate?", "approval",
        "reserve", "append", "run", "record", "mark"}

NoCall == [key |-> NoKey, dry |-> FALSE, prior |-> 0,
           verdict |-> "denied", id |-> 0, result |-> "failed"]

Call == [key : Keys \cup {NoKey}, dry : BOOLEAN, prior : Nat,
         verdict : Verdicts, id : Nat, result : Statuses]

(***************************************************************************)
(* Type correctness: the journal holds decisions, outcomes and resolutions, *)
(* each caller is at one step of the guarded call (engine.py), and what a  *)
(* process remembers of a file's completions stays below its cap           *)
(* (_COMPLETED_FILE_MAX).                                                  *)
(***************************************************************************)
TypeOK ==
  /\ journal \in Seq(Event)
  /\ completed \in [Procs -> Seq(Keys)]
  /\ FileBacked => \A p \in Procs : Len(completed[p]) <= CompletedMax
  /\ pc \in [Callers -> PCs]
  /\ call \in [Callers -> Call]
  /\ runs \subseteq [id : Nat, result : Statuses \cup {"interrupted"}]

Init ==
  /\ journal = <<>>
  /\ completed = [p \in Procs |-> <<>>]
  /\ pc = [c \in Callers |-> "idle"]
  /\ call = [c \in Callers |-> NoCall]
  /\ runs = {}

-----------------------------------------------------------------------------
IsCompleted(p, k) == \E i \in 1..Len(completed[p]) : completed[p][i] = k

\* Mutant: nothing is evicted.
MarkCompleted_Unbounded(p, k) ==
  completed' = IF IsCompleted(p, k) THEN completed
               ELSE [completed EXCEPT ![p] = Append(completed[p], k)]

\* A dict insert, then FIFO eviction above the cap; custom stores have no cap.
MarkCompleted(p, k) ==
  LET marked == Append(completed[p], k)
  IN  completed' =
        IF IsCompleted(p, k) THEN completed
        ELSE [completed EXCEPT ![p] =
                IF FileBacked /\ Len(marked) > CompletedMax THEN Tail(marked) ELSE marked]

Room == Len(journal) < MaxEvents

Log(e) == Room /\ journal' = Append(journal, e)

Goto(c, label) == pc' = [pc EXCEPT ![c] = label]

\* The call ends, by returning or by raising.
Return(c) ==
  /\ Goto(c, "idle")
  /\ call' = [call EXCEPT ![c] = NoCall]

-----------------------------------------------------------------------------
\* Bind the arguments and resolve the idempotency key.
Begin(c, k, dry) ==
  /\ pc[c] = "idle"
  /\ call' = [call EXCEPT ![c] = [NoCall EXCEPT !.key = k, !.dry = dry]]
  /\ Goto(c, IF k = NoKey THEN "approval" ELSE "completed?")
  /\ UNCHANGED <<journal, completed, runs>>

\* Pre-check, first part: the in-process set, then the unlocked scan for a
\* completed prior.  The scan may fail, which the engine reads as "none".
LookUpCompleted(c) ==
  LET k     == call[c].key
      p     == ProcOf[c]
      found == Completed(journal, k)
  IN  /\ pc[c] = "completed?"
      /\ \/ /\ IsCompleted(p, k) \/ ~FileBacked
            /\ Goto(c, "duplicate?")
            /\ UNCHANGED <<completed, call>>
         \/ /\ ~IsCompleted(p, k) /\ FileBacked
            /\ found # {}
            /\ call' = [call EXCEPT ![c].prior = First(found)]
            /\ MarkCompleted(p, k)
            /\ Goto(c, "duplicate?")
         \/ /\ ~IsCompleted(p, k) /\ FileBacked
            /\ Goto(c, "blocking?")
            /\ UNCHANGED <<completed, call>>
      /\ UNCHANGED <<journal, runs>>

\* Pre-check, second part: the unlocked scan for a blocking prior; it may fail.
LookUpBlocking(c) ==
  /\ pc[c] = "blocking?"
  /\ \E prior \in {First(Blocking(journal, call[c].key)), 0} :
       call' = [call EXCEPT ![c].prior = prior]
  /\ Goto(c, "duplicate?")
  /\ UNCHANGED <<journal, completed, runs>>

\* Pre-check, verdict: record a denied duplicate and raise, or go on.
DenyKnownDuplicate(c) ==
  LET k == call[c].key
  IN  /\ pc[c] = "duplicate?"
      /\ call[c].prior # 0 \/ IsCompleted(ProcOf[c], k)
      /\ Log(Decision(k, "duplicate", FALSE, call[c].prior))
      /\ Return(c)
      /\ UNCHANGED <<completed, runs>>

PassPrecheck(c) ==
  /\ pc[c] = "duplicate?"
  /\ call[c].prior = 0
  /\ ~IsCompleted(ProcOf[c], call[c].key)
  /\ Goto(c, "approval")
  /\ UNCHANGED <<journal, completed, call, runs>>

\* The provider answers, or fails and nothing is recorded.
Approve(c) ==
  /\ pc[c] = "approval"
  /\ \/ \E verdict \in Verdicts :
          /\ call' = [call EXCEPT ![c].verdict = verdict]
          /\ Goto(c, "reserve")
     \/ Return(c)
  /\ UNCHANGED <<journal, completed, runs>>

\* Mutant: a dry run is recorded and then run.
Decide_RunsDryRuns(c) ==
  LET k == call[c].key
      v == call[c].verdict
  IN  /\ Log(Decision(k, v, call[c].dry, 0))
      /\ IF v = "allowed"
         THEN /\ Goto(c, "run")
              /\ call' = [call EXCEPT ![c].id = Len(journal) + 1]
         ELSE Return(c)

\* Append the approval's decision; only an allowed call that is not a dry run
\* goes on to run its target.
Decide(c) ==
  LET k == call[c].key
      v == call[c].verdict
  IN  /\ Log(Decision(k, v, call[c].dry, 0))
      /\ IF v = "allowed" /\ ~call[c].dry
         THEN /\ Goto(c, "run")
              /\ call' = [call EXCEPT ![c].id = Len(journal) + 1]
         ELSE Return(c)

Atomic(c) == FileBacked /\ call[c].key # NoKey

\* Mutant: the pre-check's answer is trusted and the journal not scanned again.
Reserve_NoRescan(c) ==
  LET k == call[c].key
  IN  /\ pc[c] = "reserve"
      /\ Atomic(c)
      /\ \/ /\ IsCompleted(ProcOf[c], k)
            /\ Log(Decision(k, "duplicate", FALSE, 0))
            /\ Return(c)
         \/ /\ ~IsCompleted(ProcOf[c], k)
            /\ Decide(c)
      /\ UNCHANGED <<completed, runs>>

\* Blocking scan, in-process re-check and append, all under the file lock.
Reserve(c) ==
  LET k     == call[c].key
      prior == Blocking(journal, k)
  IN  /\ pc[c] = "reserve"
      /\ Atomic(c)
      /\ \/ /\ prior # {} \/ IsCompleted(ProcOf[c], k)
            /\ Log(Decision(k, "duplicate", FALSE, First(prior)))
            /\ Return(c)
         \/ /\ prior = {} /\ ~IsCompleted(ProcOf[c], k)
            /\ Decide(c)
      /\ UNCHANGED <<completed, runs>>

\* A keyless call, or a store without append_event_atomic: the post-approval
\* check of the in-process set is one step and the append another.
Recheck(c) ==
  LET k == call[c].key
  IN  /\ pc[c] = "reserve"
      /\ ~Atomic(c)
      /\ \/ /\ k # NoKey /\ IsCompleted(ProcOf[c], k)
            /\ Log(Decision(k, "duplicate", FALSE, 0))
            /\ Return(c)
         \/ /\ k = NoKey \/ ~IsCompleted(ProcOf[c], k)
            /\ Goto(c, "append")
            /\ UNCHANGED <<journal, call>>
      /\ UNCHANGED <<completed, runs>>

AppendDecision(c) ==
  /\ pc[c] = "append"
  /\ Decide(c)
  /\ UNCHANGED <<completed, runs>>

\* An append raises before anything is written: the call ends in an error.
AppendFails(c) ==
  /\ \/ pc[c] \in {"reserve", "append"}
     \/ pc[c] = "duplicate?" /\ (call[c].prior # 0 \/ IsCompleted(ProcOf[c], call[c].key))
  /\ Return(c)
  /\ UNCHANGED <<journal, completed, runs>>

\* The decision is written but the append raises (fsync, or the shipping of
\* the event, fails): the call ends without running its target.
DecisionRaises(c) ==
  LET k == call[c].key
  IN  /\ \/ /\ pc[c] = "reserve" /\ Atomic(c)
            /\ Blocking(journal, k) = {} /\ ~IsCompleted(ProcOf[c], k)
         \/ pc[c] = "append"
      /\ Log(Decision(k, call[c].verdict, call[c].dry, 0))
      /\ Return(c)
      /\ UNCHANGED <<completed, runs>>

-----------------------------------------------------------------------------
\* The target returns or raises an Exception.
Run(c) ==
  /\ pc[c] = "run"
  /\ \E result \in Statuses :
       /\ runs' = runs \cup {[id |-> call[c].id, result |-> result]}
       /\ call' = [call EXCEPT ![c].result = result]
  /\ Goto(c, "record")
  /\ UNCHANGED <<journal, completed>>

\* A BaseException (KeyboardInterrupt, cancellation) leaves the target: no
\* outcome is recorded.
Interrupt(c) ==
  /\ pc[c] = "run"
  /\ runs' = runs \cup {[id |-> call[c].id, result |-> "interrupted"]}
  /\ Return(c)
  /\ UNCHANGED <<journal, completed>>

\* Mutant: a failed outcome marks its key as completed too.
RecordOutcome_MarksFailures(c) ==
  /\ pc[c] = "record"
  /\ Log(Outcome(call[c].id, call[c].result))
  /\ IF call[c].key # NoKey
     THEN Goto(c, "mark") /\ UNCHANGED call
     ELSE Return(c)
  /\ UNCHANGED <<completed, runs>>

RecordOutcome(c) ==
  /\ pc[c] = "record"
  /\ Log(Outcome(call[c].id, call[c].result))
  /\ IF call[c].result = "succeeded" /\ call[c].key # NoKey
     THEN Goto(c, "mark") /\ UNCHANGED call
     ELSE Return(c)
  /\ UNCHANGED <<completed, runs>>

\* Mutant: the key is marked as completed although the outcome may be lost.
OutcomeRaises_Marks(c) ==
  /\ pc[c] = "record"
  /\ \/ Log(Outcome(call[c].id, call[c].result))
     \/ UNCHANGED journal
  /\ IF call[c].result = "succeeded" /\ call[c].key # NoKey
     THEN Goto(c, "mark") /\ UNCHANGED call
     ELSE Return(c)
  /\ UNCHANGED <<completed, runs>>

\* Mutant: the append is tried again after an error, though it was durable.
OutcomeRaises_Retries(c) ==
  /\ pc[c] = "record"
  /\ Log(Outcome(call[c].id, call[c].result))
  /\ UNCHANGED <<completed, pc, call, runs>>

\* The outcome append raises: nothing written (ExecutionCompletedEvidenceError)
\* or written and not shipped (EventShipError).  The key is not marked.
OutcomeRaises(c) ==
  /\ pc[c] = "record"
  /\ \/ Log(Outcome(call[c].id, call[c].result))
     \/ UNCHANGED journal
  /\ Return(c)
  /\ UNCHANGED <<completed, runs>>

Mark(c) ==
  /\ pc[c] = "mark"
  /\ MarkCompleted(ProcOf[c], call[c].key)
  /\ Return(c)
  /\ UNCHANGED <<journal, runs>>

-----------------------------------------------------------------------------
\* Process p dies and restarts: its calls vanish, and some of the targets that
\* were running have run in part.
Crash(p) ==
  LET mine == {c \in Callers : ProcOf[c] = p}
  IN  /\ \E c \in mine : pc[c] # "idle"
      /\ \E cut \in SUBSET {c \in mine : pc[c] = "run"} :
           runs' = runs \cup {[id |-> call[c].id, result |-> "interrupted"] : c \in cut}
      /\ completed' = [completed EXCEPT ![p] = <<>>]
      /\ pc'   = [c \in Callers |-> IF c \in mine THEN "idle" ELSE pc[c]]
      /\ call' = [c \in Callers |-> IF c \in mine THEN NoCall ELSE call[c]]
      /\ UNCHANGED journal

\* `tesera resolve`: the operator attests to what became of a reservation.
Resolve(d, r) ==
  /\ IsReservation(journal, d)
  /\ Log(Resolution(d, r))
  /\ UNCHANGED <<completed, pc, call, runs>>

Step(c) ==
  \/ \E kd \in Calls[c] : Begin(c, kd[1], kd[2])
  \/ LookUpCompleted(c) \/ LookUpBlocking(c)
  \/ DenyKnownDuplicate(c) \/ PassPrecheck(c)
  \/ Approve(c)
  \/ Reserve(c) \/ Recheck(c) \/ AppendDecision(c)
  \/ AppendFails(c) \/ DecisionRaises(c)
  \/ Run(c) \/ Interrupt(c)
  \/ RecordOutcome(c) \/ OutcomeRaises(c) \/ Mark(c)

Next ==
  \/ \E c \in Callers : Step(c)
  \/ \E p \in Procs : Crash(p)
  \/ \E d \in 1..Len(journal), r \in Resolutions : Resolve(d, r)

Spec == Init /\ [][Next]_vars

-----------------------------------------------------------------------------
\* An operator has declared the side effect of d absent.
Released(j, d) == \E i \in ResolutionsOf(j, d) : j[i].value = "confirmed_not_completed"

KeyOf(d) == journal[d].key

(***************************************************************************)
(* The target runs at most once per idempotency key, whatever races,       *)
(* crashes and lost outcomes happen, unless the earlier run is recorded as *)
(* failed or an operator declared it not completed (_prepare_execution     *)
(* step 7, append_event_atomic).                                           *)
(***************************************************************************)
OneRunPerRelease ==
  \A r, s \in runs :
    r.id < s.id /\ KeyOf(r.id) = KeyOf(s.id) /\ KeyOf(r.id) # NoKey
      => Failed(journal, r.id) \/ Released(journal, r.id)

(***************************************************************************)
(* Evidence tells the truth: a target only ever ran under a reservation    *)
(* that is in the journal, ran once under it, and a recorded outcome is    *)
(* what that run ended with (execute_sync, _record_outcome_or_raise).      *)
(***************************************************************************)
EvidenceIsTrue ==
  /\ \A r \in runs : IsReservation(journal, r.id)
  /\ \A r, s \in runs : r.id = s.id => r = s
  /\ \A i \in 1..Len(journal) : journal[i].type = "outcome" =>
       /\ [id |-> journal[i].ref, result |-> journal[i].value] \in runs
       /\ OutcomesOf(journal, journal[i].ref) = {i}

(***************************************************************************)
(* The in-process memory never runs ahead of the evidence: a key it holds  *)
(* has a succeeded outcome on disk, so forgetting it (eviction, restart)   *)
(* costs a scan and never an answer (_mark_completed, _COMPLETED_FILE).    *)
(***************************************************************************)
CompletedIsRecorded ==
  \A p \in Procs : \A i \in 1..Len(completed[p]) :
    Completed(journal, completed[p][i]) # {}

(***************************************************************************)
(* A call denied as a duplicate had a reason: the prior it names is an     *)
(* earlier reservation of its key, and when it names none the key had      *)
(* already succeeded (_duplicate_extra).                                   *)
(***************************************************************************)
DuplicatesAreJustified ==
  \A i \in 1..Len(journal) : journal[i].value = "duplicate" =>
    \/ journal[i].ref \in ReservationsOf(journal, journal[i].key) /\ journal[i].ref < i
    \/ /\ journal[i].ref = 0
       /\ \E d \in ReservationsOf(journal, journal[i].key) :
            \E o \in OutcomesOf(journal, d) : o < i /\ journal[o].value = "succeeded"

(***************************************************************************)
(* The journal read as a ledger of keys.                                   *)
(***************************************************************************)
KeyStatus(k) ==
  IF \E d \in ReservationsOf(journal, k) : Succeeded(journal, d) THEN "done"
  ELSE IF Blocking(journal, k) # {} THEN "held" ELSE "free"

Ledger == INSTANCE Reservation WITH
  Ids      <- 1..MaxEvents,
  status   <- [k \in Keys |-> KeyStatus(k)],
  attempts <- [k \in Keys |-> ReservationsOf(journal, k)]

(***************************************************************************)
(* Guard implements Reservation: every allowed decision for a key is made  *)
(* when the key is free, and a succeeded key never opens again, through    *)
(* late outcomes, clearances and clearances taken back.                    *)
(***************************************************************************)
ImplementsReservation == Ledger!Spec
=============================================================================
