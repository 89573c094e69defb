---------------------------- MODULE SidecarGuard ----------------------------
(***************************************************************************)
(* The TypeScript guard (ts/src/Guard.ts, ts/src/Idempotency.ts) over the  *)
(* sidecar lock, beside fibers that only append checkpoints.  The journal  *)
(* lock covers one append; the mutex around the lookups and the append of  *)
(* a reservation is the process's own.                                     *)
(***************************************************************************)
EXTENDS SidecarLock

CONSTANT Callers   \* the fibers that make a guarded call; the others checkpoint

ASSUME CallerAssumption == Callers \subseteq Fibers

VARIABLES
  pc,         \* per fiber, the step of its call
  call,       \* per caller, its key, the event it last appended, its decision's id
  completed,  \* per process, CompletionRegistry
  mutex       \* per process, the fibers that hold the permit of journalMutex

vars == <<lockVars, pc, call, completed, mutex>>

Places == {"idle", "known", "scan", "refuse", "approve", "mutex", "recheck", "rescan",
           "reserve", "run", "outcome", "mark", "end"}

NoCall == [key |-> NoKey, dry |-> FALSE, verdict |-> "denied", id |-> 0]

Init ==
  /\ LockInit
  /\ pc = [f \in Fibers |-> "idle"]
  /\ call = [f \in Callers |-> NoCall]
  /\ completed = [p \in Processes |-> {}]
  /\ mutex = [p \in Processes |-> {}]

(* The state's types; the mutex has one permit, and every event on file is *)
(* described in written.                                                   *)
TypeOK ==
  /\ at \in [Fibers -> Steps]
  /\ depth \in [Processes -> 0..Cardinality(Fibers)]
  /\ answer \in [Fibers -> 0..Len(journal)]
  /\ Len(journal) = Len(written)
  /\ pc \in [Fibers -> Places]
  /\ call \in [Callers -> [key : Keys \cup {NoKey}, dry : BOOLEAN, verdict : Verdicts, id : Nat]]
  /\ completed \in [Processes -> SUBSET Keys]
  /\ \A p \in Processes : mutex[p] \subseteq p /\ Cardinality(mutex[p]) <= 1

Goes(f, place) == pc' = [pc EXCEPT ![f] = place]
Ready(f, place) == pc[f] = place /\ at[f] = "out" /\ Turn(f)

\* The call is over, and its locals are gone.
Ends(f) ==
  /\ Goes(f, "end")
  /\ Forget(f)
  /\ call' = [g \in Callers |-> IF g = f THEN NoCall ELSE call[g]]

IsCompleted(f) == call[f].key \in completed[ProcessOf(f)]

\* scanBlocking: "same rules as the Python engine", on the file as it is now.
Blocker(f) == First(Blocking(journal, call[f].key))

Duplicate(f, prior) == Decision(call[f].key, "duplicate", FALSE, prior)
Allowed(f)          == Decision(call[f].key, call[f].verdict, call[f].dry, 0)

-----------------------------------------------------------------------------
\* A call resolves its key; a checkpoint has none and goes to its append.
Begin(f) ==
  /\ Ready(f, "idle") /\ f \in Callers
  /\ \E k \in Keys : call' = [call EXCEPT ![f].key = k]
  /\ Goes(f, "known")
  /\ UNCHANGED <<lockVars, completed, mutex>>

BeginCheckpoint(f) ==
  /\ Ready(f, "idle") /\ f \notin Callers
  /\ Log(f, Checkpoint) /\ Goes(f, "refuse")
  /\ UNCHANGED <<call, completed, mutex>>

\* The pre-check, in two reads.
CheckKnown(f) ==
  /\ Ready(f, "known")
  /\ \/ ~IsCompleted(f) /\ Goes(f, "scan") /\ UNCHANGED lockVars
     \/ IsCompleted(f) /\ Log(f, Duplicate(f, 0)) /\ Goes(f, "refuse")
  /\ UNCHANGED <<call, completed, mutex>>

ScanFirst(f) ==
  /\ Ready(f, "scan")
  /\ \/ Blocker(f) = 0 /\ Goes(f, "approve") /\ UNCHANGED lockVars
     \/ Blocker(f) # 0 /\ Log(f, Duplicate(f, Blocker(f))) /\ Goes(f, "refuse")
  /\ UNCHANGED <<call, completed, mutex>>

\* The call is over as a DuplicateActionError or a checkpoint, or failed to append.
Refused(f) == Ready(f, "refuse") /\ Ends(f) /\ UNCHANGED <<completed, mutex>>

\* The provider answers, or fails.  Whether the call is a dry run counts from here
\* on, and only if it is allowed.
Approve(f) ==
  /\ Ready(f, "approve")
  /\ \/ /\ \E v \in Verdicts, dry \in BOOLEAN :
             /\ dry => v = "allowed"
             /\ call' = [call EXCEPT ![f].verdict = v, ![f].dry = dry]
        /\ Goes(f, "mutex")
        /\ UNCHANGED lockVars
     \/ Ends(f)
  /\ UNCHANGED <<completed, mutex>>

\* Mutant: the permit is taken without waiting for the one who has it.
Enqueue_Unserialized(f) ==
  /\ Ready(f, "mutex")
  /\ mutex' = [mutex EXCEPT ![ProcessOf(f)] = @ \cup {f}]
  /\ Goes(f, "recheck")
  /\ UNCHANGED <<lockVars, call, completed>>

\* mutex.withPermits(1)
Enqueue(f) ==
  /\ Ready(f, "mutex")
  /\ mutex[ProcessOf(f)] = {}
  /\ mutex' = [mutex EXCEPT ![ProcessOf(f)] = {f}]
  /\ Goes(f, "recheck")
  /\ UNCHANGED <<lockVars, call, completed>>

Recheck(f) ==
  /\ Ready(f, "recheck")
  /\ \/ ~IsCompleted(f) /\ Goes(f, "rescan") /\ UNCHANGED <<lockVars, call>>
     \/ /\ IsCompleted(f) /\ Log(f, Duplicate(f, 0)) /\ Goes(f, "reserve")
        /\ call' = [call EXCEPT ![f].verdict = "denied"]
  /\ UNCHANGED <<completed, mutex>>

\* Mutant: what the pre-check found is taken for granted after the approval.
Rescan_Trusting(f) ==
  /\ Ready(f, "rescan")
  /\ Log(f, Allowed(f))
  /\ Goes(f, "reserve")
  /\ UNCHANGED <<call, completed, mutex>>

\* The authoritative scan, and the append it decides.
Rescan(f) ==
  /\ Ready(f, "rescan")
  /\ \/ Blocker(f) = 0 /\ Log(f, Allowed(f)) /\ UNCHANGED call
     \/ /\ Blocker(f) # 0 /\ Log(f, Duplicate(f, Blocker(f)))
        /\ call' = [call EXCEPT ![f].verdict = "denied"]
  /\ Goes(f, "reserve")
  /\ UNCHANGED <<completed, mutex>>

\* The append has returned, or failed; either way the permit is given back.
Reserved(f) ==
  /\ Ready(f, "reserve")
  /\ mutex' = [mutex EXCEPT ![ProcessOf(f)] = @ \ {f}]
  /\ IF answer[f] # 0 /\ call[f].verdict = "allowed" /\ ~call[f].dry
     THEN Goes(f, "run") /\ call' = [call EXCEPT ![f].id = answer[f]] /\ UNCHANGED lockVars
     ELSE Ends(f)
  /\ UNCHANGED completed

\* The target returns or rejects.
Run(f) ==
  /\ Ready(f, "run")
  /\ \E status \in Statuses : Log(f, Outcome(call[f].id, status))
  /\ Goes(f, "outcome")
  /\ UNCHANGED <<call, completed, mutex>>

Recorded(f) ==
  /\ Ready(f, "outcome")
  /\ IF answer[f] # 0 /\ draft[f].event.value = "succeeded"
     THEN Goes(f, "mark") /\ UNCHANGED <<lockVars, call>>
     ELSE Ends(f)
  /\ UNCHANGED <<completed, mutex>>

MarkCompleted(f) ==
  /\ Ready(f, "mark")
  /\ completed' = [completed EXCEPT ![ProcessOf(f)] = @ \cup {call[f].key}]
  /\ Ends(f)
  /\ UNCHANGED mutex

\* The fiber is interrupted where it waits; the permit is given back.
Interrupt(f) ==
  /\ \E place \in {"approve", "mutex", "recheck", "rescan", "run"} : Ready(f, place)
  /\ mutex' = [mutex EXCEPT ![ProcessOf(f)] = @ \ {f}]
  /\ Ends(f)
  /\ UNCHANGED completed

Die(p) ==
  /\ Kill(p)
  /\ pc' = [f \in Fibers |-> IF f \in p THEN "end" ELSE pc[f]]
  /\ call' = [f \in Callers |-> IF f \in p THEN NoCall ELSE call[f]]
  /\ completed' = [completed EXCEPT ![p] = {}]
  /\ mutex' = [mutex EXCEPT ![p] = {}]

Call(f) ==
  \/ Begin(f) \/ BeginCheckpoint(f) \/ CheckKnown(f) \/ ScanFirst(f) \/ Refused(f)
  \/ Approve(f) \/ Enqueue(f) \/ Recheck(f) \/ Rescan(f) \/ Reserved(f)
  \/ Run(f) \/ Recorded(f) \/ MarkCompleted(f) \/ Interrupt(f)

Next ==
  \/ \E f \in Fibers : Call(f) \/ (Locking(f) /\ UNCHANGED <<pc, call, completed, mutex>>)
  \/ \E p \in Processes : Die(p)
  \/ Age /\ UNCHANGED <<pc, call, completed, mutex>>

Spec == Init /\ [][Next]_vars

-----------------------------------------------------------------------------
(***************************************************************************)
(* Of two reservations of one key by fibers of one process, the first has  *)
(* failed on record, whatever became of the journal lock meanwhile (Guard. *)
(* ts:439-478: "only the first concurrent racer appends allowed").         *)
(***************************************************************************)
OneReservationPerProcess ==
  \A k \in Keys : \A d, e \in ReservationsOf(journal, k) :
    d < e /\ ProcessOf(written[d].by) = ProcessOf(written[e].by) => Failed(journal, d)
=============================================================================
