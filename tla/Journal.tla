------------------------------ MODULE Journal ------------------------------
(***************************************************************************)
(* The evidence journal as a value, and the idempotency predicate the      *)
(* engine evaluates over it.                                               *)
(*                                                                         *)
(* A journal is a sequence of events.  An event's id is its position: ids  *)
(* are uuid4 values in the code, unique and never reused.  The pair        *)
(* (action_name, idempotency_key) is one member of Keys; NoKey marks a     *)
(* call that declared no idempotency key.  The fields that only describe   *)
(* a call (risk, summaries, hashes, timestamps, signatures) are left out.  *)
(***************************************************************************)
EXTENDS Integers, Sequences, FiniteSets

CONSTANTS
  Keys,   \* (action_name, idempotency_key) pairs
  NoKey   \* the call declared no idempotency key

ASSUME KeyAssumption == NoKey \notin Keys

Verdicts    == {"allowed", "denied"}
\* "duplicate" is decision "denied" with the duplicate-key reason.
Decisions   == Verdicts \cup {"duplicate"}
Statuses    == {"succeeded", "failed"}
Resolutions == {"confirmed_completed", "confirmed_not_completed"}

(***************************************************************************)
(* ref is duplicate_of in a decision (0 when absent) and the               *)
(* decision_event_id in an outcome or a resolution.                        *)
(***************************************************************************)
Event ==
  [type : {"decision"}, key : Keys \cup {NoKey}, value : Decisions, dry : BOOLEAN, ref : Nat]
  \cup
  [type : {"outcome"}, key : {NoKey}, value : Statuses, dry : {FALSE}, ref : Nat]
  \cup
  [type : {"resolution"}, key : {NoKey}, value : Resolutions, dry : {FALSE}, ref : Nat]

Decision(k, v, dry, prior) ==
  [type |-> "decision", key |-> k, value |-> v, dry |-> dry, ref |-> prior]

Outcome(d, status) ==
  [type |-> "outcome", key |-> NoKey, value |-> status, dry |-> FALSE, ref |-> d]

Resolution(d, r) ==
  [type |-> "resolution", key |-> NoKey, value |-> r, dry |-> FALSE, ref |-> d]

-----------------------------------------------------------------------------
\* Event ids of j that are outcomes (resolutions) of decision d.
OutcomesOf(j, d)    == {i \in 1..Len(j) : j[i].type = "outcome" /\ j[i].ref = d}
ResolutionsOf(j, d) == {i \in 1..Len(j) : j[i].type = "resolution" /\ j[i].ref = d}

Succeeded(j, d) == \E i \in OutcomesOf(j, d) : j[i].value = "succeeded"
Failed(j, d)    == \E i \in OutcomesOf(j, d) : j[i].value = "failed"

\* The last resolution of d says that its side effect did not happen.
Cleared(j, d) ==
  \E i \in ResolutionsOf(j, d) :
    /\ j[i].value = "confirmed_not_completed"
    /\ \A r \in ResolutionsOf(j, d) : r <= i

\* Decisions that let the target run.
IsReservation(j, d) ==
  /\ d \in 1..Len(j)
  /\ j[d].type = "decision"
  /\ j[d].value = "allowed"
  /\ ~j[d].dry

ReservationsOf(j, k) == {d \in 1..Len(j) : IsReservation(j, d) /\ j[d].key = k}

\* Mutant: the loop stops at the first reservation of the key.
Blocking_StopsAtFirst(j, k) ==
  {d \in ReservationsOf(j, k) :
     /\ \A e \in ReservationsOf(j, k) : d <= e
     /\ \/ Succeeded(j, d)
        \/ OutcomesOf(j, d) = {} /\ ~Cleared(j, d)}

(***************************************************************************)
(* The reservations of k that block a new one: succeeded, or without any   *)
(* outcome and not cleared by the operator.  A reservation with only       *)
(* failed outcomes never blocks.                                           *)
(***************************************************************************)
Blocking(j, k) ==
  {d \in ReservationsOf(j, k) :
     \/ Succeeded(j, d)
     \/ OutcomesOf(j, d) = {} /\ ~Cleared(j, d)}

\* The completed prior of the pre-check: it does not look at dry_run.
Completed(j, k) ==
  {d \in 1..Len(j) : /\ j[d].type = "decision"
                     /\ j[d].value = "allowed"
                     /\ j[d].key = k
                     /\ Succeeded(j, d)}

\* The event id reported as duplicate_of: the first in file order, 0 if none.
First(S) == IF S = {} THEN 0 ELSE CHOOSE d \in S : \A e \in S : d <= e
=============================================================================
