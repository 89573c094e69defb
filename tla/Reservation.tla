---------------------------- MODULE Reservation ----------------------------
(***************************************************************************)
(* What an idempotency key promises, without the journal: a key is free,   *)
(* held by an attempt, or done.  An attempt starts only on a free key;     *)
(* done is final.  Guard.tla implements this (its instance Ledger).        *)
(***************************************************************************)
CONSTANTS
  Keys,   \* idempotency keys
  Ids     \* identities of attempts

VARIABLES
  status,    \* per key: "free", "held" or "done"
  attempts   \* per key: the attempts ever started

vars == <<status, attempts>>

(***************************************************************************)
(* Type correctness: a key is free, held or done, and what was attempted   *)
(* under it is a set of attempts (_blocking_prior_from_state).             *)
(***************************************************************************)
TypeOK ==
  /\ status \in [Keys -> {"free", "held", "done"}]
  /\ attempts \in [Keys -> SUBSET Ids]

Init ==
  /\ status = [k \in Keys |-> "free"]
  /\ attempts = [k \in Keys |-> {}]

\* A new attempt reserves a free key.
Acquire(k) ==
  /\ status[k] = "free"
  /\ status' = [status EXCEPT ![k] = "held"]
  /\ \E id \in Ids \ attempts[k] : attempts' = [attempts EXCEPT ![k] = @ \cup {id}]

\* An attempt is recorded as succeeded, even one the operator had given up.
Complete(k) ==
  /\ status[k] # "done"
  /\ status' = [status EXCEPT ![k] = "done"]
  /\ UNCHANGED attempts

\* The holding attempt is recorded as failed, or cleared by the operator.
Release(k) ==
  /\ status[k] = "held"
  /\ status' = [status EXCEPT ![k] = "free"]
  /\ UNCHANGED attempts

\* The operator takes a clearance back: the old attempt holds the key again.
Reclaim(k) ==
  /\ status[k] = "free"
  /\ attempts[k] # {}
  /\ status' = [status EXCEPT ![k] = "held"]
  /\ UNCHANGED attempts

Next == \E k \in Keys : Acquire(k) \/ Complete(k) \/ Release(k) \/ Reclaim(k)

Spec == Init /\ [][Next]_vars
=============================================================================
