---------------------------- MODULE AuditedGuard ----------------------------
(***************************************************************************)
(* The guarded call together with the audit: what `tesera audit` must say  *)
(* of the journals that the engine and the operators write.                *)
(***************************************************************************)
EXTENDS Guard, Audit

(***************************************************************************)
(* Of a journal the engine and the operator wrote the audit reports no     *)
(* structural issue (nothing orphaned, doubled, before its decision or     *)
(* under a denied one), only resolutions contradicted and keys that        *)
(* succeeded twice.  It never reads a run as something better than it      *)
(* was: a run whose outcome was lost stays open                            *)
(* until an operator resolves it, and "succeeded" is only said of a run    *)
(* that returned (audit_verified_snapshot; REVIEW_GUIDE: a crash must read *)
(* needs_reconciliation, never success).                                   *)
(***************************************************************************)
AuditReadsTrue ==
  /\ \A issue \in Issues(journal) :
       issue.code \in {"conflicting_resolution", "duplicate_idempotency_key"}
  /\ \A d \in DecisionsOf(journal) : StatusOf(journal, d) = "succeeded" =>
       [id |-> d, result |-> "succeeded"] \in runs
  /\ \A r \in runs :
       OutcomesOf(journal, r.id) = {} /\ ResolutionsOf(journal, r.id) = {}
         => StatusOf(journal, r.id) = "needs_reconciliation"

(***************************************************************************)
(* When one key is recorded as succeeded twice, which takes an operator    *)
(* who cleared a call still in flight, the audit never reads clean: it     *)
(* flags the first success as contradicted by its resolution               *)
(* (audit_verified_snapshot, conflicting_resolution).  The documents       *)
(* promise another code for this case: DoubleSuccessIsReported.            *)
(***************************************************************************)
DoubleSuccessIsFlagged ==
  \A k \in Keys : \A d, e \in ReservationsOf(journal, k) :
    d < e /\ Succeeded(journal, d) /\ Succeeded(journal, e)
      => [code |-> "conflicting_resolution", id |-> d] \in Issues(journal)

(***************************************************************************)
(* "Two `succeeded` outcomes under the same (action_name, idempotency_key) *)
(* are reported as a `duplicate_idempotency_key` issue"                    *)
(* (EVIDENCE_FORMAT.md; audit.py's last pass over the invocations).        *)
(***************************************************************************)
DoubleSuccessIsReported ==
  \A k \in Keys : \A d, e \in ReservationsOf(journal, k) :
    d < e /\ Succeeded(journal, d) /\ Succeeded(journal, e)
      => \E issue \in Issues(journal) : issue.code = "duplicate_idempotency_key"

(***************************************************************************)
(* "resolved_completed (side effect confirmed, do not retry)": while the   *)
(* audit reads an invocation so, no new reservation of its key is made.    *)
(***************************************************************************)
ResolvedCompletedBlocks ==
  [][\A k \in Keys :
       (\E d \in ReservationsOf(journal, k) : StatusOf(journal, d) = "resolved_completed")
         => ReservationsOf(journal', k) = ReservationsOf(journal, k)]_vars
=============================================================================
