------------------------------- MODULE Audit -------------------------------
(***************************************************************************)
(* What `tesera audit` reads out of a verified journal (tesera/audit.py):  *)
(* the status of every invocation and the semantic issues.  Event ids and  *)
(* action identities are unique by construction of the journal here, so    *)
(* duplicate_event_id and outcome_identity_mismatch cannot be expressed.   *)
(***************************************************************************)
EXTENDS Journal

DecisionsOf(j) == {d \in 1..Len(j) : j[d].type = "decision"}

Allowed(j, d) == j[d].value = "allowed"

\* The events of one type that refer to something that is no decision of j.
Orphans(j, type) ==
  {i \in 1..Len(j) : j[i].type = type /\ j[i].ref \notin DecisionsOf(j)}

\* The latest resolution of d, "none" without one.
LatestResolution(j, d) ==
  LET linked == ResolutionsOf(j, d)
  IN  IF linked = {} THEN "none"
      ELSE j[CHOOSE i \in linked : \A r \in linked : r <= i].value

\* The status of d's outcome when d has exactly one, else "none".
SoleOutcome(j, d) ==
  LET linked == OutcomesOf(j, d)
  IN  IF Cardinality(linked) = 1 THEN j[CHOOSE i \in linked : TRUE].value ELSE "none"

\* The first rule that applies names the status.
StatusOf(j, d) ==
  LET outcome    == SoleOutcome(j, d)
      resolution == LatestResolution(j, d)
  IN  CASE Allowed(j, d) /\ j[d].dry /\ outcome = "none"       -> "dry_run"
        [] ~Allowed(j, d) /\ OutcomesOf(j, d) = {}             -> "denied"
        [] ~Allowed(j, d) /\ OutcomesOf(j, d) # {}             -> "needs_reconciliation"
        [] Allowed(j, d) /\ ~(j[d].dry /\ outcome = "none")    ->
             CASE outcome = "succeeded" ->
                    IF resolution = "none" THEN "succeeded" ELSE "needs_reconciliation"
               [] outcome # "succeeded" ->
                    CASE resolution = "confirmed_completed"     -> "resolved_completed"
                      [] resolution = "confirmed_not_completed" -> "resolved_not_completed"
                      [] resolution = "none" ->
                           IF outcome = "failed" THEN "failed" ELSE "needs_reconciliation"

ResolutionIssues(j) ==
  LET known == {i \in 1..Len(j) : j[i].type = "resolution"} \ Orphans(j, "resolution")
  IN  [code : {"orphan_resolution"}, id : Orphans(j, "resolution")]
      \cup {[code |-> "conflicting_resolution", id |-> j[i].ref] :
              i \in {i \in known : \E r \in known :
                       j[r].ref = j[i].ref /\ j[r].value # j[i].value}}
      \cup [code : {"resolution_before_decision"}, id : {i \in known : i <= j[i].ref}]

OutcomeIssues(j) ==
  LET known == {i \in 1..Len(j) : j[i].type = "outcome"} \ Orphans(j, "outcome")
  IN  [code : {"orphan_outcome"}, id : Orphans(j, "outcome")]
      \cup {[code |-> "duplicate_outcome", id |-> j[i].ref] :
              i \in {i \in known : Cardinality(OutcomesOf(j, j[i].ref)) > 1}}
      \cup [code : {"outcome_before_decision"}, id : {i \in known : i <= j[i].ref}]
      \cup [code : {"outcome_for_denied_decision"}, id : {i \in known : ~Allowed(j, j[i].ref)}]

\* Mutant: only the resolution that says otherwise is not reported.
ContradictedSuccesses_Agreeing(j) ==
  [code : {"conflicting_resolution"},
   id   : {d \in DecisionsOf(j) : /\ Allowed(j, d)
                                  /\ SoleOutcome(j, d) = "succeeded"
                                  /\ LatestResolution(j, d) = "confirmed_completed"}]

\* A resolution on a decision with a succeeded outcome is never cleared.
ContradictedSuccesses(j) ==
  [code : {"conflicting_resolution"},
   id   : {d \in DecisionsOf(j) : /\ Allowed(j, d)
                                  /\ SoleOutcome(j, d) = "succeeded"
                                  /\ LatestResolution(j, d) # "none"}]

\* Two invocations of one key that both read succeeded: the later is flagged.
DuplicateKeyIssues(j) ==
  LET done == {d \in DecisionsOf(j) : j[d].key # NoKey /\ StatusOf(j, d) = "succeeded"}
  IN  [code : {"duplicate_idempotency_key"},
       id   : {d \in done : \E e \in done : e < d /\ j[e].key = j[d].key}]

Issues(j) ==
  ResolutionIssues(j) \cup OutcomeIssues(j) \cup ContradictedSuccesses(j)
    \cup DuplicateKeyIssues(j)
=============================================================================
