------------------------------ MODULE Policies ------------------------------
(***************************************************************************)
(* Composed approval policies (policy.py), as the engine consults them: a  *)
(* provider alone, AllOf, AnyOf or a quorum of providers, attested or not. *)
(* The members are a rule list loaded from a file, an allow list, a        *)
(* predicate, a budget, the freshness gate of the witness, and providers   *)
(* of the caller's that may answer anything, or raise.                     *)
(*                                                                         *)
(* A member decides in one step. Nothing holds the members together: other *)
(* calls, the clock, the witness and the approver's identity change        *)
(* between one member and the next.                                        *)
(***************************************************************************)
EXTENDS Integers, Sequences, FiniteSets, SequencesExt

CONSTANTS
  Threads, Actions, Risks,
  Policies,            \* [mode, members, quorum, attested] to choose from
  RuleFiles,           \* [entries, default] to choose from
  Listed, ListedRisks, \* actions of the allow list, and the risks it is given: all, for none
  Gated,               \* risks of the freshness gate
  Approvers, Nobody, Malformed,
  Limit, MaxAge,       \* max_calls of the budget, max_age_seconds of the gate
  MaxCalls, MaxClock

Kinds == {"rules", "allowlist", "predicate", "budget", "freshness", "custom"}

ASSUME PoliciesAssumption ==
  /\ Listed \subseteq Actions /\ ListedRisks \subseteq Risks /\ Gated \subseteq Risks
  /\ Limit \in Nat /\ MaxAge \in Nat \ {0} /\ MaxCalls \in Nat /\ MaxClock \in Nat
  /\ Nobody \notin Approvers /\ Malformed \notin Approvers
  /\ IsFiniteSet(Threads)
  /\ \A p \in Policies :
       /\ p.mode \in {"one", "all", "any", "quorum"} /\ p.attested \in BOOLEAN
       /\ p.members \in Seq(Kinds) \ {<< >>}
       /\ p.mode = "one" => Len(p.members) = 1
       /\ p.mode = "quorum" => p.quorum \in 1..Len(p.members)
  /\ \A f \in RuleFiles : DOMAIN f.entries = 1..Len(f.entries) /\ Len(f.entries) \in Nat

Answers  == {"allowed", "denied", "raises", "no decision", "invalid"}
Verdicts == {"allowed", "denied", "error"}
Requests == [action : Actions, risk : Risks, approval : {"required", "never"}]
Identity == Approvers \cup {Nobody, Malformed}

VARIABLES
  policy, file,        \* what the process was written with
  loaded,              \* what load_policy_file made of the file
  thread,              \* of each thread: its request and the answers so far
  spent,               \* of the budget
  witness, wall,       \* latest.checkpoint's mtime, or {}; the wall clock
  approver,            \* the environment's variable
  calls,
  since, stepped,      \* history: ticks since the last witness; a clock set back
  log                  \* history: what the engine concluded

vars == <<policy, file, loaded, thread, spent, witness, wall, approver, calls, since, stepped, log>>
world == <<witness, wall, approver, since, stepped>>

Unasked == {}          \* of a thread outside the engine
NoAge   == MaxAge + 1
EmptyFile  == [entries |-> << >>, default |-> "denied"]
Uses(kind) == kind \in ToSet(policy.members)

Init ==
  /\ policy \in Policies
  /\ file \in IF Uses("rules") THEN RuleFiles ELSE {EmptyFile}
  /\ loaded = "no"
  /\ thread = [t \in Threads |-> Unasked]
  /\ spent = 0 /\ calls = 0
  /\ witness = {} /\ wall = 0
  /\ approver \in IF policy.attested THEN Identity ELSE {Nobody}
  /\ since = NoAge /\ stepped = FALSE
  /\ log = << >>

-----------------------------------------------------------------------------
(* A policy file with anything unknown in it is refused as a whole, before *)
(* any call.                                                               *)
WellFormed(f) ==
  /\ f.default \in {"allowed", "denied"}
  /\ \A i \in DOMAIN f.entries :
       /\ f.entries[i].decision \in {"allowed", "denied"}
       /\ f.entries[i].risks \subseteq Risks

\* Mutant: what is not understood is loaded all the same.
LoadPolicy_Lenient ==
  /\ loaded = "no"
  /\ loaded' = "yes"
  /\ UNCHANGED <<policy, file, thread, spent, world, calls, log>>

LoadPolicy ==
  /\ loaded = "no"
  /\ loaded' = IF WellFormed(file) THEN "yes" ELSE "refused"
  /\ UNCHANGED <<policy, file, thread, spent, world, calls, log>>

-----------------------------------------------------------------------------
(* The answers of the members.                                             *)

Matches(rule, r) == r.action \in rule.actions /\ (rule.anyRisk \/ r.risk \in rule.risks)

Matching(r) == {i \in DOMAIN file.entries : Matches(file.entries[i], r)}

\* Mutant: the last matching rule wins.
RuleDecision_Last(r) ==
  IF Matching(r) = {} THEN file.default
  ELSE file.entries[CHOOSE i \in Matching(r) : \A j \in Matching(r) : j <= i].decision

(* The first rule that matches decides.                                    *)
RuleDecision(r) ==
  IF Matching(r) = {} THEN file.default
  ELSE file.entries[CHOOSE i \in Matching(r) : \A j \in Matching(r) : i <= j].decision

OnList(r) == r.action \in Listed /\ r.risk \in ListedRisks

AllowListDecision(r) == IF OnList(r) THEN "allowed" ELSE "denied"

\* Mutant: the limit is passed by one.
BudgetDecision_OffByOne == IF spent > Limit THEN "denied" ELSE "allowed"

BudgetDecision == IF spent >= Limit THEN "denied" ELSE "allowed"

(* A witness from the future counts as new.                                *)
FreshnessDecision(r) ==
  IF r.risk \notin Gated THEN "allowed"
  ELSE IF \E mtime \in witness : wall - mtime <= MaxAge THEN "allowed" ELSE "denied"

PossibleAnswers(kind, r) ==
  CASE kind = "rules"     -> {RuleDecision(r)}
    [] kind = "allowlist" -> {AllowListDecision(r)}
    [] kind = "predicate" -> {"allowed", "denied"}
    [] kind = "budget"    -> {BudgetDecision}
    [] kind = "freshness" -> {FreshnessDecision(r)}
    [] kind = "custom"    -> Answers

-----------------------------------------------------------------------------
(* What the answers so far come to; "more" while another member is asked.  *)

Members == Len(policy.members)

OfOne(said) == Last(said)

OfAll(said) ==
  CASE Last(said) \in {"raises", "no decision"} -> "raises"
    [] Last(said) \in {"denied", "invalid"}     -> "denied"
    [] Last(said) = "allowed" -> IF Len(said) = Members THEN "allowed" ELSE "more"

OfAny(said) ==
  CASE Last(said) \in {"raises", "no decision"} -> "raises"
    [] Last(said) = "allowed"                   -> "allowed"
    [] Last(said) \in {"denied", "invalid"} -> IF Len(said) = Members THEN "denied" ELSE "more"

Count(said, answers) == Cardinality({i \in DOMAIN said : said[i] \in answers})

\* Mutant: a member that raises is counted with those that allow.
OfQuorum_CountsErrors(said) ==
  IF Last(said) = "no decision" THEN "raises"
  ELSE IF Len(said) < Members THEN "more"
  ELSE IF Count(said, {"allowed", "raises"}) >= policy.quorum THEN "allowed" ELSE "denied"

(* Every member is asked; one that raises has not allowed.                 *)
OfQuorum(said) ==
  IF Last(said) = "no decision" THEN "raises"
  ELSE IF Len(said) < Members THEN "more"
  ELSE IF Count(said, {"allowed"}) >= policy.quorum THEN "allowed" ELSE "denied"

Combined(said) ==
  CASE policy.mode = "one"    -> OfOne(said)
    [] policy.mode = "all"    -> OfAll(said)
    [] policy.mode = "any"    -> OfAny(said)
    [] policy.mode = "quorum" -> OfQuorum(said)

\* Mutant: what a provider says is recorded as it is.
Verdict_Raw(answer) == answer

(* The engine takes nothing but the two decisions for an answer.           *)
Verdict(answer) == IF answer \in {"allowed", "denied"} THEN answer ELSE "error"

-----------------------------------------------------------------------------
Conclude(t, call, verdict, by) ==
  /\ thread' = [thread EXCEPT ![t] = Unasked]
  /\ log' = Append(log, [request |-> call.request, said |-> call.said, age |-> call.age, back |-> call.back,
                         verdict |-> verdict, by |-> by])

Ask(t) ==
  /\ loaded = "yes" /\ thread[t] = Unasked /\ calls < MaxCalls
  /\ calls' = calls + 1
  /\ \E r \in Requests :
       LET call == [request |-> r, said |-> << >>, age |-> NoAge, back |-> FALSE, pc |-> "consult"] IN
       IF r.approval = "never"
       THEN Conclude(t, call, "error", Nobody)
       ELSE thread' = [thread EXCEPT ![t] = {call}] /\ UNCHANGED log
  /\ UNCHANGED <<policy, file, loaded, spent, world>>

Charge(kind, answer) ==
  spent' = IF kind = "budget" /\ answer = "allowed" THEN spent + 1 ELSE spent

(* The next member is asked, and the answers are looked at.                *)
Consult(t) == \E call \in thread[t] :
  LET kind == policy.members[Len(call.said) + 1] IN
  /\ call.pc = "consult"
  /\ \E answer \in PossibleAnswers(kind, call.request) :
       LET said == Append(call.said, answer)
           told == IF kind = "freshness" THEN [call EXCEPT !.said = said, !.age = since, !.back = stepped]
                                     ELSE [call EXCEPT !.said = said]
           so   == Combined(said)
       IN /\ Charge(kind, answer)
          /\ CASE so = "more" -> thread' = [thread EXCEPT ![t] = {told}] /\ UNCHANGED log
               [] so = "allowed" /\ policy.attested ->
                    thread' = [thread EXCEPT ![t] = {[told EXCEPT !.pc = "attest"]}] /\ UNCHANGED log
               [] OTHER -> Conclude(t, told, Verdict(so), Nobody)
  /\ UNCHANGED <<policy, file, loaded, calls, world>>

\* Mutant: an allowance without an identity passes unstamped.
Attest_Unstamped(t) == \E call \in thread[t] :
  /\ call.pc = "attest"
  /\ Conclude(t, call, "allowed", approver)
  /\ UNCHANGED <<policy, file, loaded, spent, calls, world>>

(* An allowance is stamped with the approver's identity, or denied.        *)
Attest(t) == \E call \in thread[t] :
  /\ call.pc = "attest"
  /\ IF approver \in Approvers THEN Conclude(t, call, "allowed", approver)
                               ELSE Conclude(t, call, "denied", Nobody)
  /\ UNCHANGED <<policy, file, loaded, spent, calls, world>>

-----------------------------------------------------------------------------
(* The world beside the calls.                                             *)
Beside == UNCHANGED <<policy, file, loaded, thread, spent, calls, log>>

Tick ==
  /\ wall < MaxClock /\ Uses("freshness")
  /\ wall' = wall + 1
  /\ since' = IF since < NoAge THEN since + 1 ELSE since
  /\ UNCHANGED <<witness, approver, stepped>> /\ Beside

SetBack ==
  /\ wall > 0 /\ ~stepped /\ Uses("freshness")
  /\ wall' = 0 /\ stepped' = TRUE
  /\ UNCHANGED <<witness, approver, since>> /\ Beside

ShipWitness ==
  /\ Uses("freshness")
  /\ witness' = {wall} /\ since' = 0
  /\ UNCHANGED <<wall, approver, stepped>> /\ Beside

LoseWitness ==
  /\ witness # {}
  /\ witness' = {}
  /\ UNCHANGED <<wall, approver, since, stepped>> /\ Beside

SetApprover ==
  /\ policy.attested
  /\ approver' \in Identity \ {approver}
  /\ UNCHANGED <<witness, wall, since, stepped>> /\ Beside

Next ==
  \/ LoadPolicy
  \/ \E t \in Threads : Ask(t) \/ Consult(t) \/ Attest(t)
  \/ Tick \/ SetBack \/ ShipWitness \/ LoseWitness \/ SetApprover

Spec == Init /\ [][Next]_vars

-----------------------------------------------------------------------------
Calls == [request : Requests, said : Seq(Answers), age : 0..NoAge, back : BOOLEAN,
          pc : {"consult", "attest"}]

(***************************************************************************)
(* Type correctness: a call in the engine has answers of at most one member *)
(* less than there are, and what is concluded is one of the verdicts       *)
(* (CombinedProvider, _evaluate_approval).                                 *)
(***************************************************************************)
TypeOK ==
  /\ policy \in Policies
  /\ loaded \in {"no", "yes", "refused"}
  /\ \A t \in Threads :
       /\ thread[t] \subseteq Calls /\ Cardinality(thread[t]) <= 1
       /\ \A call \in thread[t] : call.pc = "consult" => Len(call.said) < Members
  /\ spent \in Nat /\ witness \subseteq 0..MaxClock /\ wall \in 0..MaxClock
  /\ approver \in Identity /\ calls \in 0..MaxCalls /\ since \in 0..NoAge
  /\ \A i \in DOMAIN log : log[i].verdict \in Verdicts

AllowedCalls == {i \in DOMAIN log : log[i].verdict = "allowed"}

(* A member without whose allowance the policy cannot allow.               *)
Required(kind) ==
  /\ Uses(kind)
  /\ policy.mode \in {"one", "all"} \/ (policy.mode = "quorum" /\ policy.quorum = Members)

(***************************************************************************)
(* The engine allows a call only on the word of enough members, each of    *)
(* them asked, and under a name if the policy is attested; what a member   *)
(* raises or fails to answer ends the call unless a quorum does without    *)
(* it, and under a policy file that is refused nothing is allowed at all   *)
(* (CombinedProvider, QuorumApprovalProvider, AttestedApprovalProvider,    *)
(* load_policy_file, _evaluate_approval).                                  *)
(***************************************************************************)
Enough(said) ==
  CASE policy.mode = "one"    -> said = <<"allowed">>
    [] policy.mode = "all"    -> Len(said) = Members /\ ToSet(said) = {"allowed"}
    [] policy.mode = "any"    -> "allowed" \in ToSet(said) /\ ToSet(said) \subseteq {"allowed", "denied", "invalid"}
    [] policy.mode = "quorum" -> /\ Len(said) = Members /\ "no decision" \notin ToSet(said)
                                 /\ Count(said, {"allowed"}) >= policy.quorum

FailsClosed ==
  /\ \A i \in AllowedCalls :
       /\ log[i].request.approval = "required"
       /\ Enough(log[i].said)
       /\ policy.attested => log[i].by \in Approvers
  /\ ~WellFormed(file) => log = << >>

(***************************************************************************)
(* A call allowed by a policy that requires a gate passed it as the gate   *)
(* is written: the first rule that matches allowed it, its action and risk *)
(* are listed, and at a gated risk a witness had left the host no longer   *)
(* than max_age ago, unless somebody set the clock back (RuleProvider,     *)
(* AllowListProvider, WitnessFreshnessProvider).                           *)
(***************************************************************************)
RulesAllow(r) ==
  \/ Matching(r) = {} /\ file.default = "allowed"
  \/ \E i \in Matching(r) : file.entries[i].decision = "allowed" /\ \A j \in Matching(r) : i <= j

GatesHold ==
  \A i \in AllowedCalls : LET r == log[i].request IN
    /\ Required("rules") => RulesAllow(r)
    /\ Required("allowlist") => r.action \in Listed /\ r.risk \in ListedRisks
    /\ Required("freshness") /\ r.risk \in Gated /\ ~log[i].back => log[i].age <= MaxAge

(***************************************************************************)
(* A budget that a policy requires has been charged for every call that is *)
(* allowed, however the calls interleave; asked last, not before, and not  *)
(* attested, it is charged for those only. "Each allowance consumes one    *)
(* unit": a member that denies after the budget has allowed leaves a unit  *)
(* consumed (BudgetProvider in CombinedProvider and                        *)
(* QuorumApprovalProvider).                                                *)
(***************************************************************************)
AskedLast(kind) == \A i \in 1..Members : policy.members[i] = kind <=> i = Members

BudgetCoversAllowed ==
  /\ spent <= Limit
  /\ Required("budget") => Cardinality(AllowedCalls) <= spent
  /\ (policy.mode \in {"one", "all"} /\ AskedLast("budget") /\ ~policy.attested)
       => Cardinality(AllowedCalls) = spent
=============================================================================
