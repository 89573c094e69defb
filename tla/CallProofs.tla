----------------------------- MODULE CallProofs -----------------------------
(***************************************************************************)
(* What one guarded call may do, and what its records tell.                *)
(*                                                                         *)
(* The composed policies of policy.py keep their promises, for any         *)
(* policies, rule files, threads and bounds that PoliciesAssumption allows.*)
(* A call is followed from its first answer to its verdict: each answer    *)
(* that allows was right when it was given (Passed, Recent), what is still *)
(* open has been settled by none of them (Open), and what is allowed is    *)
(* carried by enough (Carried). A thread that the budget has charged, and  *)
(* a call allowed that it charged, each have a unit of what is spent.      *)
(*                                                                         *)
(* The records of the call (Disclosure) tell nothing that was removed, for *)
(* any arguments, names and patterns that DisclosureAssumption and         *)
(* HeapAssumption allow. The walk over the arguments is a recursion on the *)
(* levels left, found by the least level without one; every layer of it    *)
(* holds forms that are clean (Forms). The error text is scrubbed value by *)
(* value: with the longest replaced, those left are still whole between    *)
(* their quotes (Errors), until nothing but markers is left. DInv says     *)
(* what each record was made from, and a reader's report follows.          *)
(***************************************************************************)
EXTENDS Policies, Disclosure, FiniteSetTheorems, WellFoundedInduction, TLAPS

Less == {ss \in Nat \X Nat : ss[1] < ss[2]}

\* Every non-empty set of naturals has a least member.
LEMMA LeastNatural ==
  ASSUME NEW S, S \subseteq Nat, S # {}
  PROVE  \E d \in S : \A e \in S : d <= e
  <1>1. IsWellFoundedOn(Less, Nat)
    BY NatLessThanWellFounded DEF OpToRel, Less
  <1>2. PICK d \in S : \A e \in S : ~ (<<e, d>> \in Less)
    BY <1>1, WFMin
  <1>3. ASSUME NEW e \in S PROVE d <= e
    <2>1. <<e, d>> \in Nat \X Nat /\ <<e, d>>[1] = e /\ <<e, d>>[2] = d
      OBVIOUS
    <2>2. ~(e < d)
      BY <1>2, <2>1, Zenon DEF Less
    <2> QED
      BY <2>2
  <1> QED
    BY <1>3

-----------------------------------------------------------------------------
\* What has been said so far when the next member is asked.
Open(p, said) ==
  /\ Len(said) < Len(p.members)
  /\ p.mode = "all" => \A i \in DOMAIN said : said[i] = "allowed"
  /\ p.mode = "any" => \A i \in DOMAIN said : said[i] \in {"denied", "invalid"}
  /\ p.mode = "quorum" => \A i \in DOMAIN said : said[i] # "no decision"

\* What has been said when a call is allowed.
Carried(p, said) ==
  /\ p.mode = "one" => Len(said) = 1 /\ said[1] = "allowed"
  /\ p.mode = "all" => Len(said) = Len(p.members) /\ \A i \in DOMAIN said : said[i] = "allowed"
  /\ p.mode = "any" => /\ \E i \in DOMAIN said : said[i] = "allowed"
                       /\ \A i \in DOMAIN said : said[i] \in {"allowed", "denied", "invalid"}
  /\ p.mode = "quorum" => /\ Len(said) = Len(p.members) /\ \A i \in DOMAIN said : said[i] # "no decision"
                          /\ Cardinality({i \in DOMAIN said : said[i] = "allowed"}) >= p.quorum

\* What the rules of the file f say of the request r.
MatchingIn(f, r) == {i \in DOMAIN f.entries : Matches(f.entries[i], r)}

RulesAllowIn(f, r) ==
  \/ MatchingIn(f, r) = {} /\ f.default = "allowed"
  \/ \E i \in MatchingIn(f, r) : f.entries[i].decision = "allowed" /\ \A j \in MatchingIn(f, r) : i <= j

\* Whatever has allowed was right to: a rule, the list, and the gate whenever it was asked.
Passed(p, f, r, said) ==
  \A i \in DOMAIN said : said[i] = "allowed" =>
    /\ p.members[i] = "rules" => RulesAllowIn(f, r)
    /\ p.members[i] = "allowlist" => OnList(r)

Recent(p, r, said, age, back) ==
  (/\ \E i \in DOMAIN said : p.members[i] = "freshness"
   /\ \A i \in DOMAIN said : p.members[i] = "freshness" => said[i] = "allowed"
   /\ r.risk \in Gated /\ ~back) => age <= MaxAge

Paid(p, said) == \E i \in DOMAIN said : p.members[i] = "budget" /\ said[i] = "allowed"

CallGood(p, f, call) ==
  /\ call \in Calls /\ call.request.approval = "required"
  /\ call.pc = "consult" => Open(p, call.said)
  /\ call.pc = "attest" => p.attested /\ Carried(p, call.said)
  /\ Len(call.said) <= Len(p.members)
  /\ Passed(p, f, call.request, call.said)
  /\ Recent(p, call.request, call.said, call.age, call.back)

Entries == [request : Requests, said : Seq(Answers), age : 0..NoAge, back : BOOLEAN,
            verdict : Verdicts, by : Identity]

EntryGood(p, f, e) ==
  e.verdict = "allowed" =>
    /\ e.request.approval = "required" /\ Carried(p, e.said)
    /\ p.attested => e.by \in Approvers
    /\ Len(e.said) <= Len(p.members)
    /\ Passed(p, f, e.request, e.said)
    /\ Recent(p, e.request, e.said, e.age, e.back)

WorldGood ==
  /\ witness \subseteq 0..MaxClock /\ wall \in 0..MaxClock
  /\ approver \in Identity /\ since \in 0..NoAge /\ stepped \in BOOLEAN
  /\ ~stepped => \A mtime \in witness : since <= wall - mtime

StoryGood ==
  /\ policy \in Policies /\ DOMAIN file.entries = 1..Len(file.entries) /\ Len(file.entries) \in Nat
  /\ loaded \in {"no", "yes", "refused"} /\ calls \in 0..MaxCalls
  /\ loaded = "yes" => WellFormed(file)
  /\ loaded # "yes" => log = << >> /\ \A t \in Threads : thread[t] = {}
  /\ thread \in [Threads -> SUBSET Calls]
  /\ \A t \in Threads : thread[t] = {} \/ \E call : thread[t] = {call} /\ CallGood(policy, file, call)
  /\ log \in Seq(Entries)
  /\ \A i \in DOMAIN log : EntryGood(policy, file, log[i])

AllowedIn(l) == {i \in DOMAIN l : l[i].verdict = "allowed"}
Backed(p, l) == {i \in AllowedIn(l) : Paid(p, l[i].said)}
Pending(p, th) == {t \in Threads : \E call \in th[t] : Paid(p, call.said)}

BudgetOnlyLast(p) ==
  /\ p.mode \in {"one", "all"} /\ ~p.attested
  /\ \A i \in 1..Len(p.members) : p.members[i] = "budget" <=> i = Len(p.members)

BudgetGood ==
  /\ spent \in 0..Limit
  /\ Cardinality(Backed(policy, log)) + Cardinality(Pending(policy, thread)) <= spent
  /\ BudgetOnlyLast(policy) => Cardinality(AllowedIn(log)) = spent

PInv == StoryGood /\ WorldGood /\ BudgetGood

-----------------------------------------------------------------------------
\* A policy as its constructors let it be built.
LEMMA PolicyFacts ==
  ASSUME NEW p \in Policies
  PROVE  /\ p.mode \in {"one", "all", "any", "quorum"} /\ p.attested \in BOOLEAN
         /\ p.members \in Seq(Kinds) /\ Len(p.members) \in Nat \ {0}
         /\ \A i \in 1..Len(p.members) : p.members[i] \in Kinds
         /\ p.mode = "one" => Len(p.members) = 1
         /\ p.mode = "quorum" => p.quorum \in 1..Len(p.members)
  <1>1. p.members \in Seq(Kinds) /\ p.members # << >>
    BY PoliciesAssumption
  <1>2. Len(p.members) \in Nat \ {0}
    BY <1>1
  <1>3. \A i \in 1..Len(p.members) : p.members[i] \in Kinds
    BY <1>1
  <1> QED
    BY <1>1, <1>2, <1>3, PoliciesAssumption

LEMMA BoundFacts ==
  /\ Limit \in Nat /\ MaxAge \in Nat /\ MaxCalls \in Nat /\ MaxClock \in Nat
  /\ NoAge \in Nat /\ MaxAge < NoAge /\ IsFiniteSet(Threads)
  BY PoliciesAssumption DEF NoAge

\* The answers are those so far, and one more.
Grown(said, a, more) ==
  /\ Len(said) \in Nat /\ DOMAIN said = 1..Len(said)
  /\ Len(more) = Len(said) + 1 /\ DOMAIN more = 1..Len(more)
  /\ Last(more) = a /\ more[Len(more)] = a
  /\ \A i \in DOMAIN said : i \in DOMAIN more /\ more[i] = said[i]
  /\ \A i \in DOMAIN more : (i \in DOMAIN said /\ more[i] = said[i]) \/ (i = Len(more) /\ more[i] = a)

\* Appending an answer grows the answers by it.
LEMMA AnswersGrow ==
  ASSUME NEW said \in Seq(Answers), NEW a \in Answers
  PROVE  Append(said, a) \in Seq(Answers) /\ Grown(said, a, Append(said, a))
  <1>1. PICK more : more = Append(said, a)
    OBVIOUS
  <1>2. /\ more \in Seq(Answers) /\ Len(more) = Len(said) + 1 /\ Len(said) \in Nat
        /\ more[Len(more)] = a /\ Last(more) = a
        /\ DOMAIN more = 1..Len(more) /\ DOMAIN said = 1..Len(said)
    BY <1>1 DEF Last
  <1>3. \A i \in DOMAIN said : i \in DOMAIN more /\ more[i] = said[i]
    BY <1>1, <1>2
  <1>4. \A i \in DOMAIN more : (i \in DOMAIN said /\ more[i] = said[i]) \/ (i = Len(more) /\ more[i] = a)
    BY <1>1, <1>2
  <1> QED
    BY <1>1, <1>2, <1>3, <1>4 DEF Grown

\* While the next member is to be asked, nothing said so far has settled the call.
LEMMA MoreIsOpen ==
  ASSUME policy \in Policies, NEW said, NEW a \in Answers, Open(policy, said),
         NEW more, Grown(said, a, more), Combined(more) = "more"
  PROVE  Open(policy, more)
  <1>1. PICK p \in Policies : p = policy
    OBVIOUS
  <1>2. /\ Len(more) = Len(said) + 1 /\ Last(more) = a
        /\ Len(said) \in Nat /\ Len(more) \in Nat /\ Members = Len(p.members) /\ Len(p.members) \in Nat
        /\ \A i \in DOMAIN more : (i \in DOMAIN said /\ more[i] = said[i]) \/ more[i] = a
    <2>1. Members = Len(p.members) /\ Len(p.members) \in Nat
      BY <1>1, PolicyFacts DEF Members
    <2>2. /\ Len(more) = Len(said) + 1 /\ Last(more) = a /\ more[Len(more)] = a
          /\ Len(said) \in Nat /\ DOMAIN more = 1..Len(more)
          /\ \A i \in DOMAIN more : (i \in DOMAIN said /\ more[i] = said[i]) \/ more[i] = a
      BY DEF Grown
    <2> QED
      BY <2>1, <2>2
  <1>3. p.mode \in {"one", "all", "any", "quorum"}
    BY PolicyFacts
  <1>4. CASE p.mode = "one"
    <2>1. a = "more"
      BY <1>1, <1>2, <1>4 DEF Combined, OfOne
    <2> QED
      BY <2>1 DEF Answers
  <1>5. CASE p.mode = "all"
    <2>1. OfAll(more) = "more"
      BY <1>1, <1>5 DEF Combined
    <2>2. a = "allowed" /\ Len(more) # Members
      BY <1>2, <2>1 DEF OfAll, Answers
    <2> QED
      BY <1>1, <1>2, <1>5, <2>2, PolicyFacts DEF Open, Members
  <1>6. CASE p.mode = "any"
    <2>1. OfAny(more) = "more"
      BY <1>1, <1>6 DEF Combined
    <2>2. a \in {"denied", "invalid"} /\ Len(more) # Members
      BY <1>2, <2>1 DEF OfAny, Answers
    <2> QED
      BY <1>1, <1>2, <1>6, <2>2, PolicyFacts DEF Open, Members
  <1>7. CASE p.mode = "quorum"
    <2>1. OfQuorum(more) = "more"
      BY <1>1, <1>7 DEF Combined
    <2>2. a # "no decision"
      <3>1. a = "no decision" => OfQuorum(more) = "raises"
        BY <1>2 DEF OfQuorum
      <3> QED
        BY <2>1, <3>1
    <2>3. Len(more) < Members
      BY <1>2, <2>1, <2>2 DEF OfQuorum
    <2> QED
      BY <1>1, <1>2, <1>7, <2>2, <2>3 DEF Open
  <1> QED
    BY <1>3, <1>4, <1>5, <1>6, <1>7

\* A combination allows only what enough members carry.
LEMMA AllowedIsCarried ==
  ASSUME policy \in Policies, NEW said, NEW a \in Answers, Open(policy, said),
         NEW more, Grown(said, a, more), Combined(more) = "allowed"
  PROVE  Carried(policy, more)
  <1>1. PICK p \in Policies : p = policy
    OBVIOUS
  <1>2. /\ Len(more) = Len(said) + 1 /\ Last(more) = a
        /\ more[Len(more)] = a /\ Len(more) \in DOMAIN more
        /\ Len(said) \in Nat /\ Len(more) \in Nat /\ Members = Len(p.members) /\ Len(p.members) \in Nat
        /\ \A i \in DOMAIN more : (i \in DOMAIN said /\ more[i] = said[i]) \/ more[i] = a
    <2>1. Members = Len(p.members) /\ Len(p.members) \in Nat
      BY <1>1, PolicyFacts DEF Members
    <2>2. /\ Len(more) = Len(said) + 1 /\ Last(more) = a /\ more[Len(more)] = a
          /\ Len(said) \in Nat /\ DOMAIN more = 1..Len(more)
          /\ \A i \in DOMAIN more : (i \in DOMAIN said /\ more[i] = said[i]) \/ more[i] = a
      BY DEF Grown
    <2> QED
      BY <2>1, <2>2
  <1>3. p.mode \in {"one", "all", "any", "quorum"}
    BY PolicyFacts
  <1>4. CASE p.mode = "one"
    <2>1. a = "allowed"
      BY <1>1, <1>2, <1>4 DEF Combined, OfOne
    <2>2. Len(said) = 0
      BY <1>1, <1>4, PolicyFacts DEF Open
    <2> QED
      BY <1>1, <1>2, <1>4, <2>1, <2>2 DEF Carried
  <1>5. CASE p.mode = "all"
    <2>1. OfAll(more) = "allowed"
      BY <1>1, <1>5 DEF Combined
    <2>2. a = "allowed"
      <3>1. a \in {"raises", "no decision"} => OfAll(more) = "raises"
        BY <1>2 DEF OfAll
      <3>2. a \in {"denied", "invalid"} => OfAll(more) = "denied"
        BY <1>2 DEF OfAll
      <3> QED
        BY <2>1, <3>1, <3>2 DEF Answers
    <2>3. Len(more) = Members
      BY <1>2, <2>1, <2>2 DEF OfAll
    <2> QED
      BY <1>1, <1>2, <1>5, <2>2, <2>3 DEF Open, Carried
  <1>6. CASE p.mode = "any"
    <2>1. OfAny(more) = "allowed"
      BY <1>1, <1>6 DEF Combined
    <2>2. a = "allowed"
      BY <1>2, <2>1 DEF OfAny, Answers
    <2>3. \A i \in DOMAIN said : said[i] \in {"denied", "invalid"}
      BY <1>1, <1>6 DEF Open
    <2>4. \A i \in DOMAIN more : more[i] \in {"allowed", "denied", "invalid"}
      BY <1>2, <2>2, <2>3
    <2>5. \E i \in DOMAIN more : more[i] = "allowed"
      BY <1>2, <2>2
    <2> QED
      BY <1>1, <1>6, <2>4, <2>5 DEF Carried
  <1>7. CASE p.mode = "quorum"
    <2>1. OfQuorum(more) = "allowed"
      BY <1>1, <1>7 DEF Combined
    <2>2. /\ a # "no decision" /\ ~(Len(more) < Members)
          /\ Count(more, {"allowed"}) >= p.quorum
      BY <1>1, <1>2, <2>1 DEF OfQuorum, Answers
    <2>3. Len(more) = Len(p.members)
      <3>1. Len(said) < Len(p.members)
        BY <1>1 DEF Open
      <3>2. ~(Len(more) < Len(p.members))
        BY <1>2, <2>2
      <3>3. Len(more) = Len(said) + 1 /\ Len(said) \in Nat /\ Len(p.members) \in Nat
        BY <1>2
      <3> QED
        BY <3>1, <3>2, <3>3
    <2>4. {i \in DOMAIN more : more[i] \in {"allowed"}} = {i \in DOMAIN more : more[i] = "allowed"}
      OBVIOUS
    <2>5. Cardinality({i \in DOMAIN more : more[i] = "allowed"}) >= p.quorum
      BY <2>2, <2>4 DEF Count
    <2>6. \A i \in DOMAIN more : more[i] # "no decision"
      BY <1>1, <1>2, <1>7, <2>2 DEF Open
    <2> QED
      BY <1>1, <1>7, <2>3, <2>5, <2>6 DEF Carried
  <1> QED
    BY <1>3, <1>4, <1>5, <1>6, <1>7

\* What is carried is what FailsClosed asks for.
LEMMA CarriedIsEnough ==
  ASSUME policy \in Policies, NEW said \in Seq(Answers), Carried(policy, said)
  PROVE  Enough(said)
  <1>1. PICK p \in Policies : p = policy
    OBVIOUS
  <1>2. p.mode \in {"one", "all", "any", "quorum"} /\ Len(p.members) \in Nat \ {0}
    BY PolicyFacts
  <1>3. ToSet(said) = {said[i] : i \in DOMAIN said}
    BY DEF ToSet
  <1>4. CASE p.mode = "one"
    <2>1. Len(said) = 1 /\ said[1] = "allowed"
      BY <1>1, <1>4 DEF Carried
    <2>2. said = <<"allowed">>
      BY <2>1
    <2> QED
      BY <1>1, <1>4, <2>2 DEF Enough
  <1>5. CASE p.mode = "all"
    <2>1. Len(said) = Members /\ \A i \in DOMAIN said : said[i] = "allowed"
      BY <1>1, <1>5 DEF Carried, Members
    <2>2. 1 \in DOMAIN said
      BY <1>1, <1>2, <2>1 DEF Members
    <2>3. ToSet(said) = {"allowed"}
      BY <1>3, <2>1, <2>2
    <2> QED
      BY <1>1, <1>5, <2>1, <2>3 DEF Enough
  <1>6. CASE p.mode = "any"
    <2>1. /\ \E i \in DOMAIN said : said[i] = "allowed"
          /\ \A i \in DOMAIN said : said[i] \in {"allowed", "denied", "invalid"}
      BY <1>1, <1>6 DEF Carried
    <2>2. "allowed" \in ToSet(said) /\ ToSet(said) \subseteq {"allowed", "denied", "invalid"}
      BY <1>3, <2>1
    <2> QED
      BY <1>1, <1>6, <2>2 DEF Enough
  <1>7. CASE p.mode = "quorum"
    <2>1. /\ Len(said) = Members /\ \A i \in DOMAIN said : said[i] # "no decision"
          /\ Cardinality({i \in DOMAIN said : said[i] = "allowed"}) >= p.quorum
      BY <1>1, <1>7 DEF Carried, Members
    <2>2. {i \in DOMAIN said : said[i] \in {"allowed"}} = {i \in DOMAIN said : said[i] = "allowed"}
      OBVIOUS
    <2>3. Count(said, {"allowed"}) >= policy.quorum
      BY <1>1, <2>1, <2>2 DEF Count
    <2>4. "no decision" \notin ToSet(said)
      BY <1>3, <2>1
    <2> QED
      BY <1>1, <1>7, <2>1, <2>3, <2>4 DEF Enough
  <1> QED
    BY <1>2, <1>4, <1>5, <1>6, <1>7

\* A policy that requires a member carries nothing that the member has not allowed.
LEMMA RequiredHasAllowed ==
  ASSUME policy \in Policies, NEW said \in Seq(Answers), Carried(policy, said), NEW kind, Required(kind)
  PROVE  /\ Len(said) = Len(policy.members) /\ \A i \in DOMAIN said : said[i] = "allowed"
         /\ \E i \in DOMAIN said : policy.members[i] = kind
  <1>1. PICK p \in Policies : p = policy
    OBVIOUS
  <1>2. p.members \in Seq(Kinds) /\ Len(p.members) \in Nat
    BY PolicyFacts
  <1>3. PICK i \in DOMAIN p.members : p.members[i] = kind
    BY <1>1 DEF Required, Uses, ToSet
  <1>4. p.mode \in {"one", "all"} \/ (p.mode = "quorum" /\ p.quorum = Len(p.members))
    BY <1>1 DEF Required, Members
  <1>5. Len(said) = Len(p.members) /\ \A j \in DOMAIN said : said[j] = "allowed"
    <2>1. CASE p.mode = "one"
      BY <1>1, <2>1, PolicyFacts DEF Carried
    <2>2. CASE p.mode = "all"
      BY <1>1, <2>2 DEF Carried
    <2>3. CASE p.mode = "quorum" /\ p.quorum = Len(p.members)
      <3> DEFINE S == {j \in DOMAIN said : said[j] = "allowed"}
      <3>1. Len(said) = Len(p.members) /\ Cardinality(S) >= Len(p.members)
        BY <1>1, <2>3 DEF Carried
      <3>2. DOMAIN said = 1..Len(p.members)
        BY <3>1
      <3>3. IsFiniteSet(1..Len(p.members)) /\ Cardinality(1..Len(p.members)) = Len(p.members)
        <4>1. PICK n \in Nat : n = Len(p.members)
          BY <1>2
        <4>2. n \in Int /\ 1 \in Int /\ (1 > n => n = 0)
          OBVIOUS
        <4>3. IsFiniteSet(1..n) /\ Cardinality(1..n) = IF 1 > n THEN 0 ELSE n - 1 + 1
          BY <4>2, FS_Interval
        <4> QED
          BY <4>1, <4>2, <4>3
      <3>4. S \subseteq 1..Len(p.members)
        BY <3>2
      <3>5. /\ Cardinality(S) <= Cardinality(1..Len(p.members)) /\ IsFiniteSet(S)
            /\ (Cardinality(S) = Cardinality(1..Len(p.members)) => S = 1..Len(p.members))
        BY <3>3, <3>4, FS_Subset
      <3>6. Cardinality(S) \in Nat
        BY <3>5, FS_CardinalityType
      <3>7. S = 1..Len(p.members)
        BY <1>2, <3>1, <3>3, <3>5, <3>6
      <3> QED
        BY <3>1, <3>2, <3>7
    <2> QED
      BY <1>4, <2>1, <2>2, <2>3
  <1>6. i \in DOMAIN said
    BY <1>2, <1>3, <1>5
  <1> QED
    BY <1>1, <1>3, <1>5, <1>6

-----------------------------------------------------------------------------
(* An answer, and what it has to do with the world.                        *)

\* The least place that matches is the first rule that does.
LEMMA FirstRuleAllows ==
  ASSUME DOMAIN file.entries = 1..Len(file.entries), Len(file.entries) \in Nat,
         NEW r, RuleDecision(r) = "allowed"
  PROVE  RulesAllowIn(file, r)
  <1>1. PICK f : f = file
    OBVIOUS
  <1>2. PICK M : M = MatchingIn(f, r)
    OBVIOUS
  <1>3. Matching(r) = M /\ M \subseteq Nat
    BY <1>1, <1>2 DEF Matching, MatchingIn
  <1>4. CASE M = {}
    BY <1>1, <1>2, <1>3, <1>4 DEF RuleDecision, RulesAllowIn
  <1>5. CASE M # {}
    <2>1. \E i \in M : \A j \in M : i <= j
      BY <1>3, <1>5, LeastNatural
    <2>2. PICK i : i = CHOOSE k \in M : \A j \in M : k <= j
      OBVIOUS
    <2>3. i \in M /\ \A j \in M : i <= j
      BY <2>1, <2>2
    <2>4. f.entries[i].decision = "allowed"
      BY <1>1, <1>3, <1>5, <2>2 DEF RuleDecision
    <2> QED
      BY <1>1, <1>2, <2>3, <2>4 DEF RulesAllowIn
  <1> QED
    BY <1>4, <1>5

\* A rule list that is well formed answers with a decision.
LEMMA RuleAnswers ==
  ASSUME WellFormed(file), DOMAIN file.entries = 1..Len(file.entries), Len(file.entries) \in Nat, NEW r
  PROVE  RuleDecision(r) \in {"allowed", "denied"}
  <1>1. PICK M : M = Matching(r)
    OBVIOUS
  <1>2. M \subseteq DOMAIN file.entries /\ M \subseteq Nat
    BY <1>1 DEF Matching
  <1>3. CASE M = {}
    BY <1>1, <1>3 DEF RuleDecision, WellFormed
  <1>4. CASE M # {}
    <2>1. \E i \in M : \A j \in M : i <= j
      BY <1>2, <1>4, LeastNatural
    <2>2. PICK i : i = CHOOSE k \in M : \A j \in M : k <= j
      OBVIOUS
    <2>3. i \in M
      BY <2>1, <2>2
    <2>4. RuleDecision(r) = file.entries[i].decision
      BY <1>1, <1>4, <2>2 DEF RuleDecision
    <2> QED
      BY <1>2, <2>3, <2>4 DEF WellFormed
  <1> QED
    BY <1>3, <1>4

\* A member that allows was right to, at the moment it was asked.
LEMMA AnswerFacts ==
  ASSUME WellFormed(file), DOMAIN file.entries = 1..Len(file.entries), Len(file.entries) \in Nat,
         NEW r, NEW kind \in Kinds, NEW a \in PossibleAnswers(kind, r)
  PROVE  /\ a \in Answers
         /\ kind = "rules" /\ a = "allowed" => RulesAllowIn(file, r)
         /\ kind = "allowlist" /\ a = "allowed" => OnList(r)
         /\ kind = "freshness" /\ a = "allowed" /\ r.risk \in Gated =>
              \E mtime \in witness : wall - mtime <= MaxAge
         /\ kind = "budget" /\ a = "allowed" => ~(spent >= Limit)
  <1>1. CASE kind = "rules"
    <2>1. a = RuleDecision(r)
      BY <1>1 DEF PossibleAnswers
    <2>2. a \in {"allowed", "denied"}
      BY <2>1, RuleAnswers
    <2>3. a = "allowed" => RulesAllowIn(file, r)
      BY <2>1, FirstRuleAllows
    <2> QED
      BY <1>1, <2>2, <2>3 DEF Answers
  <1>2. CASE kind = "allowlist"
    <2>1. a = AllowListDecision(r)
      BY <1>2 DEF PossibleAnswers
    <2> QED
      BY <1>2, <2>1 DEF AllowListDecision, Answers
  <1>3. CASE kind = "predicate"
    <2>1. a \in {"allowed", "denied"}
      BY <1>3 DEF PossibleAnswers
    <2> QED
      BY <1>3, <2>1 DEF Answers
  <1>4. CASE kind = "budget"
    <2>1. a = BudgetDecision
      BY <1>4 DEF PossibleAnswers
    <2> QED
      BY <1>4, <2>1 DEF BudgetDecision, Answers
  <1>5. CASE kind = "freshness"
    <2>1. a = FreshnessDecision(r)
      BY <1>5 DEF PossibleAnswers
    <2> QED
      BY <1>5, <2>1 DEF FreshnessDecision, Answers
  <1>6. CASE kind = "custom"
    <2>1. a \in Answers
      BY <1>6 DEF PossibleAnswers
    <2> QED
      BY <1>6, <2>1
  <1> QED
    BY <1>1, <1>2, <1>3, <1>4, <1>5, <1>6 DEF Kinds

\* The gates passed so far stay passed, and the next one is.
LEMMA PassedGrows ==
  ASSUME NEW p, NEW f, NEW r, NEW said, NEW a, NEW more, Grown(said, a, more), Passed(p, f, r, said),
         p.members[Len(more)] = "rules" /\ a = "allowed" => RulesAllowIn(f, r),
         p.members[Len(more)] = "allowlist" /\ a = "allowed" => OnList(r)
  PROVE  Passed(p, f, r, more)
  BY DEF Passed, Grown

\* Where the gate was not asked, what it said is as recent as it was.
LEMMA RecentStays ==
  ASSUME NEW p, NEW r, NEW said, NEW a, NEW more, Grown(said, a, more), NEW age, NEW back,
         Recent(p, r, said, age, back), p.members[Len(more)] # "freshness"
  PROVE  Recent(p, r, more, age, back)
  BY DEF Recent, Grown

\* The gate asked just now found a witness that left the host within max_age.
LEMMA RecentIsNow ==
  ASSUME NEW p, NEW r, NEW said, NEW a, NEW more, Grown(said, a, more), WorldGood,
         p.members[Len(more)] = "freshness",
         a = "allowed" /\ r.risk \in Gated => \E mtime \in witness : wall - mtime <= MaxAge
  PROVE  Recent(p, r, more, since, stepped)
  <1> SUFFICES ASSUME \A i \in DOMAIN more : p.members[i] = "freshness" => more[i] = "allowed",
                      r.risk \in Gated, ~stepped
               PROVE  since <= MaxAge
    BY DEF Recent
  <1>1. a = "allowed"
    <2>1. Len(more) \in DOMAIN more /\ more[Len(more)] = a
      BY DEF Grown
    <2> QED
      BY <2>1
  <1>2. PICK mtime \in witness : wall - mtime <= MaxAge
    BY <1>1
  <1>3. since <= wall - mtime /\ since \in Nat /\ wall \in Nat /\ mtime \in Nat /\ MaxAge \in Nat
    BY BoundFacts DEF WorldGood
  <1> QED
    BY <1>2, <1>3

\* A call has paid if it had, or pays now.
LEMMA PaidGrows ==
  ASSUME NEW p, NEW said, NEW a, NEW more, Grown(said, a, more)
  PROVE  Paid(p, more) <=> Paid(p, said) \/ (p.members[Len(more)] = "budget" /\ a = "allowed")
  BY DEF Paid, Grown

-----------------------------------------------------------------------------
(* What a step of one thread does to the story and to the budget.          *)

\* A thread takes, keeps or drops a good call; the log keeps its entries and gets good ones.
LEMMA StorySteps ==
  ASSUME StoryGood, loaded = "yes", NEW t \in Threads,
         NEW X, X = {} \/ \E call : X = {call} /\ CallGood(policy, file, call),
         thread' = [thread EXCEPT ![t] = X], policy' = policy, file' = file, loaded' = loaded,
         calls' \in 0..MaxCalls,
         NEW l \in Seq(Entries), log' = l,
         \A i \in DOMAIN l : (i \in DOMAIN log /\ l[i] = log[i]) \/ EntryGood(policy, file, l[i])
  PROVE  StoryGood'
  <1>1. X \subseteq Calls
    BY DEF CallGood
  <1>2. thread' \in [Threads -> SUBSET Calls]
    BY <1>1 DEF StoryGood
  <1>3. \A u \in Threads : thread'[u] = IF u = t THEN X ELSE thread[u]
    BY DEF StoryGood
  <1>4. \A u \in Threads : thread'[u] = {} \/ \E call : thread'[u] = {call} /\ CallGood(policy, file, call)
    BY <1>3 DEF StoryGood
  <1>5. \A i \in DOMAIN l : EntryGood(policy, file, l[i])
    BY DEF StoryGood
  <1> QED
    BY <1>2, <1>4, <1>5 DEF StoryGood

LEMMA LongerLog ==
  ASSUME NEW l \in Seq(Entries), NEW e \in Entries
  PROVE  /\ Append(l, e) \in Seq(Entries)
         /\ \A i \in DOMAIN Append(l, e) : (i \in DOMAIN l /\ Append(l, e)[i] = l[i]) \/ Append(l, e)[i] = e
  OBVIOUS

LEMMA AllowedAreFinite ==
  ASSUME NEW p, NEW l \in Seq(Entries)
  PROVE  /\ IsFiniteSet(AllowedIn(l)) /\ IsFiniteSet(Backed(p, l))
         /\ Cardinality(AllowedIn(l)) \in Nat /\ Cardinality(Backed(p, l)) \in Nat
  <1>1. PICK n \in Nat : DOMAIN l = 1..n
    OBVIOUS
  <1>2. IsFiniteSet(1..n)
    BY FS_Interval
  <1>3. AllowedIn(l) \subseteq 1..n /\ Backed(p, l) \subseteq 1..n
    BY <1>1 DEF AllowedIn, Backed
  <1>4. IsFiniteSet(AllowedIn(l)) /\ IsFiniteSet(Backed(p, l))
    BY <1>2, <1>3, FS_Subset
  <1> QED
    BY <1>4, FS_CardinalityType

\* What an entry adds to those allowed, and to those of them that paid.
LEMMA AllowedWith ==
  ASSUME NEW p, NEW l \in Seq(Entries), NEW e \in Entries
  PROVE  /\ Len(l) + 1 \notin AllowedIn(l) /\ Backed(p, l) \subseteq AllowedIn(l)
         /\ IsFiniteSet(AllowedIn(l)) /\ IsFiniteSet(Backed(p, l))
         /\ AllowedIn(Append(l, e)) =
              IF e.verdict = "allowed" THEN AllowedIn(l) \cup {Len(l) + 1} ELSE AllowedIn(l)
         /\ Backed(p, Append(l, e)) =
              IF e.verdict = "allowed" /\ Paid(p, e.said) THEN Backed(p, l) \cup {Len(l) + 1} ELSE Backed(p, l)
  <1>1. PICK m : m = Append(l, e)
    OBVIOUS
  <1>2. PICK n \in Nat : n = Len(l)
    OBVIOUS
  <1>3. /\ DOMAIN l = 1..n /\ DOMAIN m = 1..n + 1 /\ m[n + 1] = e
        /\ \A i \in 1..n : m[i] = l[i]
    BY <1>1, <1>2
  <1>4. n + 1 \notin 1..n /\ 1..n + 1 = 1..n \cup {n + 1}
    OBVIOUS
  <1>5. AllowedIn(l) \subseteq 1..n /\ Backed(p, l) \subseteq AllowedIn(l)
    BY <1>3 DEF AllowedIn, Backed
  <1>6. IsFiniteSet(AllowedIn(l)) /\ IsFiniteSet(Backed(p, l))
    BY AllowedAreFinite
  <1>7. AllowedIn(m) = IF e.verdict = "allowed" THEN AllowedIn(l) \cup {n + 1} ELSE AllowedIn(l)
    BY <1>3, <1>4 DEF AllowedIn
  <1>8. Backed(p, m) =
          IF e.verdict = "allowed" /\ Paid(p, e.said) THEN Backed(p, l) \cup {n + 1} ELSE Backed(p, l)
    <2>1. \A i \in AllowedIn(l) : m[i] = l[i]
      BY <1>3, <1>5
    <2>2. \A i \in AllowedIn(m) : i \in AllowedIn(l) \/ (i = n + 1 /\ e.verdict = "allowed")
      BY <1>7
    <2> QED
      BY <1>3, <1>7, <2>1, <2>2 DEF Backed
  <1> QED
    BY <1>1, <1>2, <1>4, <1>5, <1>6, <1>7, <1>8

\* What a step of one thread does to the threads that have paid.
LEMMA PendingWith ==
  ASSUME NEW p, NEW th \in [Threads -> SUBSET Calls], NEW t \in Threads, NEW X
  PROVE  LET after == [th EXCEPT ![t] = X] IN
         /\ IsFiniteSet(Pending(p, th))
         /\ Pending(p, after) \ {t} = Pending(p, th) \ {t}
         /\ t \in Pending(p, after) <=> \E call \in X : Paid(p, call.said)
         /\ t \in Pending(p, th) <=> \E call \in th[t] : Paid(p, call.said)
  <1>1. PICK after : after = [th EXCEPT ![t] = X]
    OBVIOUS
  <1>2. \A u \in Threads : after[u] = IF u = t THEN X ELSE th[u]
    BY <1>1
  <1>3. IsFiniteSet(Pending(p, th))
    BY BoundFacts, FS_Subset DEF Pending
  <1>4. Pending(p, after) \ {t} = Pending(p, th) \ {t}
    BY <1>2 DEF Pending
  <1>5. t \in Pending(p, after) <=> \E call \in X : Paid(p, call.said)
    BY <1>2 DEF Pending
  <1>6. t \in Pending(p, th) <=> \E call \in th[t] : Paid(p, call.said)
    BY DEF Pending
  <1> QED
    BY <1>1, <1>3, <1>4, <1>5, <1>6

\* Two sets that differ in x at most.
LEMMA NearlySame ==
  ASSUME NEW S, NEW T, IsFiniteSet(S), NEW x, T \ {x} = S \ {x}
  PROVE  /\ IsFiniteSet(T) /\ Cardinality(S) \in Nat /\ Cardinality(T) \in Nat
         /\ Cardinality(T) <= Cardinality(S) + 1
         /\ (x \in T => x \in S) => Cardinality(T) <= Cardinality(S)
         /\ x \in S /\ x \notin T => Cardinality(T) + 1 = Cardinality(S)
         /\ x \in T /\ x \notin S => Cardinality(T) = Cardinality(S) + 1
  <1> DEFINE U == S \ {x}
  <1>1. IsFiniteSet(U) /\ x \notin U
    BY FS_Subset
  <1>2. IsFiniteSet(U \cup {x}) /\ Cardinality(U \cup {x}) = Cardinality(U) + 1 /\ Cardinality(U) \in Nat
    BY <1>1, FS_AddElement, FS_CardinalityType
  <1>3. S = U \/ S = U \cup {x}
    OBVIOUS
  <1>4. T = U \/ T = U \cup {x}
    OBVIOUS
  <1>5. (x \in S <=> S = U \cup {x}) /\ (x \in T <=> T = U \cup {x})
    BY <1>3, <1>4
  <1> HIDE DEF U
  <1>6. CASE S = U /\ T = U
    BY <1>1, <1>2, <1>6
  <1>7. CASE S = U /\ T = U \cup {x}
    BY <1>1, <1>2, <1>7
  <1>8. CASE S = U \cup {x} /\ T = U
    BY <1>1, <1>2, <1>8
  <1>9. CASE S = U \cup {x} /\ T = U \cup {x}
    BY <1>2, <1>9
  <1> QED
    BY <1>3, <1>4, <1>6, <1>7, <1>8, <1>9

\* A call goes on, with n units charged.
LEMMA BudgetStays ==
  ASSUME StoryGood, BudgetGood, NEW t \in Threads, NEW X, thread' = [thread EXCEPT ![t] = X],
         policy' = policy, log' = log, NEW n \in {0, 1}, spent' = spent + n, spent' \in 0..Limit,
         n = 0 /\ (\E call \in X : Paid(policy, call.said)) => \E call \in thread[t] : Paid(policy, call.said),
         BudgetOnlyLast(policy) => n = 0
  PROVE  BudgetGood'
  <1>1. PICK p : p = policy
    OBVIOUS
  <1>2. PICK S : S = Pending(p, thread)
    OBVIOUS
  <1>3. PICK T : T = Pending(p, [thread EXCEPT ![t] = X])
    OBVIOUS
  <1>4. /\ IsFiniteSet(S) /\ T \ {t} = S \ {t}
        /\ (t \in T <=> \E call \in X : Paid(p, call.said))
        /\ (t \in S <=> \E call \in thread[t] : Paid(p, call.said))
    <2>1. PICK th : th = thread
      OBVIOUS
    <2>2. th \in [Threads -> SUBSET Calls]
      BY <2>1 DEF StoryGood
    <2>3. /\ IsFiniteSet(Pending(p, th))
          /\ Pending(p, [th EXCEPT ![t] = X]) \ {t} = Pending(p, th) \ {t}
          /\ t \in Pending(p, [th EXCEPT ![t] = X]) <=> \E call \in X : Paid(p, call.said)
          /\ t \in Pending(p, th) <=> \E call \in th[t] : Paid(p, call.said)
      BY <2>2, PendingWith
    <2> QED
      BY <1>2, <1>3, <2>1, <2>3
  <1>5. /\ Cardinality(S) \in Nat /\ Cardinality(T) \in Nat /\ Cardinality(T) <= Cardinality(S) + 1
        /\ (t \in T => t \in S) => Cardinality(T) <= Cardinality(S)
    BY <1>4, NearlySame
  <1>6. Cardinality(T) <= Cardinality(S) + n
    <2>1. CASE n = 0
      BY <1>1, <1>4, <1>5, <2>1
    <2>2. CASE n = 1
      BY <1>5, <2>2
    <2> QED
      BY <2>1, <2>2
  <1>7. PICK l \in Seq(Entries) : l = log
    BY DEF StoryGood
  <1>8. Cardinality(Backed(p, log)) \in Nat
    BY <1>7, AllowedAreFinite
  <1>9. Cardinality(Backed(p, log)) + Cardinality(S) <= spent /\ spent \in Nat
    BY <1>1, <1>2, BoundFacts DEF BudgetGood
  <1>10. Cardinality(Backed(p, log)) + Cardinality(T) <= spent + n
    BY <1>5, <1>6, <1>8, <1>9
  <1>11. BudgetOnlyLast(p) => Cardinality(AllowedIn(log)) = spent + n
    BY <1>1, <1>9 DEF BudgetGood
  <1> QED
    BY <1>1, <1>3, <1>10, <1>11 DEF BudgetGood

\* A call is concluded, with n units charged: who had paid is no longer pending.
LEMMA BudgetConcludes ==
  ASSUME StoryGood, BudgetGood, NEW t \in Threads, thread' = [thread EXCEPT ![t] = {}],
         policy' = policy, NEW e \in Entries, log' = Append(log, e),
         NEW n \in {0, 1}, spent' = spent + n, spent' \in 0..Limit,
         n = 0 /\ e.verdict = "allowed" /\ Paid(policy, e.said) => \E call \in thread[t] : Paid(policy, call.said),
         BudgetOnlyLast(policy) => (n = 1 <=> e.verdict = "allowed")
  PROVE  BudgetGood'
  <1>1. PICK p : p = policy
    OBVIOUS
  <1>2. PICK S : S = Pending(p, thread)
    OBVIOUS
  <1>3. PICK T : T = Pending(p, [thread EXCEPT ![t] = {}])
    OBVIOUS
  <1>4. /\ IsFiniteSet(S) /\ T \ {t} = S \ {t} /\ t \notin T
        /\ (t \in S <=> \E call \in thread[t] : Paid(p, call.said))
    <2>1. PICK th : th = thread
      OBVIOUS
    <2>2. th \in [Threads -> SUBSET Calls]
      BY <2>1 DEF StoryGood
    <2>3. PICK X : X = {}
      OBVIOUS
    <2>4. /\ IsFiniteSet(Pending(p, th))
          /\ Pending(p, [th EXCEPT ![t] = X]) \ {t} = Pending(p, th) \ {t}
          /\ t \in Pending(p, [th EXCEPT ![t] = X]) <=> \E call \in X : Paid(p, call.said)
          /\ t \in Pending(p, th) <=> \E call \in th[t] : Paid(p, call.said)
      BY <2>2, PendingWith
    <2> QED
      BY <1>2, <1>3, <2>1, <2>3, <2>4
  <1>5. /\ Cardinality(S) \in Nat /\ Cardinality(T) \in Nat /\ Cardinality(T) <= Cardinality(S)
        /\ t \in S => Cardinality(T) + 1 = Cardinality(S)
    BY <1>4, NearlySame
  <1>6. PICK m \in Nat : m = Len(log) + 1
    BY DEF StoryGood
  <1>7. PICK A : A = AllowedIn(log)
    OBVIOUS
  <1>8. PICK B : B = Backed(p, log)
    OBVIOUS
  <1>9. /\ IsFiniteSet(A) /\ IsFiniteSet(B) /\ m \notin A /\ m \notin B
        /\ AllowedIn(Append(log, e)) = IF e.verdict = "allowed" THEN A \cup {m} ELSE A
        /\ Backed(p, Append(log, e)) = IF e.verdict = "allowed" /\ Paid(p, e.said) THEN B \cup {m} ELSE B
    BY <1>6, <1>7, <1>8, AllowedWith DEF StoryGood
  <1>10. /\ Cardinality(A) \in Nat /\ Cardinality(A \cup {m}) = Cardinality(A) + 1
         /\ Cardinality(B) \in Nat /\ Cardinality(B \cup {m}) = Cardinality(B) + 1
    BY <1>9, FS_AddElement, FS_CardinalityType
  <1>11. Cardinality(B) + Cardinality(S) <= spent /\ spent \in Nat
    BY <1>1, <1>2, <1>8, BoundFacts DEF BudgetGood
  <1>12. Cardinality(Backed(p, Append(log, e))) + Cardinality(T) <= spent + n
    <2>1. CASE ~(e.verdict = "allowed" /\ Paid(p, e.said))
      BY <1>5, <1>9, <1>10, <1>11, <2>1
    <2>2. CASE e.verdict = "allowed" /\ Paid(p, e.said) /\ n = 1
      <3>1. Cardinality(Backed(p, Append(log, e))) = Cardinality(B) + 1
        BY <1>9, <1>10, <2>2
      <3> QED
        BY <1>5, <1>10, <1>11, <2>2, <3>1
    <2>3. CASE e.verdict = "allowed" /\ Paid(p, e.said) /\ n = 0
      <3>1. Cardinality(Backed(p, Append(log, e))) = Cardinality(B) + 1
        BY <1>9, <1>10, <2>3
      <3>2. Cardinality(T) + 1 = Cardinality(S)
        BY <1>1, <1>4, <1>5, <2>3
      <3> QED
        BY <1>5, <1>10, <1>11, <2>3, <3>1, <3>2
    <2> QED
      BY <2>1, <2>2, <2>3
  <1>13. BudgetOnlyLast(p) => Cardinality(AllowedIn(Append(log, e))) = spent + n
    <2> SUFFICES ASSUME BudgetOnlyLast(p) PROVE Cardinality(AllowedIn(Append(log, e))) = spent + n
      OBVIOUS
    <2>1. Cardinality(A) = spent
      BY <1>1, <1>7 DEF BudgetGood
    <2>2. n = 1 <=> e.verdict = "allowed"
      BY <1>1
    <2>3. CASE e.verdict = "allowed"
      BY <1>9, <1>10, <2>1, <2>2, <2>3
    <2>4. CASE e.verdict # "allowed"
      BY <1>9, <1>10, <2>1, <2>2, <2>4
    <2> QED
      BY <2>3, <2>4
  <1> QED
    BY <1>1, <1>3, <1>12, <1>13 DEF BudgetGood

-----------------------------------------------------------------------------
\* One lemma for each action, or for those that touch the same.
LEMMA PInvInit == Init => PInv
  <1> SUFFICES ASSUME Init PROVE PInv
    OBVIOUS
  <1>0. /\ policy \in Policies /\ file \in RuleFiles \cup {EmptyFile} /\ loaded = "no"
        /\ thread = [t \in Threads |-> {}] /\ log = << >> /\ calls = 0 /\ spent = 0
        /\ witness = {} /\ wall = 0 /\ since = NoAge /\ stepped = FALSE /\ approver \in Identity
    BY DEF Init, Unasked, Identity
  <1>1. StoryGood
    <2>1. DOMAIN file.entries = 1..Len(file.entries) /\ Len(file.entries) \in Nat
      <3>1. CASE file \in RuleFiles
        BY <3>1, PoliciesAssumption
      <3>2. CASE file = EmptyFile
        <4>1. file.entries = << >>
          BY <3>2 DEF EmptyFile
        <4> QED
          BY <4>1
      <3> QED
        BY <1>0, <3>1, <3>2
    <2>2. thread \in [Threads -> SUBSET Calls] /\ \A t \in Threads : thread[t] = {}
      BY <1>0
    <2>3. log \in Seq(Entries) /\ log = << >> /\ DOMAIN log = {}
      BY <1>0
    <2>4. calls \in 0..MaxCalls
      BY <1>0, BoundFacts
    <2> QED
      BY <1>0, <2>1, <2>2, <2>3, <2>4 DEF StoryGood
  <1>2. WorldGood
    <2>1. witness \subseteq 0..MaxClock /\ wall \in 0..MaxClock /\ since \in 0..NoAge
      BY <1>0, BoundFacts
    <2>2. stepped \in BOOLEAN /\ approver \in Identity /\ \A mtime \in witness : since <= wall - mtime
      BY <1>0
    <2> QED
      BY <2>1, <2>2 DEF WorldGood
  <1>3. BudgetGood
    <2>1. AllowedIn(log) = {} /\ Backed(policy, log) = {} /\ Pending(policy, thread) = {}
      BY <1>0 DEF AllowedIn, Backed, Pending
    <2>2. Cardinality({}) = 0
      BY FS_EmptySet
    <2> QED
      <3>1. spent = 0 /\ 0 \in 0..Limit /\ 0 + 0 <= 0
        BY <1>0, BoundFacts
      <3> QED
        BY <2>1, <2>2, <3>1 DEF BudgetGood
  <1> QED
    BY <1>1, <1>2, <1>3 DEF PInv

LEMMA LoadPolicyKeeps == PInv /\ LoadPolicy => PInv'
  <1> SUFFICES ASSUME PInv, LoadPolicy PROVE PInv'
    OBVIOUS
  <1>1. UNCHANGED <<policy, file, thread, spent, calls, log, witness, wall, approver, since, stepped>>
    BY DEF LoadPolicy, world
  <1>2. loaded = "no" /\ loaded' = IF WellFormed(file) THEN "yes" ELSE "refused"
    BY DEF LoadPolicy
  <1>3. StoryGood'
    BY <1>1, <1>2 DEF PInv, StoryGood, WellFormed
  <1>4. WorldGood'
    BY <1>1 DEF PInv, WorldGood
  <1>5. BudgetGood'
    BY <1>1 DEF PInv, BudgetGood
  <1> QED
    BY <1>3, <1>4, <1>5 DEF PInv

LEMMA AskKeeps == ASSUME PInv, NEW t \in Threads, Ask(t) PROVE PInv'
  <1>1. /\ loaded = "yes" /\ calls' = calls + 1 /\ calls < MaxCalls
        /\ UNCHANGED <<policy, file, loaded, spent, witness, wall, approver, since, stepped>>
    BY DEF Ask, world
  <1>2. PICK r \in Requests :
          LET call == [request |-> r, said |-> << >>, age |-> NoAge, back |-> FALSE, pc |-> "consult"] IN
          IF r.approval = "never"
          THEN Conclude(t, call, "error", Nobody)
          ELSE thread' = [thread EXCEPT ![t] = {call}] /\ UNCHANGED log
    BY DEF Ask
  <1>3. PICK call : call = [request |-> r, said |-> << >>, age |-> NoAge, back |-> FALSE, pc |-> "consult"]
    OBVIOUS
  <1>4. call \in Calls /\ call.said = << >> /\ Len(call.said) = 0 /\ DOMAIN call.said = {} /\ call.pc = "consult"
    BY <1>3, BoundFacts DEF Calls
  <1>5. calls' \in 0..MaxCalls
    BY <1>1, BoundFacts DEF PInv, StoryGood
  <1>6. WorldGood'
    BY <1>1 DEF PInv, WorldGood
  <1>7. spent' \in 0..Limit /\ spent' = spent + 0
    BY <1>1, BoundFacts DEF PInv, BudgetGood
  <1>8. log \in Seq(Entries) /\ policy \in Policies
    BY DEF PInv, StoryGood
  <1>9. CASE r.approval = "never"
    <2>1. PICK e : e = [request |-> r, said |-> << >>, age |-> NoAge, back |-> FALSE, verdict |-> "error", by |-> Nobody]
      OBVIOUS
    <2>2. e \in Entries /\ e.verdict = "error"
      BY <2>1, BoundFacts DEF Entries, Verdicts, Identity
    <2>3. thread' = [thread EXCEPT ![t] = {}] /\ log' = Append(log, e)
      BY <1>2, <1>9, <2>1 DEF Conclude, Unasked
    <2>4. PICK l : l = Append(log, e)
      OBVIOUS
    <2>5. l \in Seq(Entries) /\ \A i \in DOMAIN l : (i \in DOMAIN log /\ l[i] = log[i]) \/ l[i] = e
      BY <1>8, <2>2, <2>4, LongerLog
    <2>6. EntryGood(policy, file, e)
      BY <2>2 DEF EntryGood
    <2>7. StoryGood'
      BY <1>1, <1>5, <2>3, <2>4, <2>5, <2>6, StorySteps DEF PInv
    <2>8. ~BudgetOnlyLast(policy) \/ (0 = 1 <=> e.verdict = "allowed")
      BY <2>2
    <2>9. BudgetGood'
      BY <1>1, <1>7, <2>2, <2>3, <2>8, BudgetConcludes DEF PInv
    <2> QED
      BY <1>6, <2>7, <2>9 DEF PInv
  <1>10. CASE r.approval # "never"
    <2>1. thread' = [thread EXCEPT ![t] = {call}] /\ log' = log
      BY <1>2, <1>3, <1>10
    <2>2. CallGood(policy, file, call)
      <3>1. call.request.approval = "required"
        BY <1>3, <1>10 DEF Requests
      <3>2. Len(policy.members) \in Nat \ {0}
        BY <1>8, PolicyFacts
      <3>3. Open(policy, call.said)
        BY <1>4, <3>2 DEF Open
      <3>4. /\ Passed(policy, file, call.request, call.said)
            /\ Recent(policy, call.request, call.said, call.age, call.back)
        BY <1>4 DEF Passed, Recent
      <3> QED
        BY <1>4, <3>1, <3>2, <3>3, <3>4 DEF CallGood
    <2>3. StoryGood'
      BY <1>1, <1>5, <1>8, <2>1, <2>2, StorySteps DEF PInv
    <2>4. PICK X : X = {call}
      OBVIOUS
    <2>5. thread' = [thread EXCEPT ![t] = X] /\ log' = log /\ policy' = policy
      BY <1>1, <2>1, <2>4
    <2>6. ~\E c \in X : Paid(policy, c.said)
      BY <1>4, <2>4 DEF Paid
    <2>7. StoryGood /\ BudgetGood /\ 0 \in {0, 1} /\ (BudgetOnlyLast(policy) => 0 = 0)
      BY DEF PInv
    <2>8. BudgetGood'
      BY <1>7, <2>5, <2>6, <2>7, BudgetStays
    <2> QED
      BY <1>6, <2>3, <2>8 DEF PInv
  <1> QED
    BY <1>9, <1>10

\* A thread in the engine holds one good call, under a policy that was loaded.
LEMMA CallFacts ==
  ASSUME StoryGood, NEW t \in Threads, NEW call \in thread[t]
  PROVE  /\ thread[t] = {call} /\ CallGood(policy, file, call) /\ loaded = "yes" /\ WellFormed(file)
         /\ call.said \in Seq(Answers) /\ call.request \in Requests /\ policy \in Policies
         /\ call.age \in 0..NoAge /\ call.back \in BOOLEAN
  <1>1. PICK c : thread[t] = {c} /\ CallGood(policy, file, c)
    BY DEF StoryGood
  <1>2. c = call
    BY <1>1
  <1>3. loaded = "yes"
    BY DEF StoryGood
  <1>4. call \in Calls
    BY <1>1, <1>2 DEF CallGood
  <1> QED
    BY <1>1, <1>2, <1>3, <1>4 DEF StoryGood, Calls

\* What a call has been told, with the answer a of the next member.
Told(call, kind, more) ==
  IF kind = "freshness" THEN [call EXCEPT !.said = more, !.age = since, !.back = stepped]
                        ELSE [call EXCEPT !.said = more]

ToldGood(call, kind, a, more, told) ==
  /\ kind \in Kinds /\ a \in Answers /\ more \in Seq(Answers) /\ Grown(call.said, a, more)
  /\ Open(policy, call.said) /\ kind = policy.members[Len(more)] /\ Len(more) <= Len(policy.members)
  /\ told \in Calls /\ told.said = more /\ told.request = call.request /\ told.pc = "consult"
  /\ call.request.approval = "required"
  /\ Passed(policy, file, told.request, told.said)
  /\ Recent(policy, told.request, told.said, told.age, told.back)
  /\ kind = "budget" /\ a = "allowed" => ~(spent >= Limit)

LEMMA ToldFacts ==
  ASSUME StoryGood, WorldGood, NEW t \in Threads, NEW call \in thread[t], call.pc = "consult",
         NEW kind, kind = policy.members[Len(call.said) + 1],
         NEW a \in PossibleAnswers(kind, call.request),
         NEW more, more = Append(call.said, a), NEW told, told = Told(call, kind, more)
  PROVE  ToldGood(call, kind, a, more, told)
  <1>1. PICK p : p = policy
    OBVIOUS
  <1>2. PICK said : said = call.said
    OBVIOUS
  <1>3. PICK r : r = call.request
    OBVIOUS
  <1>4. /\ CallGood(policy, file, call) /\ WellFormed(file) /\ p \in Policies
        /\ said \in Seq(Answers)
    BY <1>1, <1>2, CallFacts
  <1>5. /\ Open(p, said) /\ call \in Calls /\ r.approval = "required"
        /\ Passed(p, file, r, said) /\ Recent(p, r, said, call.age, call.back)
    BY <1>1, <1>2, <1>3, <1>4 DEF CallGood
  <1>6. Len(said) \in Nat /\ Len(said) + 1 \in 1..Len(p.members) /\ Len(p.members) \in Nat
    <2>1. Len(said) \in Nat /\ Len(p.members) \in Nat
      BY <1>4, PolicyFacts
    <2>2. Len(said) < Len(p.members)
      BY <1>5 DEF Open
    <2> QED
      BY <2>1, <2>2
  <1>7. kind \in Kinds
    BY <1>1, <1>2, <1>4, <1>6, PolicyFacts
  <1>8. DOMAIN file.entries = 1..Len(file.entries) /\ Len(file.entries) \in Nat
    BY DEF StoryGood
  <1>9. /\ a \in Answers
        /\ kind = "rules" /\ a = "allowed" => RulesAllowIn(file, r)
        /\ kind = "allowlist" /\ a = "allowed" => OnList(r)
        /\ kind = "freshness" /\ a = "allowed" /\ r.risk \in Gated =>
             \E mtime \in witness : wall - mtime <= MaxAge
        /\ kind = "budget" /\ a = "allowed" => ~(spent >= Limit)
    BY <1>3, <1>4, <1>7, <1>8, AnswerFacts
  <1>10. more \in Seq(Answers) /\ Grown(said, a, more)
    BY <1>2, <1>4, <1>9, AnswersGrow
  <1>11. Len(more) = Len(said) + 1 /\ kind = p.members[Len(more)]
    BY <1>1, <1>2, <1>10 DEF Grown
  <1>12. Passed(p, file, r, more)
    BY <1>5, <1>9, <1>10, <1>11, PassedGrows
  <1>13. /\ told \in Calls /\ told.said = more /\ told.request = r /\ told.pc = "consult"
         /\ IF kind = "freshness" THEN told.age = since /\ told.back = stepped
                                  ELSE told.age = call.age /\ told.back = call.back
    BY <1>3, <1>5, <1>10 DEF Told, Calls, WorldGood
  <1>14. Recent(p, r, more, told.age, told.back)
    <2>1. CASE kind = "freshness"
      <3>1. Recent(p, r, more, since, stepped)
        BY <1>9, <1>10, <1>11, <2>1, RecentIsNow
      <3> QED
        BY <1>13, <2>1, <3>1
    <2>2. CASE kind # "freshness"
      <3>1. Recent(p, r, more, call.age, call.back)
        BY <1>5, <1>10, <1>11, <2>2, RecentStays
      <3> QED
        BY <1>13, <2>2, <3>1
    <2> QED
      BY <2>1, <2>2
  <1> QED
    BY <1>1, <1>2, <1>3, <1>5, <1>6, <1>7, <1>9, <1>10, <1>11, <1>12, <1>13, <1>14 DEF ToldGood

\* A budget that is asked last, of all members or alone, is charged with the allowance.
LEMMA LastBudgetDecides ==
  ASSUME policy \in Policies, BudgetOnlyLast(policy), NEW said, NEW a \in Answers, Open(policy, said),
         NEW more, Grown(said, a, more), NEW kind, kind = policy.members[Len(more)]
  PROVE  /\ Combined(more) = "allowed" <=> (kind = "budget" /\ a = "allowed")
         /\ Combined(more) = "more" => ~(kind = "budget" /\ a = "allowed")
  <1>1. PICK p \in Policies : p = policy
    OBVIOUS
  <1>2. Members = Len(p.members) /\ Len(p.members) \in Nat
    BY <1>1, PolicyFacts DEF Members
  <1>3. Len(said) \in Nat /\ Len(more) = Len(said) + 1 /\ Last(more) = a
    BY DEF Grown
  <1>4. Len(said) < Len(p.members)
    BY <1>1 DEF Open
  <1>5. Len(more) \in 1..Len(p.members)
    BY <1>2, <1>3, <1>4
  <1>6. kind = "budget" <=> Len(more) = Len(p.members)
    BY <1>1, <1>5 DEF BudgetOnlyLast
  <1>7. CASE p.mode = "one"
    <2>1. Len(p.members) = 1
      BY <1>7, PolicyFacts
    <2>2. kind = "budget"
      BY <1>3, <1>5, <1>6, <2>1
    <2>3. Combined(more) = a
      BY <1>1, <1>3, <1>7 DEF Combined, OfOne
    <2> QED
      BY <2>2, <2>3 DEF Answers
  <1>8. CASE p.mode = "all"
    <2>1. Combined(more) = OfAll(more)
      BY <1>1, <1>8 DEF Combined
    <2>2. a = "allowed" => OfAll(more) = IF Len(more) = Members THEN "allowed" ELSE "more"
      BY <1>3 DEF OfAll
    <2>3. a \in {"raises", "no decision"} => OfAll(more) = "raises"
      BY <1>3 DEF OfAll
    <2>4. a \in {"denied", "invalid"} => OfAll(more) = "denied"
      BY <1>3 DEF OfAll
    <2> QED
      BY <1>2, <1>6, <2>1, <2>2, <2>3, <2>4 DEF Answers
  <1>9. p.mode \in {"one", "all"}
    BY <1>1 DEF BudgetOnlyLast
  <1> QED
    BY <1>7, <1>8, <1>9

LEMMA CombinedType ==
  ASSUME policy \in Policies, NEW said, NEW a \in Answers, NEW more, Grown(said, a, more)
  PROVE  Combined(more) \in Answers \cup {"more"}
  <1>1. PICK p \in Policies : p = policy
    OBVIOUS
  <1>2. Last(more) = a /\ p.mode \in {"one", "all", "any", "quorum"}
    BY PolicyFacts DEF Grown
  <1>3. CASE p.mode = "one"
    BY <1>1, <1>2, <1>3 DEF Combined, OfOne
  <1>4. CASE p.mode = "all"
    <2>1. Combined(more) = OfAll(more)
      BY <1>1, <1>4 DEF Combined
    <2>2. OfAll(more) \in {"raises", "denied", "allowed", "more"}
      BY <1>2 DEF OfAll, Answers
    <2> QED
      BY <2>1, <2>2 DEF Answers
  <1>5. CASE p.mode = "any"
    <2>1. Combined(more) = OfAny(more)
      BY <1>1, <1>5 DEF Combined
    <2>2. OfAny(more) \in {"raises", "denied", "allowed", "more"}
      BY <1>2 DEF OfAny, Answers
    <2> QED
      BY <2>1, <2>2 DEF Answers
  <1>6. CASE p.mode = "quorum"
    <2>1. Combined(more) = OfQuorum(more)
      BY <1>1, <1>6 DEF Combined
    <2>2. OfQuorum(more) \in {"raises", "denied", "allowed", "more"}
      BY DEF OfQuorum
    <2> QED
      BY <2>1, <2>2 DEF Answers
  <1> QED
    BY <1>2, <1>3, <1>4, <1>5, <1>6

LEMMA ConsultKeeps == ASSUME PInv, NEW t \in Threads, Consult(t) PROVE PInv'
  <1>1. PICK call \in thread[t] :
          LET kind == policy.members[Len(call.said) + 1] IN
          /\ call.pc = "consult"
          /\ \E answer \in PossibleAnswers(kind, call.request) :
               LET said == Append(call.said, answer)
                   told == IF kind = "freshness" THEN [call EXCEPT !.said = said, !.age = since, !.back = stepped]
                                                 ELSE [call EXCEPT !.said = said]
                   so   == Combined(said)
               IN /\ Charge(kind, answer)
                  /\ CASE so = "more" -> thread' = [thread EXCEPT ![t] = {told}] /\ UNCHANGED log
                       [] so = "allowed" /\ policy.attested ->
                            thread' = [thread EXCEPT ![t] = {[told EXCEPT !.pc = "attest"]}] /\ UNCHANGED log
                       [] OTHER -> Conclude(t, told, Verdict(so), Nobody)
    BY DEF Consult
  <1>2. PICK kind : kind = policy.members[Len(call.said) + 1]
    OBVIOUS
  <1>3. PICK a \in PossibleAnswers(kind, call.request) :
          LET said == Append(call.said, a)
              told == Told(call, kind, said)
              so   == Combined(said)
          IN /\ Charge(kind, a)
             /\ CASE so = "more" -> thread' = [thread EXCEPT ![t] = {told}] /\ UNCHANGED log
                  [] so = "allowed" /\ policy.attested ->
                       thread' = [thread EXCEPT ![t] = {[told EXCEPT !.pc = "attest"]}] /\ UNCHANGED log
                  [] OTHER -> Conclude(t, told, Verdict(so), Nobody)
    BY <1>1, <1>2 DEF Told
  <1>4. PICK more : more = Append(call.said, a)
    OBVIOUS
  <1>5. PICK told : told = Told(call, kind, more)
    OBVIOUS
  <1>6. PICK so : so = Combined(more)
    OBVIOUS
  <1>7. /\ so = "more" => thread' = [thread EXCEPT ![t] = {told}] /\ log' = log
        /\ so = "allowed" /\ policy.attested =>
             thread' = [thread EXCEPT ![t] = {[told EXCEPT !.pc = "attest"]}] /\ log' = log
        /\ so # "more" /\ ~(so = "allowed" /\ policy.attested) => Conclude(t, told, Verdict(so), Nobody)
    BY <1>3, <1>4, <1>5, <1>6
  <1>8. UNCHANGED <<policy, file, loaded, calls, witness, wall, approver, since, stepped>>
    BY DEF Consult, world
  <1>9. StoryGood /\ WorldGood /\ BudgetGood
    BY DEF PInv
  <1>10. /\ kind \in Kinds /\ a \in Answers /\ more \in Seq(Answers) /\ Grown(call.said, a, more)
         /\ Open(policy, call.said) /\ kind = policy.members[Len(more)] /\ Len(more) <= Len(policy.members)
         /\ told \in Calls /\ told.said = more /\ told.request = call.request /\ told.pc = "consult"
         /\ call.request.approval = "required"
         /\ Passed(policy, file, told.request, told.said)
         /\ Recent(policy, told.request, told.said, told.age, told.back)
         /\ kind = "budget" /\ a = "allowed" => ~(spent >= Limit)
    <2>1. call.pc = "consult"
      BY <1>1
    <2>2. call \in thread[t] /\ a \in PossibleAnswers(kind, call.request)
      BY <1>3
    <2> QED
      <3>1. ToldGood(call, kind, a, more, told)
        BY <1>2, <1>4, <1>5, <1>9, <2>1, <2>2, ToldFacts
      <3> QED
        BY <3>1 DEF ToldGood
  <1>11. /\ thread[t] = {call} /\ loaded = "yes" /\ policy \in Policies
    BY <1>9, CallFacts
  <1>12. WorldGood'
    BY <1>8, <1>9 DEF WorldGood
  <1>13. PICK n \in {0, 1} : /\ spent' = spent + n /\ spent' \in 0..Limit
                             /\ n = 1 <=> (kind = "budget" /\ a = "allowed")
    <2>1. spent \in Nat /\ spent <= Limit /\ Limit \in Nat
      BY <1>9, BoundFacts DEF BudgetGood
    <2>2. Charge(kind, a)
      BY <1>3
    <2>3. CASE kind = "budget" /\ a = "allowed"
      <3>1. spent' = spent + 1 /\ ~(spent >= Limit)
        BY <1>10, <2>2, <2>3 DEF Charge
      <3> QED
        BY <2>1, <2>3, <3>1
    <2>4. CASE ~(kind = "budget" /\ a = "allowed")
      <3>1. spent' = spent + 0
        BY <2>1, <2>2, <2>4 DEF Charge
      <3> QED
        BY <2>1, <2>4, <3>1
    <2> QED
      BY <2>3, <2>4
  <1>14. n = 0 /\ Paid(policy, more) => \E c \in thread[t] : Paid(policy, c.said)
    <2>1. Paid(policy, more) <=> Paid(policy, call.said) \/ (kind = "budget" /\ a = "allowed")
      BY <1>10, PaidGrows
    <2> QED
      BY <1>11, <1>13, <2>1
  <1>15. so = "allowed" => Carried(policy, more)
    BY <1>6, <1>10, <1>11, AllowedIsCarried
  <1>16. log \in Seq(Entries) /\ calls' \in 0..MaxCalls
    BY <1>8, <1>9 DEF StoryGood
  <1>17. BudgetOnlyLast(policy) => (so = "allowed" <=> n = 1) /\ (so = "more" => n = 0) /\ ~policy.attested
    <2> SUFFICES ASSUME BudgetOnlyLast(policy)
                 PROVE  (so = "allowed" <=> n = 1) /\ (so = "more" => n = 0) /\ ~policy.attested
      OBVIOUS
    <2>1. /\ so = "allowed" <=> (kind = "budget" /\ a = "allowed")
          /\ so = "more" => ~(kind = "budget" /\ a = "allowed")
      BY <1>6, <1>10, <1>11, LastBudgetDecides
    <2> QED
      BY <1>13, <2>1 DEF BudgetOnlyLast
  <1>18. ASSUME NEW c, CallGood(policy, file, c), c.said = more,
                thread' = [thread EXCEPT ![t] = {c}], log' = log, BudgetOnlyLast(policy) => n = 0
         PROVE  PInv'
    <2>1. StoryGood'
      BY <1>8, <1>9, <1>11, <1>16, <1>18, StorySteps
    <2>2. n = 0 /\ (\E d \in {c} : Paid(policy, d.said)) => \E d \in thread[t] : Paid(policy, d.said)
      BY <1>14, <1>18
    <2>3. policy' = policy /\ n \in {0, 1} /\ spent' = spent + n /\ spent' \in 0..Limit
      BY <1>8, <1>13
    <2>4. PICK X : X = {c}
      OBVIOUS
    <2>5. /\ thread' = [thread EXCEPT ![t] = X] /\ log' = log
          /\ n = 0 /\ (\E d \in X : Paid(policy, d.said)) => \E d \in thread[t] : Paid(policy, d.said)
      BY <1>18, <2>2, <2>4
    <2>6. BudgetGood'
      BY <1>9, <1>18, <2>3, <2>5, BudgetStays
    <2> QED
      BY <1>12, <2>1, <2>6 DEF PInv
  <1>19. CASE so = "more"
    <2>1. thread' = [thread EXCEPT ![t] = {told}] /\ log' = log
      BY <1>7, <1>19
    <2>2. Open(policy, more)
      BY <1>6, <1>10, <1>11, <1>19, MoreIsOpen
    <2>3. CallGood(policy, file, told)
      BY <1>10, <2>2 DEF CallGood
    <2>4. BudgetOnlyLast(policy) => n = 0
      BY <1>17, <1>19
    <2> QED
      BY <1>10, <1>18, <2>1, <2>3, <2>4
  <1>20. CASE so = "allowed" /\ policy.attested
    <2>1. PICK c : c = [told EXCEPT !.pc = "attest"]
      OBVIOUS
    <2>2. thread' = [thread EXCEPT ![t] = {c}] /\ log' = log
      BY <1>7, <1>20, <2>1
    <2>3. /\ c \in Calls /\ c.said = more /\ c.request = told.request /\ c.pc = "attest"
          /\ c.age = told.age /\ c.back = told.back
      BY <1>10, <2>1 DEF Calls
    <2>4. CallGood(policy, file, c)
      BY <1>10, <1>15, <1>20, <2>3 DEF CallGood
    <2>5. BudgetOnlyLast(policy) => n = 0
      BY <1>17, <1>20
    <2> QED
      BY <1>18, <2>2, <2>3, <2>4, <2>5
  <1>21. CASE so # "more" /\ ~(so = "allowed" /\ policy.attested)
    <2>1. PICK e : e = [request |-> told.request, said |-> told.said, age |-> told.age, back |-> told.back,
                        verdict |-> Verdict(so), by |-> Nobody]
      OBVIOUS
    <2>2. thread' = [thread EXCEPT ![t] = {}] /\ log' = Append(log, e)
      BY <1>7, <1>21, <2>1 DEF Conclude, Unasked
    <2>3. Verdict(so) \in Verdicts /\ (Verdict(so) = "allowed" <=> so = "allowed")
      BY DEF Verdict, Verdicts
    <2>4. /\ e \in Entries /\ e.said = more /\ e.request = told.request /\ e.age = told.age /\ e.back = told.back
          /\ e.verdict = "allowed" <=> so = "allowed"
      BY <1>10, <2>1, <2>3 DEF Entries, Calls, Identity
    <2>5. EntryGood(policy, file, e)
      BY <1>10, <1>15, <1>21, <2>4 DEF EntryGood
    <2>6. PICK l : l = Append(log, e)
      OBVIOUS
    <2>7. l \in Seq(Entries) /\ \A i \in DOMAIN l : (i \in DOMAIN log /\ l[i] = log[i]) \/ l[i] = e
      BY <1>16, <2>4, <2>6, LongerLog
    <2>8. StoryGood'
      BY <1>8, <1>9, <1>11, <1>16, <2>2, <2>5, <2>6, <2>7, StorySteps
    <2>9. n = 0 /\ e.verdict = "allowed" /\ Paid(policy, e.said) => \E c \in thread[t] : Paid(policy, c.said)
      BY <1>14, <2>4
    <2>10. BudgetOnlyLast(policy) => (n = 1 <=> e.verdict = "allowed")
      BY <1>17, <2>4
    <2>11. BudgetGood'
      BY <1>8, <1>9, <1>13, <2>2, <2>4, <2>9, <2>10, BudgetConcludes
    <2> QED
      BY <1>12, <2>8, <2>11 DEF PInv
  <1> QED
    BY <1>19, <1>20, <1>21

LEMMA AttestKeeps == ASSUME PInv, NEW t \in Threads, Attest(t) PROVE PInv'
  <1>1. PICK call \in thread[t] :
          /\ call.pc = "attest"
          /\ IF approver \in Approvers THEN Conclude(t, call, "allowed", approver)
                                       ELSE Conclude(t, call, "denied", Nobody)
    BY DEF Attest
  <1>2. UNCHANGED <<policy, file, loaded, spent, calls, witness, wall, approver, since, stepped>>
    BY DEF Attest, world
  <1>3. StoryGood /\ WorldGood /\ BudgetGood
    BY DEF PInv
  <1>4. /\ thread[t] = {call} /\ CallGood(policy, file, call) /\ loaded = "yes"
        /\ call.said \in Seq(Answers) /\ call.request \in Requests
        /\ call.age \in 0..NoAge /\ call.back \in BOOLEAN
    BY <1>3, CallFacts
  <1>5. WorldGood'
    BY <1>2, <1>3 DEF WorldGood
  <1>6. PICK by : by = IF approver \in Approvers THEN approver ELSE Nobody
    OBVIOUS
  <1>7. PICK verdict : verdict = IF approver \in Approvers THEN "allowed" ELSE "denied"
    OBVIOUS
  <1>8. PICK e : e = [request |-> call.request, said |-> call.said, age |-> call.age, back |-> call.back,
                      verdict |-> verdict, by |-> by]
    OBVIOUS
  <1>9. thread' = [thread EXCEPT ![t] = {}] /\ log' = Append(log, e)
    BY <1>1, <1>6, <1>7, <1>8 DEF Conclude, Unasked
  <1>10. by \in Identity /\ verdict \in {"allowed", "denied"} /\ (verdict = "allowed" => by \in Approvers)
    BY <1>6, <1>7 DEF Identity
  <1>11. /\ e \in Entries /\ e.said = call.said /\ e.request = call.request /\ e.age = call.age /\ e.back = call.back
         /\ e.verdict = verdict /\ e.by = by
    BY <1>4, <1>8, <1>10 DEF Entries, Verdicts
  <1>12. EntryGood(policy, file, e)
    BY <1>1, <1>4, <1>10, <1>11 DEF EntryGood, CallGood
  <1>13. log \in Seq(Entries) /\ calls' \in 0..MaxCalls
    BY <1>2, <1>3 DEF StoryGood
  <1>14. PICK l : l = Append(log, e)
    OBVIOUS
  <1>15. l \in Seq(Entries) /\ \A i \in DOMAIN l : (i \in DOMAIN log /\ l[i] = log[i]) \/ l[i] = e
    BY <1>11, <1>13, <1>14, LongerLog
  <1>16. StoryGood'
    BY <1>2, <1>3, <1>4, <1>9, <1>12, <1>13, <1>14, <1>15, StorySteps
  <1>17. spent' = spent + 0 /\ spent' \in 0..Limit
    BY <1>2, <1>3, BoundFacts DEF BudgetGood
  <1>18. ~BudgetOnlyLast(policy)
    BY <1>1, <1>4 DEF CallGood, BudgetOnlyLast
  <1>19. Paid(policy, e.said) => \E c \in thread[t] : Paid(policy, c.said)
    BY <1>11
  <1>20. BudgetGood'
    BY <1>2, <1>3, <1>9, <1>11, <1>17, <1>18, <1>19, BudgetConcludes
  <1> QED
    BY <1>5, <1>16, <1>20 DEF PInv

LEMMA BesideKeeps == ASSUME PInv, Beside, WorldGood' PROVE PInv'
  <1>1. UNCHANGED <<policy, file, loaded, thread, spent, calls, log>>
    BY DEF Beside
  <1>2. StoryGood'
    BY <1>1 DEF PInv, StoryGood, WellFormed
  <1>3. BudgetGood'
    BY <1>1 DEF PInv, BudgetGood
  <1> QED
    BY <1>2, <1>3 DEF PInv

LEMMA WorldKeeps == ASSUME PInv, Tick \/ SetBack \/ ShipWitness \/ LoseWitness \/ SetApprover PROVE PInv'
  <1>1. /\ witness \subseteq 0..MaxClock /\ wall \in 0..MaxClock /\ since \in 0..NoAge
        /\ stepped \in BOOLEAN /\ approver \in Identity
        /\ ~stepped => \A mtime \in witness : since <= wall - mtime
    BY DEF PInv, WorldGood
  <1>2. MaxClock \in Nat /\ NoAge \in Nat
    BY BoundFacts
  <1>3. CASE Tick
    <2>1. /\ wall < MaxClock /\ wall' = wall + 1 /\ UNCHANGED <<witness, approver, stepped>> /\ Beside
          /\ since' = IF since < NoAge THEN since + 1 ELSE since
      BY <1>3 DEF Tick
    <2>2. wall' \in 0..MaxClock /\ since' \in 0..NoAge /\ since' <= since + 1
      BY <1>1, <1>2, <2>1
    <2>3. ASSUME ~stepped', NEW mtime \in witness' PROVE since' <= wall' - mtime
      <3>1. since <= wall - mtime /\ mtime \in Nat
        BY <1>1, <2>1, <2>3
      <3> QED
        BY <1>1, <2>1, <2>2, <3>1
    <2>4. WorldGood'
      BY <1>1, <2>1, <2>2, <2>3 DEF WorldGood
    <2> QED
      BY <2>1, <2>4, BesideKeeps
  <1>4. CASE SetBack
    <2>1. wall' = 0 /\ stepped' = TRUE /\ UNCHANGED <<witness, approver, since>> /\ Beside
      BY <1>4 DEF SetBack
    <2>2. wall' \in 0..MaxClock
      BY <1>2, <2>1
    <2>3. WorldGood'
      BY <1>1, <2>1, <2>2 DEF WorldGood
    <2> QED
      BY <2>1, <2>3, BesideKeeps
  <1>5. CASE ShipWitness
    <2>1. witness' = {wall} /\ since' = 0 /\ UNCHANGED <<wall, approver, stepped>> /\ Beside
      BY <1>5 DEF ShipWitness
    <2>2. since' \in 0..NoAge /\ witness' \subseteq 0..MaxClock
      BY <1>1, <1>2, <2>1
    <2>3. \A mtime \in witness' : since' <= wall' - mtime
      BY <1>1, <2>1
    <2>4. WorldGood'
      BY <1>1, <2>1, <2>2, <2>3 DEF WorldGood
    <2> QED
      BY <2>1, <2>4, BesideKeeps
  <1>6. CASE LoseWitness
    <2>1. witness' = {} /\ UNCHANGED <<wall, approver, since, stepped>> /\ Beside
      BY <1>6 DEF LoseWitness
    <2>2. WorldGood'
      BY <1>1, <2>1 DEF WorldGood
    <2> QED
      BY <2>1, <2>2, BesideKeeps
  <1>7. CASE SetApprover
    <2>1. approver' \in Identity /\ UNCHANGED <<witness, wall, since, stepped>> /\ Beside
      BY <1>7 DEF SetApprover
    <2>2. WorldGood'
      BY <1>1, <2>1 DEF WorldGood
    <2> QED
      BY <2>1, <2>2, BesideKeeps
  <1> QED
    BY <1>3, <1>4, <1>5, <1>6, <1>7

(* Of every call in the engine and every one concluded, what its answers   *)
(* mean; of the world, what the freshness gate will see; of the budget, a  *)
(* unit for every call that paid and is not denied.                        *)
THEOREM PoliciesInvariance == Spec => []PInv
  <1>1. ASSUME PInv, [Next]_vars PROVE PInv'
    <2>1. CASE LoadPolicy
      BY <1>1, <2>1, LoadPolicyKeeps
    <2>2. CASE \E t \in Threads : Ask(t) \/ Consult(t) \/ Attest(t)
      BY <1>1, <2>2, AskKeeps, ConsultKeeps, AttestKeeps
    <2>3. CASE Tick \/ SetBack \/ ShipWitness \/ LoseWitness \/ SetApprover
      BY <1>1, <2>3, WorldKeeps
    <2>4. CASE UNCHANGED vars
      <3>1. UNCHANGED <<policy, file, loaded, thread, spent, calls, log>>
        BY <2>4 DEF vars
      <3>2. UNCHANGED <<witness, wall, approver, since, stepped>>
        BY <2>4 DEF vars
      <3>3. WorldGood'
        BY <1>1, <3>2 DEF PInv, WorldGood
      <3> QED
        BY <1>1, <3>1, <3>3, BesideKeeps DEF Beside
    <2> QED
      BY <1>1, <2>1, <2>2, <2>3, <2>4 DEF Next
  <1> QED
    BY <1>1, PInvInit, PTL DEF Spec

\* An entry of the log that allowed its call.
LEMMA AllowedFacts ==
  ASSUME PInv, NEW i \in AllowedCalls
  PROVE  /\ i \in DOMAIN log /\ log[i].verdict = "allowed" /\ log[i].said \in Seq(Answers)
         /\ log[i].request.approval = "required" /\ Carried(policy, log[i].said)
         /\ policy.attested => log[i].by \in Approvers
         /\ Passed(policy, file, log[i].request, log[i].said)
         /\ Recent(policy, log[i].request, log[i].said, log[i].age, log[i].back)
         /\ policy \in Policies
  <1>1. i \in DOMAIN log /\ log[i].verdict = "allowed"
    BY DEF AllowedCalls
  <1>2. log \in Seq(Entries) /\ EntryGood(policy, file, log[i]) /\ policy \in Policies
    BY <1>1 DEF PInv, StoryGood
  <1>3. log[i] \in Entries
    BY <1>1, <1>2
  <1>4. log[i].said \in Seq(Answers)
    BY <1>3 DEF Entries
  <1> QED
    BY <1>1, <1>2, <1>4 DEF EntryGood

(* A call in the engine has answers of fewer members than there are, and   *)
(* concludes with one of three verdicts (_evaluate_approval), for any      *)
(* policies, rule files and threads.                                       *)
THEOREM PoliciesTyped == Spec => []TypeOK
  <1>1. ASSUME PInv PROVE TypeOK
    <2>1. ASSUME NEW t \in Threads
          PROVE  /\ thread[t] \subseteq Calls /\ Cardinality(thread[t]) <= 1
                 /\ \A call \in thread[t] : call.pc = "consult" => Len(call.said) < Members
      <3>1. CASE thread[t] = {}
        BY <3>1, FS_EmptySet
      <3>2. CASE thread[t] # {}
        <4>1. PICK call : thread[t] = {call} /\ CallGood(policy, file, call)
          BY <1>1, <3>2 DEF PInv, StoryGood
        <4>2. PICK X : X = {call}
          OBVIOUS
        <4>3. Cardinality(X) = 1
          BY <4>2, FS_Singleton
        <4>4. call \in Calls /\ (call.pc = "consult" => Len(call.said) < Members)
          BY <4>1 DEF CallGood, Open, Members
        <4> QED
          BY <4>1, <4>2, <4>3, <4>4
      <3> QED
        BY <3>1, <3>2
    <2>2. \A i \in DOMAIN log : log[i].verdict \in Verdicts
      <3>1. log \in Seq(Entries)
        BY <1>1 DEF PInv, StoryGood
      <3>2. ASSUME NEW i \in DOMAIN log PROVE log[i].verdict \in Verdicts
        <4>1. log[i] \in Entries
          BY <3>1
        <4> QED
          BY <4>1 DEF Entries
      <3> QED
        BY <3>2
    <2>3. policy \in Policies /\ loaded \in {"no", "yes", "refused"} /\ calls \in 0..MaxCalls
      BY <1>1 DEF PInv, StoryGood
    <2>4. witness \subseteq 0..MaxClock /\ wall \in 0..MaxClock /\ approver \in Identity /\ since \in 0..NoAge
      BY <1>1 DEF PInv, WorldGood
    <2>5. spent \in Nat
      BY <1>1, BoundFacts DEF PInv, BudgetGood
    <2> QED
      BY <2>1, <2>2, <2>3, <2>4, <2>5 DEF TypeOK
  <1> QED
    BY <1>1, PoliciesInvariance, PTL

(* Nothing is allowed but on the word of enough members, each asked, and   *)
(* under a name if the policy is attested; a policy file with anything     *)
(* unknown in it allows nothing (CombinedProvider, QuorumApprovalProvider, *)
(* AttestedApprovalProvider, load_policy_file), for any compositions.      *)
THEOREM PoliciesFailClosed == Spec => []FailsClosed
  <1>1. ASSUME PInv PROVE FailsClosed
    <2>1. ASSUME NEW i \in AllowedCalls
          PROVE  /\ log[i].request.approval = "required" /\ Enough(log[i].said)
                 /\ policy.attested => log[i].by \in Approvers
      <3>1. /\ log[i].request.approval = "required" /\ Carried(policy, log[i].said) /\ policy \in Policies
            /\ (policy.attested => log[i].by \in Approvers) /\ log[i].said \in Seq(Answers)
        BY <1>1, AllowedFacts
      <3> QED
        BY <3>1, CarriedIsEnough
    <2>2. ~WellFormed(file) => log = << >>
      BY <1>1 DEF PInv, StoryGood
    <2> QED
      BY <2>1, <2>2 DEF FailsClosed
  <1> QED
    BY <1>1, PoliciesInvariance, PTL

(* What a policy requires has been passed by every call that it allows:    *)
(* the first matching rule, the list, and a witness within max_age while   *)
(* nobody set the clock back (RuleProvider, AllowListProvider,             *)
(* WitnessFreshnessProvider), for any bounds and any world beside.         *)
THEOREM GatesAlwaysHold == Spec => []GatesHold
  <1>1. ASSUME PInv PROVE GatesHold
    <2>1. ASSUME NEW i \in AllowedCalls, NEW r, r = log[i].request
          PROVE  /\ Required("rules") => RulesAllow(r)
                 /\ Required("allowlist") => OnList(r)
                 /\ Required("freshness") /\ r.risk \in Gated /\ ~log[i].back => log[i].age <= MaxAge
      <3>1. PICK said : said = log[i].said
        OBVIOUS
      <3>2. /\ Carried(policy, said) /\ said \in Seq(Answers) /\ policy \in Policies
            /\ Passed(policy, file, r, said) /\ Recent(policy, r, said, log[i].age, log[i].back)
        BY <1>1, <2>1, <3>1, AllowedFacts
      <3>3. ASSUME NEW kind, Required(kind)
            PROVE  /\ \A k \in DOMAIN said : said[k] = "allowed"
                   /\ \E k \in DOMAIN said : policy.members[k] = kind
        BY <3>2, <3>3, RequiredHasAllowed
      <3>4. ASSUME Required("rules") PROVE RulesAllow(r)
        <4>1. PICK k \in DOMAIN said : policy.members[k] = "rules" /\ said[k] = "allowed"
          BY <3>3, <3>4
        <4>2. RulesAllowIn(file, r)
          BY <3>2, <4>1 DEF Passed
        <4> QED
          BY <4>2 DEF RulesAllow, RulesAllowIn, Matching, MatchingIn
      <3>5. ASSUME Required("allowlist") PROVE OnList(r)
        <4>1. PICK k \in DOMAIN said : policy.members[k] = "allowlist" /\ said[k] = "allowed"
          BY <3>3, <3>5
        <4> QED
          BY <3>2, <4>1 DEF Passed
      <3>6. ASSUME Required("freshness"), r.risk \in Gated, ~log[i].back PROVE log[i].age <= MaxAge
        <4>1. /\ \A k \in DOMAIN said : said[k] = "allowed"
              /\ \E k \in DOMAIN said : policy.members[k] = "freshness"
          BY <3>3, <3>6
        <4> QED
          BY <3>2, <3>6, <4>1 DEF Recent
      <3> QED
        BY <3>4, <3>5, <3>6
    <2> QED
      BY <2>1 DEF GatesHold, OnList
  <1> QED
    BY <1>1, PoliciesInvariance, PTL

(* A required budget is charged for every call allowed, and for no other   *)
(* if it is asked last, whatever other threads do in between               *)
(* (BudgetProvider in CombinedProvider and QuorumApprovalProvider).        *)
THEOREM BudgetAlwaysCovers == Spec => []BudgetCoversAllowed
  <1>1. ASSUME PInv PROVE BudgetCoversAllowed
    <2>1. AllowedCalls = AllowedIn(log)
      BY DEF AllowedCalls, AllowedIn
    <2>2. spent \in Nat /\ spent <= Limit
      BY <1>1, BoundFacts DEF PInv, BudgetGood
    <2>3. ASSUME Required("budget") PROVE Cardinality(AllowedCalls) <= spent
      <3>1. ASSUME NEW i \in AllowedCalls PROVE Paid(policy, log[i].said)
        <4>1. Carried(policy, log[i].said) /\ policy \in Policies /\ log[i].said \in Seq(Answers)
          BY <1>1, <3>1, AllowedFacts
        <4>2. /\ \A k \in DOMAIN log[i].said : log[i].said[k] = "allowed"
              /\ \E k \in DOMAIN log[i].said : policy.members[k] = "budget"
          BY <2>3, <4>1, RequiredHasAllowed
        <4> QED
          BY <4>2 DEF Paid
      <3>2. Backed(policy, log) = AllowedCalls
        BY <2>1, <3>1 DEF Backed
      <3>3. IsFiniteSet(Pending(policy, thread))
        BY BoundFacts, FS_Subset DEF Pending
      <3>4. PICK l \in Seq(Entries) : l = log
        BY <1>1 DEF PInv, StoryGood
      <3>5. Cardinality(AllowedCalls) \in Nat /\ Cardinality(Pending(policy, thread)) \in Nat
        BY <2>1, <3>3, <3>4, AllowedAreFinite, FS_CardinalityType
      <3>6. Cardinality(AllowedCalls) + Cardinality(Pending(policy, thread)) <= spent
        BY <1>1, <3>2 DEF PInv, BudgetGood
      <3> QED
        BY <2>2, <3>5, <3>6
    <2>4. ASSUME policy.mode \in {"one", "all"}, AskedLast("budget"), ~policy.attested
          PROVE  Cardinality(AllowedCalls) = spent
      <3>1. BudgetOnlyLast(policy)
        BY <2>4 DEF BudgetOnlyLast, AskedLast, Members
      <3> QED
        BY <1>1, <2>1, <3>1 DEF PInv, BudgetGood
    <2> QED
      BY <2>2, <2>3, <2>4 DEF BudgetCoversAllowed
  <1> QED
    BY <1>1, PoliciesInvariance, PTL

-----------------------------------------------------------------------------
(* The walk over the arguments is a recursion on the levels left: what it  *)
(* computes is found, and has its type, by the least level that has not.   *)

\* A recursion on naturals has a solution.
HasRecursion(R, base, step, N) ==
  \E W \in [0..N -> R] : W[0] = base /\ \A f \in 1..N : W[f] = step[W[f - 1]]

LEMMA RecursionHolds ==
  ASSUME NEW R, NEW base \in R, NEW step \in [R -> R], NEW N \in Nat
  PROVE  HasRecursion(R, base, step, N)
  <1> DEFINE Solves(W, k) == W \in [0..k -> R] /\ W[0] = base /\ \A f \in 1..k : W[f] = step[W[f - 1]]
             Bad == {k \in Nat : ~ \E W : Solves(W, k)}
  <1>1. ASSUME Bad # {} PROVE FALSE
    <2>1. PICK k \in Bad : \A j \in Bad : k <= j
      <3>1. Bad \subseteq Nat
        OBVIOUS
      <3> HIDE DEF Bad
      <3> QED
        BY <1>1, <3>1, LeastNatural
    <2>2. k # 0
      <3> DEFINE W0 == [f \in 0..0 |-> base]
      <3>1. Solves(W0, 0)
        OBVIOUS
      <3> QED
        BY <3>1
    <2>3. k \in Nat /\ k - 1 \in Nat /\ k - 1 \notin Bad
      <3>1. k \in Nat /\ \A j \in Bad : k <= j
        BY <2>1
      <3>2. k - 1 \in Nat
        BY <2>2, <3>1
      <3>3. ~(k <= k - 1)
        BY <3>1
      <3> HIDE DEF Bad
      <3> QED
        BY <3>1, <3>2, <3>3
    <2>4. PICK V : Solves(V, k - 1)
      BY <2>3
    <2>5. k - 1 \in 0..(k - 1) /\ V[k - 1] \in R
      BY <2>3, <2>4
    <2> DEFINE W == [f \in 0..k |-> IF f < k THEN V[f] ELSE step[V[k - 1]]]
    <2>6. W \in [0..k -> R]
      <3>1. ASSUME NEW f \in 0..k PROVE W[f] \in R
        <4>1. CASE f < k
          <5>1. f \in 0..(k - 1)
            BY <2>3, <4>1
          <5> QED
            BY <2>4, <4>1, <5>1
        <4>2. CASE ~(f < k)
          BY <2>5, <4>2
        <4> QED
          BY <4>1, <4>2
      <3> QED
        BY <3>1
    <2>7. W[0] = base
      BY <2>2, <2>3, <2>4
    <2>8. ASSUME NEW f \in 1..k PROVE W[f] = step[W[f - 1]]
      <3>1. f \in 0..k /\ f - 1 \in 0..k /\ f - 1 < k
        BY <2>3
      <3>2. W[f - 1] = V[f - 1]
        BY <3>1
      <3>3. CASE f < k
        <4>1. f \in 1..(k - 1)
          BY <2>3, <3>3
        <4>2. W[f] = V[f]
          BY <3>1, <3>3
        <4>3. V[f] = step[V[f - 1]]
          BY <2>4, <4>1
        <4> QED
          BY <3>2, <4>2, <4>3
      <3>4. CASE f = k
        BY <2>3, <3>1, <3>2, <3>4
      <3> QED
        BY <2>3, <3>3, <3>4
    <2>9. Solves(W, k)
      BY <2>6, <2>7, <2>8
    <2> QED
      BY <2>1, <2>9
  <1>2. \E W : Solves(W, N)
    BY <1>1
  <1> QED
    BY <1>2 DEF HasRecursion

\* What a recursion on naturals computes stays in the set it is over.
LEMMA RecursionStays ==
  ASSUME NEW R, NEW N \in Nat, NEW W, DOMAIN W = 0..N, W[0] \in R,
         \A f \in 1..N : W[f - 1] \in R => W[f] \in R
  PROVE  \A f \in 0..N : W[f] \in R
  <1> DEFINE Bad == {f \in 0..N : W[f] \notin R}
  <1>1. ASSUME Bad # {} PROVE FALSE
    <2>1. PICK k \in Bad : \A j \in Bad : k <= j
      <3>1. Bad \subseteq Nat
        OBVIOUS
      <3> HIDE DEF Bad
      <3> QED
        BY <1>1, <3>1, LeastNatural
    <2>2. k \in 0..N /\ W[k] \notin R
      BY <2>1
    <2>3. k \in 1..N
      BY <2>2
    <2>4. k - 1 \in 0..N /\ ~(k <= k - 1)
      BY <2>3
    <2>5. k - 1 \notin Bad
      <3> HIDE DEF Bad
      <3> QED
        BY <2>1, <2>4
    <2>6. W[k - 1] \in R
      BY <2>4, <2>5
    <2> QED
      BY <2>2, <2>3, <2>6
  <1> QED
    BY <1>1

-----------------------------------------------------------------------------
(* The forms of values, and that every step of the walk gives one.         *)

Texts(h) == {h[n].text : n \in Nodes} \cup {<<Marker>>, <<Unsupported>>, <<Container>>}

Positions(h) == [at : Seq(DOMAIN Fold), kind : {"none", "num", "str", "container"}, text : Texts(h)]

\* There is something at the top, a container if there is anything below.
Rooted(positions) ==
  /\ \E p \in positions : p.at = <<>>
  /\ \A p \in positions : p.at # <<>> => \E q \in positions : q.at = <<>> /\ q.kind = "container"

Forms(h, sensitive) ==
  {w \in [ok : BOOLEAN, positions : SUBSET Positions(h), removed : SUBSET Texts(h)] :
     Clean(w.positions, sensitive) /\ (w.ok => Rooted(w.positions))}

\* What str() makes of node n, of a container only that it is one.
TextOf(h, n) == IF h[n].kind \in {"dict", "record", "list"} THEN <<Container>> ELSE h[n].text

\* The form w says at its top what node n is, or is a marker.
Tells(h, n, w) ==
  \A p \in w.positions : p.at = <<>> => p.text \in {TextOf(h, n), <<Marker>>, <<Unsupported>>}

Layers(h, sensitive) ==
  {L \in [Nodes -> [SUBSET Nodes -> Forms(h, sensitive)]] :
     \A n \in Nodes : \A seen \in SUBSET Nodes : Tells(h, n, L[n][seen])}

LEMMA HeapFacts ==
  ASSUME NEW h \in Heaps, NEW e \in Declared, NEW n \in Nodes
  PROVE  /\ h[n].kind \in NodeKinds /\ h[n].text # <<Other>> /\ h[n].text \in Texts(h)
         /\ \A i \in DOMAIN h[n].items :
              /\ h[n].items[i].name \in DOMAIN Fold /\ h[n].items[i].node \in Nodes
              /\ h[n].kind = "list" => ~IsSensitive(h[n].items[i].name, SensitiveSet(e))
  <1>1. \A name \in e : name \in UNION Declared
    OBVIOUS
  <1>2. \A i \in DOMAIN h[n].items :
          h[n].kind = "list" => Fold[h[n].items[i].name] \notin BuiltIn \cup {Fold[name] : name \in e}
    BY <1>1, HeapAssumption
  <1>3. \A i \in DOMAIN h[n].items : h[n].items[i].name \in DOMAIN Fold /\ h[n].items[i].node \in Nodes
    BY HeapAssumption
  <1>4. h[n].kind \in NodeKinds /\ h[n].text # <<Other>> /\ h[n].text \in Texts(h)
    BY HeapAssumption DEF Texts
  <1> QED
    BY <1>2, <1>3, <1>4 DEF IsSensitive, SensitiveSet

LEMMA FailsIsForm ==
  ASSUME NEW h, NEW sensitive
  PROVE  Fails \in Forms(h, sensitive)
  BY DEF Fails, Forms, Clean

\* A leaf with a text that may be shown.
LEMMA LeafIsForm ==
  ASSUME NEW h, NEW sensitive, NEW kind \in {"none", "num", "str"}, NEW text \in Texts(h),
         kind = "str" => text \in {<<>>, <<Marker>>, <<Unsupported>>} \/ ~MatchesPatterns(text)
  PROVE  Leaf(kind, text) \in Forms(h, sensitive)
  <1> DEFINE p == Position(kind, text)
  <1>1. p \in Positions(h) /\ p.at = <<>> /\ DOMAIN p.at = {} /\ p.kind = kind /\ p.text = text
    <2>1. <<>> \in Seq(DOMAIN Fold) /\ DOMAIN <<>> = {}
      OBVIOUS
    <2> QED
      BY <2>1 DEF Position, Positions
  <1>2. Leaf(kind, text) = [ok |-> TRUE, positions |-> {p}, removed |-> {}]
    BY DEF Leaf
  <1>3. Clean({p}, sensitive)
    <2> HIDE DEF p
    <2> QED
      BY <1>1 DEF Clean
  <1>4. Rooted({p})
    <2> HIDE DEF p
    <2> QED
      BY <1>1 DEF Rooted
  <1> HIDE DEF p
  <1>5. PICK w : w = [ok |-> TRUE, positions |-> {p}, removed |-> {}]
    OBVIOUS
  <1>6. {p} \in SUBSET Positions(h)
    BY <1>1
  <1>7. w \in [ok : BOOLEAN, positions : SUBSET Positions(h), removed : SUBSET Texts(h)]
    BY <1>5, <1>6
  <1>8. Clean(w.positions, sensitive) /\ Rooted(w.positions)
    BY <1>3, <1>4, <1>5
  <1> QED
    BY <1>2, <1>5, <1>7, <1>8 DEF Forms

\* What replaces a value is a leaf, and says nothing of it.
LEMMA RedactIsForm ==
  ASSUME NEW h \in Heaps, NEW e \in Declared, NEW n \in Nodes, NEW sensitive
  PROVE  /\ Redact(h[n]) \in Forms(h, sensitive)
         /\ \A p \in Redact(h[n]).positions : p.at = <<>> /\ p.text = <<Marker>>
  <1> DEFINE w == Leaf("str", <<Marker>>)
             gone == IF h[n].kind = "none" THEN {} ELSE {h[n].text} \ {<<>>}
  <1>1. w \in Forms(h, sensitive)
    BY LeafIsForm DEF Texts
  <1>2. gone \in SUBSET Texts(h)
    BY HeapFacts
  <1>3. Redact(h[n]) = [w EXCEPT !.removed = gone]
    BY DEF Redact
  <1>4. \A p \in w.positions : p.at = <<>> /\ p.text = <<Marker>>
    BY DEF Leaf, Position
  <1> HIDE DEF w, gone
  <1>5. /\ Redact(h[n]) \in [ok : BOOLEAN, positions : SUBSET Positions(h), removed : SUBSET Texts(h)]
        /\ Redact(h[n]).positions = w.positions /\ Redact(h[n]).ok = w.ok
    BY <1>1, <1>2, <1>3 DEF Forms
  <1>6. Clean(w.positions, sensitive) /\ (w.ok => Rooted(w.positions))
    BY <1>1 DEF Forms
  <1> QED
    BY <1>4, <1>5, <1>6 DEF Forms

\* A path with a name in front.
LEMMA LongerPath ==
  ASSUME NEW D, NEW name \in D, NEW at \in Seq(D), NEW path, path = <<name>> \o at
  PROVE  /\ path \in Seq(D) /\ path # <<>> /\ path[1] = name
         /\ Len(at) \in Nat /\ Len(path) = Len(at) + 1 /\ DOMAIN path = 1..(Len(at) + 1)
         /\ \A i \in DOMAIN path : i = 1 \/ (i - 1 \in DOMAIN at /\ path[i] = at[i - 1])
         /\ at = <<>> => Len(path) = 1
  <1>1. /\ path \in Seq(D) /\ Len(at) \in Nat /\ Len(path) = Len(at) + 1
        /\ DOMAIN path = 1..(Len(at) + 1) /\ DOMAIN at = 1..Len(at)
    OBVIOUS
  <1>2. path[1] = name /\ \A i \in 1..(Len(at) + 1) : i = 1 \/ path[i] = at[i - 1]
    OBVIOUS
  <1>3. path # <<>>
    BY <1>1
  <1>4. \A i \in 1..(Len(at) + 1) : i = 1 \/ i - 1 \in 1..Len(at)
    BY <1>1
  <1>5. at = <<>> => Len(at) = 0
    OBVIOUS
  <1> QED
    BY <1>1, <1>2, <1>3, <1>4, <1>5

\* q is p under the name.
IsUnder(q, name, p) == q.at = <<name>> \o p.at /\ q.kind = p.kind /\ q.text = p.text

\* Positions under a name; a sensitive one has markers under it only.
LEMMA UnderIsClean ==
  ASSUME NEW h, NEW sensitive, NEW name \in DOMAIN Fold, NEW w \in Forms(h, sensitive),
         IsSensitive(name, sensitive) => \A p \in w.positions : p.at = <<>> /\ p.text = <<Marker>>
  PROVE  /\ Under(name, w) \subseteq Positions(h) /\ Clean(Under(name, w), sensitive)
         /\ \A q \in Under(name, w) : \E p \in w.positions : IsUnder(q, name, p)
         /\ \A p \in w.positions : \E q \in Under(name, w) : IsUnder(q, name, p)
  <1> DEFINE Q(p) == [p EXCEPT !.at = <<name>> \o p.at]
  <1>1. w.positions \subseteq Positions(h) /\ Clean(w.positions, sensitive)
    BY DEF Forms
  <1>2. ASSUME NEW p \in w.positions
        PROVE  Q(p) \in Positions(h) /\ IsUnder(Q(p), name, p) /\ Clean({Q(p)}, sensitive)
    <2>1. p \in Positions(h) /\ p.at \in Seq(DOMAIN Fold)
      BY <1>1, <1>2 DEF Positions
    <2>2. PICK path : path = <<name>> \o p.at
      OBVIOUS
    <2>3. /\ path \in Seq(DOMAIN Fold) /\ path[1] = name
          /\ Len(p.at) \in Nat /\ Len(path) = Len(p.at) + 1 /\ DOMAIN path = 1..(Len(p.at) + 1)
          /\ \A i \in DOMAIN path : i = 1 \/ (i - 1 \in DOMAIN p.at /\ path[i] = p.at[i - 1])
          /\ p.at = <<>> => Len(path) = 1
      BY <2>1, <2>2, LongerPath
    <2>4. PICK q : q = [p EXCEPT !.at = path]
      OBVIOUS
    <2>5. q \in Positions(h) /\ q.at = path /\ q.kind = p.kind /\ q.text = p.text
      BY <2>1, <2>3, <2>4 DEF Positions
    <2>6. ASSUME NEW i \in DOMAIN path, Fold[path[i]] \in sensitive
          PROVE  i = Len(path) /\ q.text = <<Marker>>
      <3>1. CASE i = 1
        <4>1. IsSensitive(name, sensitive)
          BY <2>3, <2>6, <3>1 DEF IsSensitive
        <4>2. p.at = <<>> /\ p.text = <<Marker>>
          BY <4>1
        <4> QED
          BY <2>3, <2>5, <3>1, <4>2
      <3>2. CASE i # 1
        <4>1. i - 1 \in DOMAIN p.at /\ Fold[p.at[i - 1]] \in sensitive
          BY <2>3, <2>6, <3>2
        <4>2. i - 1 = Len(p.at) /\ p.text = <<Marker>>
          BY <1>1, <4>1 DEF Clean
        <4>3. i \in Int
          BY <2>3
        <4> QED
          BY <2>3, <2>5, <4>2, <4>3
      <3> QED
        BY <3>1, <3>2
    <2>7. q.kind = "str" /\ q.text \notin {<<>>, <<Marker>>, <<Unsupported>>} => ~MatchesPatterns(q.text)
      BY <1>1, <2>5 DEF Clean
    <2>8. Clean({q}, sensitive)
      BY <2>5, <2>6, <2>7 DEF Clean
    <2> QED
      BY <2>2, <2>4, <2>5, <2>8 DEF IsUnder
  <1>3. Under(name, w) = {Q(p) : p \in w.positions}
    BY DEF Under
  <1>4. \A q \in Under(name, w) : Clean({q}, sensitive)
    BY <1>2, <1>3
  <1>5. Clean(Under(name, w), sensitive)
    BY <1>4 DEF Clean
  <1> HIDE DEF Q
  <1> QED
    BY <1>1, <1>2, <1>3, <1>5

\* Forms for the items of a node, with markers only where a name is sensitive.
FormsFor(h, sensitive, node, of) ==
  \A i \in DOMAIN of :
    /\ of[i] \in Forms(h, sensitive) /\ node.items[i].name \in DOMAIN Fold
    /\ IsSensitive(node.items[i].name, sensitive)
         => \A p \in of[i].positions : p.at = <<>> /\ p.text = <<Marker>>

\* What stands for an item, at the top of what it becomes and below its name.
LEMMA ContainedAreForms ==
  ASSUME NEW h \in Heaps, NEW e \in Declared, NEW sensitive, sensitive = SensitiveSet(e),
         NEW below \in Layers(h, sensitive), NEW n \in Nodes, NEW seen \in SUBSET Nodes,
         h[n].kind \in {"list", "dict", "record"}
  PROVE  FormsFor(h, sensitive, h[n], Contained(h, sensitive, below, h[n], seen))
  <1>1. PICK of : of = Contained(h, sensitive, below, h[n], seen)
    OBVIOUS
  <1>2. DOMAIN of = DOMAIN h[n].items
    BY <1>1 DEF Contained
  <1>3. ASSUME NEW i \in DOMAIN of
        PROVE  /\ of[i] \in Forms(h, sensitive) /\ h[n].items[i].name \in DOMAIN Fold
               /\ IsSensitive(h[n].items[i].name, sensitive)
                    => \A p \in of[i].positions : p.at = <<>> /\ p.text = <<Marker>>
    <2> DEFINE item == h[n].items[i]
    <2>1. /\ item.name \in DOMAIN Fold /\ item.node \in Nodes
          /\ h[n].kind = "list" => ~IsSensitive(item.name, sensitive)
      BY <1>2, <1>3, HeapFacts
    <2>2. CASE Named(h[n]) /\ IsSensitive(item.name, sensitive)
      <3>1. of[i] = Redact(h[item.node])
        BY <1>1, <1>2, <1>3, <2>2 DEF Contained
      <3> QED
        BY <2>1, <3>1, RedactIsForm
    <2>3. CASE ~(Named(h[n]) /\ IsSensitive(item.name, sensitive))
      <3>1. of[i] = below[item.node][seen]
        BY <1>1, <1>2, <1>3, <2>3 DEF Contained
      <3>2. below[item.node] \in [SUBSET Nodes -> Forms(h, sensitive)]
        <4>1. below \in [Nodes -> [SUBSET Nodes -> Forms(h, sensitive)]]
          BY DEF Layers
        <4> QED
          BY <2>1, <4>1
      <3>3. of[i] \in Forms(h, sensitive)
        BY <3>1, <3>2
      <3> QED
        BY <2>1, <2>3, <3>3 DEF Named
    <2> QED
      BY <2>2, <2>3
  <1> QED
    BY <1>1, <1>3 DEF FormsFor

\* What the positions of a container are: itself, and each item under its name.
LEMMA GatheredPositions ==
  ASSUME NEW node, NEW of, Gathered(node, of).ok
  PROVE  /\ \A i \in DOMAIN of : of[i].ok
         /\ Gathered(node, of).positions =
              {Position("container", <<Container>>)} \cup
              UNION {Under(node.items[i].name, of[i]) : i \in DOMAIN of}
  BY DEF Gathered, Fails

LEMMA ContainerPosition ==
  ASSUME NEW h
  PROVE  LET top == Position("container", <<Container>>) IN
         /\ top \in Positions(h) /\ top.at = <<>> /\ DOMAIN top.at = {}
         /\ top.kind = "container" /\ top.text = <<Container>>
  <1>1. <<>> \in Seq(DOMAIN Fold) /\ DOMAIN <<>> = {}
    OBVIOUS
  <1> QED
    BY <1>1 DEF Position, Positions, Texts

LEMMA GatheredIsForm ==
  ASSUME NEW h \in Heaps, NEW sensitive, NEW node, NEW of, FormsFor(h, sensitive, node, of)
  PROVE  Gathered(node, of) \in Forms(h, sensitive)
  <1>1. CASE \E i \in DOMAIN of : ~of[i].ok
    BY <1>1, FailsIsForm DEF Gathered
  <1>2. CASE ~ \E i \in DOMAIN of : ~of[i].ok
    <2>1. PICK top : top = Position("container", <<Container>>)
      OBVIOUS
    <2>2. /\ top \in Positions(h) /\ top.at = <<>> /\ DOMAIN top.at = {}
          /\ top.kind = "container" /\ top.text = <<Container>>
      BY <2>1, ContainerPosition
    <2> DEFINE U(i) == Under(node.items[i].name, of[i])
               P == {top} \cup UNION {U(i) : i \in DOMAIN of}
               X == UNION {of[i].removed : i \in DOMAIN of}
    <2>3. ASSUME NEW i \in DOMAIN of
          PROVE  U(i) \subseteq Positions(h) /\ Clean(U(i), sensitive) /\ of[i].removed \subseteq Texts(h)
      <3>1. of[i].removed \subseteq Texts(h)
        BY <2>3 DEF Forms, FormsFor
      <3> QED
        BY <2>3, <3>1, UnderIsClean DEF FormsFor
    <2>4. Gathered(node, of) = [ok |-> TRUE, positions |-> P, removed |-> X]
      BY <1>2, <2>1 DEF Gathered
    <2> HIDE DEF U
    <2>5. P \subseteq Positions(h) /\ X \subseteq Texts(h)
      BY <2>2, <2>3
    <2>6. Clean(P, sensitive)
      <3>1. \A p \in P : p = top \/ \E i \in DOMAIN of : p \in U(i)
        OBVIOUS
      <3>2. Clean({top}, sensitive)
        BY <2>2 DEF Clean
      <3> HIDE DEF P
      <3> QED
        BY <2>3, <3>1, <3>2 DEF Clean
    <2>7. Rooted(P)
      BY <2>2 DEF Rooted
    <2> HIDE DEF P, X
    <2>8. PICK w : w = [ok |-> TRUE, positions |-> P, removed |-> X]
      OBVIOUS
    <2>9. w \in [ok : BOOLEAN, positions : SUBSET Positions(h), removed : SUBSET Texts(h)]
      BY <2>5, <2>8
    <2> QED
      BY <2>4, <2>6, <2>7, <2>8, <2>9 DEF Forms
  <1> QED
    BY <1>1, <1>2

LEMMA FormIsForm ==
  ASSUME NEW h \in Heaps, NEW e \in Declared, NEW sensitive, sensitive = SensitiveSet(e),
         NEW below \in Layers(h, sensitive), NEW n \in Nodes, NEW seen \in SUBSET Nodes
  PROVE  Form(h, sensitive, below, n, seen) \in Forms(h, sensitive)
  <1> DEFINE form == Form(h, sensitive, below, n, seen)
  <1>1. h[n].kind \in NodeKinds /\ h[n].text \in Texts(h)
    BY HeapFacts
  <1>2. <<Unsupported>> \in Texts(h)
    BY DEF Texts
  <1>3. CASE h[n].kind = "nan" \/ n \in seen
    BY <1>3, FailsIsForm DEF Form
  <1>4. CASE ~(h[n].kind = "nan" \/ n \in seen) /\ h[n].kind \in {"none", "num"}
    <2>1. form = Leaf(h[n].kind, h[n].text)
      BY <1>4 DEF Form
    <2> QED
      BY <1>1, <1>4, <2>1, LeafIsForm
  <1>5. CASE ~(h[n].kind = "nan" \/ n \in seen) /\ h[n].kind = "str"
    <2>1. form = IF h[n].text # <<>> /\ MatchesPatterns(h[n].text) THEN Redact(h[n]) ELSE Leaf("str", h[n].text)
      BY <1>5 DEF Form
    <2>2. CASE h[n].text # <<>> /\ MatchesPatterns(h[n].text)
      BY <2>1, <2>2, RedactIsForm
    <2>3. CASE ~(h[n].text # <<>> /\ MatchesPatterns(h[n].text))
      <3>1. Leaf("str", h[n].text) \in Forms(h, sensitive)
        BY <1>1, <2>3, LeafIsForm
      <3> QED
        BY <2>1, <2>3, <3>1
    <2> QED
      BY <2>2, <2>3
  <1>6. CASE ~(h[n].kind = "nan" \/ n \in seen) /\ h[n].kind \in {"object", "oddkeys"}
    <2>1. form = Leaf("str", <<Unsupported>>)
      BY <1>6 DEF Form
    <2> QED
      BY <1>2, <2>1, LeafIsForm
  <1>7. CASE ~(h[n].kind = "nan" \/ n \in seen) /\ h[n].kind \in {"list", "dict", "record"}
    <2>1. PICK of : of = Contained(h, sensitive, below, h[n], seen \cup {n})
      OBVIOUS
    <2>2. form = Gathered(h[n], of)
      BY <1>7, <2>1 DEF Form
    <2>3. PICK inside \in SUBSET Nodes : inside = seen \cup {n}
      OBVIOUS
    <2>4. FormsFor(h, sensitive, h[n], Contained(h, sensitive, below, h[n], inside))
      BY <1>7, ContainedAreForms
    <2> QED
      BY <2>1, <2>2, <2>3, <2>4, GatheredIsForm
  <1> QED
    BY <1>1, <1>3, <1>4, <1>5, <1>6, <1>7 DEF NodeKinds

\* A form says at its top what its node is.
LEMMA FormTells ==
  ASSUME NEW h \in Heaps, NEW e \in Declared, NEW sensitive, sensitive = SensitiveSet(e),
         NEW below \in Layers(h, sensitive), NEW n \in Nodes, NEW seen \in SUBSET Nodes
  PROVE  Tells(h, n, Form(h, sensitive, below, n, seen))
  <1> DEFINE form == Form(h, sensitive, below, n, seen)
  <1>1. h[n].kind \in NodeKinds
    BY HeapFacts
  <1>2. Tells(h, n, Fails)
    BY DEF Fails, Tells
  <1>3. ASSUME NEW kind, NEW text \in {TextOf(h, n), <<Marker>>, <<Unsupported>>}
        PROVE  Tells(h, n, Leaf(kind, text))
    BY DEF Leaf, Position, Tells
  <1>4. Tells(h, n, Redact(h[n]))
    BY HeapFacts, RedactIsForm DEF Tells
  <1>5. CASE h[n].kind = "nan" \/ n \in seen
    BY <1>2, <1>5 DEF Form
  <1>6. CASE ~(h[n].kind = "nan" \/ n \in seen) /\ h[n].kind \in {"none", "num"}
    <2>1. form = Leaf(h[n].kind, h[n].text) /\ h[n].text = TextOf(h, n)
      BY <1>6 DEF Form, TextOf
    <2> QED
      BY <1>3, <2>1
  <1>7. CASE ~(h[n].kind = "nan" \/ n \in seen) /\ h[n].kind = "str"
    <2>1. /\ form = IF h[n].text # <<>> /\ MatchesPatterns(h[n].text) THEN Redact(h[n]) ELSE Leaf("str", h[n].text)
          /\ h[n].text = TextOf(h, n)
      BY <1>7 DEF Form, TextOf
    <2>2. Tells(h, n, Leaf("str", h[n].text))
      BY <1>3, <2>1
    <2> QED
      BY <1>4, <2>1, <2>2
  <1>8. CASE ~(h[n].kind = "nan" \/ n \in seen) /\ h[n].kind \in {"object", "oddkeys"}
    <2>1. form = Leaf("str", <<Unsupported>>)
      BY <1>8 DEF Form
    <2> QED
      BY <1>3, <2>1
  <1>9. CASE ~(h[n].kind = "nan" \/ n \in seen) /\ h[n].kind \in {"list", "dict", "record"}
    <2>1. PICK inside \in SUBSET Nodes : inside = seen \cup {n}
      OBVIOUS
    <2>2. PICK of : of = Contained(h, sensitive, below, h[n], inside)
      OBVIOUS
    <2>3. form = Gathered(h[n], of)
      BY <1>9, <2>1, <2>2 DEF Form
    <2>4. FormsFor(h, sensitive, h[n], of)
      BY <1>9, <2>2, ContainedAreForms
    <2>5. CASE ~Gathered(h[n], of).ok
      <3>1. Gathered(h[n], of) = Fails
        BY <2>5 DEF Gathered
      <3> QED
        BY <1>2, <2>3, <3>1
    <2>6. CASE Gathered(h[n], of).ok
      <3>1. PICK top : top = Position("container", <<Container>>)
        OBVIOUS
      <3>2. form.positions = {top} \cup UNION {Under(h[n].items[i].name, of[i]) : i \in DOMAIN of}
        BY <2>3, <2>6, <3>1, GatheredPositions
      <3>3. top.text = TextOf(h, n)
        BY <1>9, <3>1, ContainerPosition DEF TextOf
      <3>4. ASSUME NEW i \in DOMAIN of, NEW q \in Under(h[n].items[i].name, of[i])
            PROVE  q.at # <<>>
        <4>1. PICK name : name = h[n].items[i].name
          OBVIOUS
        <4>2. /\ name \in DOMAIN Fold /\ of[i] \in Forms(h, sensitive)
              /\ IsSensitive(name, sensitive) => \A p \in of[i].positions : p.at = <<>> /\ p.text = <<Marker>>
          BY <2>4, <4>1 DEF FormsFor
        <4>3. PICK p0 \in of[i].positions : IsUnder(q, name, p0)
          BY <3>4, <4>1, <4>2, UnderIsClean
        <4>4. p0.at \in Seq(DOMAIN Fold)
          BY <4>2 DEF Forms, Positions
        <4> QED
          BY <4>2, <4>3, <4>4, LongerPath DEF IsUnder
      <3> QED
        BY <3>2, <3>3, <3>4 DEF Tells
    <2> QED
      BY <2>5, <2>6
  <1> QED
    BY <1>1, <1>5, <1>6, <1>7, <1>8, <1>9 DEF NodeKinds

-----------------------------------------------------------------------------
(* The walk is what its definition says, down to every level.              *)

Layer(h, sensitive, below) ==
  [n \in Nodes |-> [seen \in SUBSET Nodes |-> Form(h, sensitive, below, n, seen)]]

NoLayer == [n \in Nodes |-> [seen \in SUBSET Nodes |-> Fails]]

IsWalk(h, sensitive, W) ==
  W = [f \in 0 .. MaxDepth + 1 |->
         [n \in Nodes |-> [seen \in SUBSET Nodes |->
            IF f = 0 THEN Fails ELSE Form(h, sensitive, W[f - 1], n, seen)]]]

LEMMA LayersAreClosed ==
  ASSUME NEW h \in Heaps, NEW e \in Declared, NEW sensitive, sensitive = SensitiveSet(e)
  PROVE  /\ NoLayer \in Layers(h, sensitive)
         /\ \A below \in Layers(h, sensitive) : Layer(h, sensitive, below) \in Layers(h, sensitive)
  <1>1. NoLayer \in Layers(h, sensitive)
    <2>1. \A n \in Nodes : Tells(h, n, Fails)
      BY DEF Fails, Tells
    <2> QED
      BY <2>1, FailsIsForm DEF NoLayer, Layers
  <1>2. ASSUME NEW below \in Layers(h, sensitive)
        PROVE  Layer(h, sensitive, below) \in Layers(h, sensitive)
    <2>1. \A n \in Nodes, seen \in SUBSET Nodes : Form(h, sensitive, below, n, seen) \in Forms(h, sensitive)
      BY FormIsForm
    <2>2. \A n \in Nodes, seen \in SUBSET Nodes : Tells(h, n, Form(h, sensitive, below, n, seen))
      BY FormTells
    <2> QED
      BY <2>1, <2>2 DEF Layer, Layers
  <1> QED
    BY <1>1, <1>2

LEMMA WalkExists ==
  ASSUME NEW h \in Heaps, NEW e \in Declared, NEW sensitive, sensitive = SensitiveSet(e)
  PROVE  \E W : IsWalk(h, sensitive, W)
  <1> DEFINE R == Layers(h, sensitive)
             step == [below \in R |-> Layer(h, sensitive, below)]
             N == MaxDepth + 1
  <1>1. N \in Nat
    BY DisclosureAssumption
  <1>2. NoLayer \in R /\ step \in [R -> R]
    BY LayersAreClosed
  <1>3. PICK W \in [0..N -> R] : W[0] = NoLayer /\ \A f \in 1..N : W[f] = step[W[f - 1]]
    <2>1. PICK base, move : base = NoLayer /\ move = step
      OBVIOUS
    <2> HIDE DEF R, step, N
    <2>2. base \in R /\ move \in [R -> R]
      BY <1>2, <2>1
    <2>3. HasRecursion(R, base, move, N)
      BY <1>1, <2>2, RecursionHolds, Zenon
    <2> QED
      BY <2>1, <2>3 DEF HasRecursion
  <1>4. ASSUME NEW f \in 0..N
        PROVE  W[f] = [n \in Nodes |-> [seen \in SUBSET Nodes |->
                         IF f = 0 THEN Fails ELSE Form(h, sensitive, W[f - 1], n, seen)]]
    <2>1. CASE f = 0
      BY <1>3, <2>1 DEF NoLayer
    <2>2. CASE f # 0
      <3>1. f \in 1..N /\ f - 1 \in 0..N
        BY <1>1, <2>2
      <3>2. W[f - 1] \in R
        BY <1>3, <3>1
      <3>3. W[f] = Layer(h, sensitive, W[f - 1])
        BY <1>3, <3>1, <3>2
      <3> QED
        BY <2>2, <3>3 DEF Layer
    <2> QED
      BY <2>1, <2>2
  <1>5. IsWalk(h, sensitive, W)
    BY <1>3, <1>4 DEF IsWalk
  <1> QED
    BY <1>5

LEMMA LevelsAreWalk ==
  ASSUME NEW h \in Heaps, NEW e \in Declared, NEW sensitive, sensitive = SensitiveSet(e)
  PROVE  IsWalk(h, sensitive, Levels(h, sensitive))
  <1>1. \E W : IsWalk(h, sensitive, W)
    BY WalkExists
  <1>2. Levels(h, sensitive) = CHOOSE W : IsWalk(h, sensitive, W)
    BY DEF Levels, IsWalk
  <1> QED
    BY <1>1, <1>2

\* A canonical form is made from layers that hold forms, the containers too.
LEMMA CanonicalIsForm ==
  ASSUME NEW h \in Heaps, NEW e \in Declared, NEW sensitive, sensitive = SensitiveSet(e), NEW n \in Nodes
  PROVE  /\ Canonicalize(h, n, sensitive) \in Forms(h, sensitive)
         /\ \E below \in Layers(h, sensitive) :
              Canonicalize(h, n, sensitive) = Form(h, sensitive, below, n, {})
  <1> DEFINE R == Layers(h, sensitive)
             W == Levels(h, sensitive)
             N == MaxDepth + 1
  <1>1. N \in Nat \ {0}
    BY DisclosureAssumption
  <1>2. /\ DOMAIN W = 0..N
        /\ \A f \in 0..N : W[f] = [m \in Nodes |-> [seen \in SUBSET Nodes |->
                                     IF f = 0 THEN Fails ELSE Form(h, sensitive, W[f - 1], m, seen)]]
    <2>1. IsWalk(h, sensitive, W)
      BY LevelsAreWalk
    <2> HIDE DEF W
    <2> QED
      BY <2>1 DEF IsWalk
  <1> HIDE DEF W, N
  <1>3. W[0] \in R
    <2>1. PICK f \in 0..N : f = 0
      BY <1>1
    <2>2. W[f] = [m \in Nodes |-> [seen \in SUBSET Nodes |->
                    IF f = 0 THEN Fails ELSE Form(h, sensitive, W[f - 1], m, seen)]]
      BY <1>2, Zenon
    <2>3. \A m \in Nodes, seen \in SUBSET Nodes :
            (IF f = 0 THEN Fails ELSE Form(h, sensitive, W[f - 1], m, seen)) = Fails
      BY <2>1
    <2>4. W[f] = NoLayer
      BY <2>2, <2>3, Zenon DEF NoLayer
    <2> QED
      BY <2>1, <2>4, LayersAreClosed
  <1>4. ASSUME NEW f \in 1..N PROVE W[f] = Layer(h, sensitive, W[f - 1])
    <2>1. f \in 0..N /\ f # 0
      BY <1>1
    <2> QED
      BY <1>2, <2>1 DEF Layer
  <1>5. \A f \in 1..N : W[f - 1] \in R => W[f] \in R
    BY <1>4, LayersAreClosed
  <1>6. \A f \in 0..N : W[f] \in R
    <2> HIDE DEF R
    <2> QED
      BY <1>1, <1>2, <1>3, <1>5, RecursionStays
  <1>7. N \in 1..N /\ N - 1 \in 0..N
    BY <1>1
  <1>8. W[N - 1] \in R /\ W[N] = Layer(h, sensitive, W[N - 1])
    BY <1>4, <1>6, <1>7
  <1>9. Canonicalize(h, n, sensitive) = W[N][n][{}]
    BY DEF Canonicalize, W, N
  <1>10. {} \in SUBSET Nodes
    OBVIOUS
  <1>11. Canonicalize(h, n, sensitive) = Form(h, sensitive, W[N - 1], n, {})
    BY <1>8, <1>9, <1>10 DEF Layer
  <1> QED
    BY <1>8, <1>10, <1>11, FormIsForm

\* The parameters of a value with named items: each item is one, and what is
\* deeper is inside one that is a container.
LEMMA NamedForm ==
  ASSUME NEW h \in Heaps, NEW e \in Declared, NEW sensitive, sensitive = SensitiveSet(e), NEW n \in Nodes,
         NEW P, P = Canonicalize(h, n, sensitive).positions,
         Canonicalize(h, n, sensitive).ok, Named(h[n])
  PROVE  /\ P \subseteq Positions(h)
         /\ \A p \in P : p.at # <<>> =>
              p \in Parameters(P) \/ \E q \in Parameters(P) : q.kind = "container"
         /\ \A i \in DOMAIN h[n].items : \E q \in Parameters(P) : q.at[1] = h[n].items[i].name
         /\ \A q \in Parameters(P) : \E i \in DOMAIN h[n].items :
              /\ q.at[1] = h[n].items[i].name
              /\ q.text \in {TextOf(h, h[n].items[i].node), <<Marker>>, <<Unsupported>>}
  <1>1. Canonicalize(h, n, sensitive) \in Forms(h, sensitive)
    BY CanonicalIsForm
  <1>2. P \subseteq Positions(h)
    BY <1>1 DEF Forms
  <1>3. PICK below \in Layers(h, sensitive) : Canonicalize(h, n, sensitive) = Form(h, sensitive, below, n, {})
    BY CanonicalIsForm
  <1>4. PICK inside \in SUBSET Nodes : inside = {} \cup {n}
    OBVIOUS
  <1>5. PICK of : of = Contained(h, sensitive, below, h[n], inside)
    OBVIOUS
  <1>6. h[n].kind \in {"list", "dict", "record"} /\ h[n].kind # "nan" /\ n \notin {}
    BY DEF Named
  <1>7. Canonicalize(h, n, sensitive) = Gathered(h[n], of)
    <2>1. /\ h[n].kind \notin {"none", "num"} /\ h[n].kind # "str"
          /\ h[n].kind \notin {"object", "oddkeys"}
      BY <1>6
    <2> QED
      BY <1>3, <1>4, <1>5, <1>6, <2>1 DEF Form
  <1>8. FormsFor(h, sensitive, h[n], of)
    BY <1>5, <1>6, ContainedAreForms
  <1>9. DOMAIN of = DOMAIN h[n].items
    BY <1>5 DEF Contained
  <1>10. PICK top : top = Position("container", <<Container>>)
    OBVIOUS
  <1>11. top.at = <<>>
    BY <1>10, ContainerPosition
  <1>12. /\ \A i \in DOMAIN of : of[i].ok
         /\ P = {top} \cup UNION {Under(h[n].items[i].name, of[i]) : i \in DOMAIN of}
    BY <1>7, <1>10, GatheredPositions
  <1>13. ASSUME NEW i \in DOMAIN of, NEW name, name = h[n].items[i].name
         PROVE  /\ \A q \in Under(name, of[i]) : q \in P /\ \E p \in of[i].positions : IsUnder(q, name, p)
                /\ \A p \in of[i].positions : \E q \in P : IsUnder(q, name, p)
                /\ Rooted(of[i].positions)
    <2>1. PICK w : w = of[i]
      OBVIOUS
    <2>2. /\ name \in DOMAIN Fold /\ w \in Forms(h, sensitive) /\ w.ok
          /\ IsSensitive(name, sensitive) => \A p \in w.positions : p.at = <<>> /\ p.text = <<Marker>>
      BY <1>8, <1>12, <1>13, <2>1 DEF FormsFor
    <2>3. /\ \A q \in Under(name, w) : \E p \in w.positions : IsUnder(q, name, p)
          /\ \A p \in w.positions : \E q \in Under(name, w) : IsUnder(q, name, p)
      BY <2>2, UnderIsClean
    <2>4. \A q \in Under(name, w) : q \in P
      BY <1>12, <1>13, <2>1
    <2>5. Rooted(w.positions)
      BY <2>2 DEF Forms
    <2> QED
      BY <2>1, <2>3, <2>4, <2>5
  <1>14. ASSUME NEW name, NEW p, p.at = <<>>, NEW q \in P, IsUnder(q, name, p)
         PROVE  q \in Parameters(P) /\ q.at[1] = name /\ q.kind = p.kind
    <2>1. q.at = <<name>> \o <<>> /\ q.kind = p.kind
      BY <1>14 DEF IsUnder
    <2>2. Len(q.at) = 1 /\ q.at[1] = name
      BY <2>1
    <2> QED
      BY <2>1, <2>2 DEF Parameters
  <1>15. ASSUME NEW p \in P, p.at # <<>>
         PROVE  p \in Parameters(P) \/ \E q \in Parameters(P) : q.kind = "container"
    <2>1. PICK i \in DOMAIN of : p \in Under(h[n].items[i].name, of[i])
      BY <1>11, <1>12, <1>15
    <2>2. PICK name : name = h[n].items[i].name
      OBVIOUS
    <2>3. PICK p0 \in of[i].positions : IsUnder(p, name, p0)
      BY <1>13, <2>1, <2>2
    <2>4. CASE p0.at = <<>>
      BY <1>14, <2>3, <2>4
    <2>5. CASE p0.at # <<>>
      <3>1. PICK q0 \in of[i].positions : q0.at = <<>> /\ q0.kind = "container"
        BY <1>13, <2>2, <2>5 DEF Rooted
      <3>2. PICK q \in P : IsUnder(q, name, q0)
        BY <1>13, <2>2
      <3> QED
        BY <1>14, <3>1, <3>2
    <2> QED
      BY <2>4, <2>5
  <1>16. ASSUME NEW i \in DOMAIN h[n].items
         PROVE  \E q \in Parameters(P) : q.at[1] = h[n].items[i].name
    <2>1. PICK name : name = h[n].items[i].name
      OBVIOUS
    <2>2. i \in DOMAIN of
      BY <1>9
    <2>3. PICK p0 \in of[i].positions : p0.at = <<>>
      BY <1>13, <2>1, <2>2 DEF Rooted
    <2>4. PICK q \in P : IsUnder(q, name, p0)
      BY <1>13, <2>1, <2>2
    <2> QED
      BY <1>14, <2>1, <2>3, <2>4
  <1>17. ASSUME NEW i \in DOMAIN of PROVE Tells(h, h[n].items[i].node, of[i])
    <2> DEFINE item == h[n].items[i]
    <2>1. item.node \in Nodes
      BY <1>9, HeapFacts
    <2>2. CASE IsSensitive(item.name, sensitive)
      <3>1. of[i] = Redact(h[item.node])
        BY <1>5, <1>9, <2>2 DEF Contained
      <3> QED
        BY <2>1, <3>1, RedactIsForm DEF Tells
    <2>3. CASE ~IsSensitive(item.name, sensitive)
      <3>1. of[i] = below[item.node][inside]
        BY <1>5, <1>9, <2>3 DEF Contained
      <3> QED
        BY <2>1, <3>1 DEF Layers
    <2> QED
      BY <2>2, <2>3
  <1>18. ASSUME NEW q \in Parameters(P)
         PROVE  \E i \in DOMAIN h[n].items :
                  /\ q.at[1] = h[n].items[i].name
                  /\ q.text \in {TextOf(h, h[n].items[i].node), <<Marker>>, <<Unsupported>>}
    <2>1. q \in P /\ Len(q.at) = 1 /\ q.at # <<>>
      <3>1. q \in P /\ Len(q.at) = 1
        BY DEF Parameters
      <3>2. q.at \in Seq(DOMAIN Fold)
        BY <1>2, <3>1 DEF Positions
      <3>3. \A at \in Seq(DOMAIN Fold) : at = <<>> => Len(at) = 0
        OBVIOUS
      <3>4. q.at = <<>> => 1 = 0
        BY <3>1, <3>2, <3>3, Zenon
      <3> QED
        BY <3>1, <3>4
    <2>2. PICK i \in DOMAIN of : q \in Under(h[n].items[i].name, of[i])
      BY <1>11, <1>12, <2>1
    <2>3. PICK name : name = h[n].items[i].name
      OBVIOUS
    <2>4. PICK p0 \in of[i].positions : IsUnder(q, name, p0)
      BY <1>13, <2>2, <2>3
    <2>5. name \in DOMAIN Fold /\ p0.at \in Seq(DOMAIN Fold)
      <3>1. of[i] \in Forms(h, sensitive) /\ name \in DOMAIN Fold
        BY <1>8, <2>3 DEF FormsFor
      <3> QED
        BY <3>1 DEF Forms, Positions
    <2>6. Len(q.at) = Len(p0.at) + 1 /\ q.at[1] = name /\ Len(p0.at) \in Nat /\ q.text = p0.text
      BY <2>4, <2>5, LongerPath DEF IsUnder
    <2>7. p0.at = <<>>
      <3>1. PICK len \in Nat : len = Len(p0.at)
        BY <2>6
      <3>2. len + 1 = 1
        BY <2>1, <2>6, <3>1, Zenon
      <3>3. len = 0
        BY <3>2
      <3>4. \A at \in Seq(DOMAIN Fold) : Len(at) = 0 => at = <<>>
        OBVIOUS
      <3> QED
        BY <2>5, <3>1, <3>3, <3>4
    <2>8. p0.text \in {TextOf(h, h[n].items[i].node), <<Marker>>, <<Unsupported>>}
      BY <1>17, <2>4, <2>7 DEF Tells
    <2> QED
      BY <1>9, <2>3, <2>6, <2>8
  <1> QED
    BY <1>2, <1>15, <1>16, <1>18

-----------------------------------------------------------------------------
(* What the readers conclude from the classes.                             *)

LEMMA StateFacts ==
  ASSUME NEW p
  PROVE  State(p) \in {"redacted", "unsupported", "retained"}
         /\ (State(p) = "redacted" => p.kind = "str" /\ p.text = <<Marker>>)
  BY DEF State

LEMMA RetentionTells ==
  ASSUME NEW P, ClassifyRetention(Retention(P)) \notin {"partially_redacted", "unknown"}
  PROVE  \A p \in Parameters(P) : State(p) = "redacted"
  <1> SUFFICES ASSUME NEW p \in Parameters(P) PROVE State(p) = "redacted"
    OBVIOUS
  <1>1. PICK r : r = [name |-> p.at[1], state |-> State(p)]
    OBVIOUS
  <1>2. r \in Retention(P) /\ r.state = State(p)
    BY <1>1 DEF Retention
  <1>3. PICK states : states = {x.state : x \in Retention(P)}
    OBVIOUS
  <1>4. State(p) \in states
    BY <1>2, <1>3
  <1>5. ClassOf(states) \notin {"partially_redacted", "unknown"}
    BY <1>2, <1>3 DEF ClassifyRetention
  <1>6. "unsupported" \notin states /\ "retained" \notin states
    BY <1>5 DEF ClassOf
  <1> QED
    BY <1>4, <1>6, StateFacts

-----------------------------------------------------------------------------
\* Induction downwards from n + 1.
LEMMA Downwards ==
  ASSUME NEW n \in Nat, NEW T,
         \A i \in 1..(n + 1) : (\A j \in (i + 1)..(n + 1) : j \in T) => i \in T
  PROVE  \A i \in 1..(n + 1) : i \in T
  <1> DEFINE Bad == {d \in Nat : d <= n /\ n + 1 - d \notin T}
  <1>1. ASSUME Bad # {} PROVE FALSE
    <2>1. PICK d \in Bad : \A e \in Bad : d <= e
      <3>1. Bad \subseteq Nat
        OBVIOUS
      <3> HIDE DEF Bad
      <3> QED
        BY <1>1, <3>1, LeastNatural
    <2>2. PICK i : i = n + 1 - d
      OBVIOUS
    <2>3. d \in Nat /\ d <= n /\ i \in 1..(n + 1) /\ i \notin T
      BY <2>1, <2>2
    <2>4. ASSUME NEW j \in (i + 1)..(n + 1) PROVE j \in T
      <3>1. PICK e : e = n + 1 - j
        OBVIOUS
      <3>2. e \in Nat /\ e <= n /\ n + 1 - e = j /\ ~(d <= e)
        BY <2>2, <2>3, <2>4, <3>1
      <3> QED
        BY <2>1, <3>2
    <2> QED
      BY <2>3, <2>4
  <1>2. ASSUME NEW i \in 1..(n + 1) PROVE i \in T
    <2>1. PICK d : d = n + 1 - i
      OBVIOUS
    <2>2. d \in Nat /\ d <= n /\ n + 1 - d = i
      BY <2>1
    <2> QED
      BY <1>1, <2>2
  <1> QED
    BY <1>2

-----------------------------------------------------------------------------
(* Replacing a part of a text: the recursion over the places of the text.  *)

ReplaceStep(text, old, F, i) ==
  IF i + Len(old) > Len(text) + 1 THEN SubSeq(text, i, Len(text))
  ELSE IF SubSeq(text, i, i + Len(old) - 1) = old
       THEN <<Marker>> \o F[i + Len(old)]
       ELSE <<text[i]>> \o F[i + 1]

IsReplace(text, old, F, low) ==
  F = [i \in low..(Len(text) + 1) |-> ReplaceStep(text, old, F, i)]

LEMMA ReplaceSolved ==
  ASSUME NEW A, NEW text \in Seq(A), NEW old \in Seq(A), old # <<>>
  PROVE  \E F : IsReplace(text, old, F, 1)
  <1> DEFINE T == {i \in 1..(Len(text) + 1) : \E F : IsReplace(text, old, F, i)}
  <1>1. Len(text) \in Nat /\ Len(old) \in Nat \ {0}
    OBVIOUS
  <1>2. ASSUME NEW low \in 1..(Len(text) + 1), \A j \in (low + 1)..(Len(text) + 1) : j \in T
        PROVE  low \in T
    <2>1. CASE low = Len(text) + 1
      <3> DEFINE F == [i \in low..(Len(text) + 1) |-> SubSeq(text, i, Len(text))]
      <3>1. ASSUME NEW i \in low..(Len(text) + 1) PROVE ReplaceStep(text, old, F, i) = SubSeq(text, i, Len(text))
        <4>1. i + Len(old) > Len(text) + 1
          BY <1>1, <2>1
        <4> QED
          BY <4>1 DEF ReplaceStep
      <3>2. IsReplace(text, old, F, low)
        BY <3>1 DEF IsReplace
      <3> QED
        BY <3>2
    <2>2. CASE low # Len(text) + 1
      <3>1. low + 1 \in (low + 1)..(Len(text) + 1)
        BY <1>1, <2>2
      <3>2. PICK G : IsReplace(text, old, G, low + 1)
        BY <1>2, <3>1
      <3> DEFINE F == [i \in low..(Len(text) + 1) |-> ReplaceStep(text, old, G, i)]
      <3>3. ASSUME NEW i \in (low + 1)..(Len(text) + 1) PROVE F[i] = G[i]
        <4>1. i \in low..(Len(text) + 1)
          BY <1>1
        <4>2. G[i] = ReplaceStep(text, old, G, i)
          BY <3>2, <3>3, Zenon DEF IsReplace
        <4> QED
          BY <4>1, <4>2
      <3> HIDE DEF F
      <3>4. ASSUME NEW i \in low..(Len(text) + 1)
            PROVE  ReplaceStep(text, old, F, i) = ReplaceStep(text, old, G, i)
        <4>1. CASE i + Len(old) > Len(text) + 1
          BY <4>1 DEF ReplaceStep
        <4>2. CASE ~(i + Len(old) > Len(text) + 1)
          <5>1. i + 1 \in (low + 1)..(Len(text) + 1) /\ i + Len(old) \in (low + 1)..(Len(text) + 1)
            BY <1>1, <4>2
          <5>2. F[i + 1] = G[i + 1] /\ F[i + Len(old)] = G[i + Len(old)]
            BY <3>3, <5>1
          <5> QED
            BY <5>2 DEF ReplaceStep
        <4> QED
          BY <4>1, <4>2
      <3>5. F = [i \in low..(Len(text) + 1) |-> ReplaceStep(text, old, F, i)]
        <4>1. F = [i \in low..(Len(text) + 1) |-> ReplaceStep(text, old, G, i)]
          BY DEF F
        <4> QED
          BY <3>4, <4>1, Zenon
      <3>6. IsReplace(text, old, F, low)
        BY <3>5, Zenon DEF IsReplace
      <3> QED
        BY <3>6
    <2> QED
      BY <2>1, <2>2
  <1>3. 1 \in 1..(Len(text) + 1)
    BY <1>1
  <1>4. 1 \in T
    <2> HIDE DEF T
    <2> QED
      BY <1>1, <1>2, <1>3, Downwards
  <1> QED
    BY <1>4

\* F[i] is what the text from i on becomes.
Replaces(text, old, F) ==
  /\ Replace(text, old) = F[1]
  /\ \A i \in 1..(Len(text) + 1) : F[i] = ReplaceStep(text, old, F, i)

LEMMA ReplaceIs ==
  ASSUME NEW A, NEW text \in Seq(A), NEW old \in Seq(A), old # <<>>
  PROVE  \E F : Replaces(text, old, F)
  <1> DEFINE From == CHOOSE From : From = [i \in 1..(Len(text) + 1) |->
                        IF i + Len(old) > Len(text) + 1 THEN SubSeq(text, i, Len(text))
                        ELSE IF SubSeq(text, i, i + Len(old) - 1) = old
                             THEN <<Marker>> \o From[i + Len(old)]
                             ELSE <<text[i]>> \o From[i + 1]]
  <1>1. PICK F : IsReplace(text, old, F, 1)
    BY ReplaceSolved
  <1>2. F = [i \in 1..(Len(text) + 1) |->
                        IF i + Len(old) > Len(text) + 1 THEN SubSeq(text, i, Len(text))
                        ELSE IF SubSeq(text, i, i + Len(old) - 1) = old
                             THEN <<Marker>> \o F[i + Len(old)]
                             ELSE <<text[i]>> \o F[i + 1]]
    BY <1>1, Zenon DEF IsReplace, ReplaceStep
  <1>3. From = [i \in 1..(Len(text) + 1) |->
                        IF i + Len(old) > Len(text) + 1 THEN SubSeq(text, i, Len(text))
                        ELSE IF SubSeq(text, i, i + Len(old) - 1) = old
                             THEN <<Marker>> \o From[i + Len(old)]
                             ELSE <<text[i]>> \o From[i + 1]]
    BY <1>2, Zenon
  <1>4. Replace(text, old) = From[1]
    BY DEF Replace
  <1> HIDE DEF From
  <1>5. \A i \in 1..(Len(text) + 1) : From[i] = ReplaceStep(text, old, From, i)
    BY <1>3, Zenon DEF ReplaceStep
  <1> QED
    BY <1>4, <1>5 DEF Replaces

\* Letters stay what they were, or become a marker.
LEMMA ReplaceStays ==
  ASSUME NEW A, NEW text \in Seq(A), Marker \in A, NEW B, NEW old \in Seq(B), old # <<>>
  PROVE  Replace(text, old) \in Seq(A)
  <1>1. text \in Seq(A \cup B) /\ old \in Seq(A \cup B)
    OBVIOUS
  <1>2. PICK F : Replaces(text, old, F)
    BY <1>1, ReplaceIs
  <1> DEFINE T == {i \in 1..(Len(text) + 1) : F[i] \in Seq(A)}
  <1>3. Len(text) \in Nat /\ Len(old) \in Nat \ {0}
    OBVIOUS
  <1>4. ASSUME NEW i \in 1..(Len(text) + 1), \A j \in (i + 1)..(Len(text) + 1) : j \in T
        PROVE  i \in T
    <2>1. F[i] = ReplaceStep(text, old, F, i)
      BY <1>2 DEF Replaces
    <2>2. CASE i + Len(old) > Len(text) + 1
      <3>1. SubSeq(text, i, Len(text)) \in Seq(A)
        BY <1>3
      <3> QED
        BY <2>1, <2>2, <3>1 DEF ReplaceStep
    <2>3. CASE ~(i + Len(old) > Len(text) + 1)
      <3>1. i + 1 \in (i + 1)..(Len(text) + 1) /\ i + Len(old) \in (i + 1)..(Len(text) + 1)
        BY <1>3, <2>3
      <3>2. F[i + 1] \in Seq(A) /\ F[i + Len(old)] \in Seq(A) /\ text[i] \in A
        BY <1>3, <1>4, <3>1
      <3>3. <<Marker>> \o F[i + Len(old)] \in Seq(A) /\ <<text[i]>> \o F[i + 1] \in Seq(A)
        BY <3>2
      <3> QED
        BY <2>1, <2>3, <3>3 DEF ReplaceStep
    <2> QED
      BY <2>2, <2>3
  <1>5. 1 \in 1..(Len(text) + 1)
    BY <1>3
  <1>6. 1 \in T
    <2> HIDE DEF T
    <2> QED
      BY <1>3, <1>4, <1>5, Downwards
  <1> QED
    BY <1>2, <1>6 DEF Replaces

\* A text no longer than the part has no place for it, or is the part.
LEMMA ReplaceWhole ==
  ASSUME NEW A, NEW text \in Seq(A), NEW old \in Seq(A), old # <<>>, Len(text) <= Len(old)
  PROVE  Replace(text, old) = IF text = old THEN <<Marker>> ELSE text
  <1>1. PICK F : Replaces(text, old, F)
    BY ReplaceIs
  <1>2. Len(text) \in Nat /\ Len(old) \in Nat \ {0}
    OBVIOUS
  <1>3. F[1] = ReplaceStep(text, old, F, 1)
    BY <1>1, <1>2 DEF Replaces
  <1>4. SubSeq(text, 1, Len(text)) = text
    OBVIOUS
  <1>5. CASE Len(text) < Len(old)
    <2>1. 1 + Len(old) > Len(text) + 1 /\ text # old
      BY <1>2, <1>5
    <2> QED
      BY <1>1, <1>3, <1>4, <2>1 DEF ReplaceStep, Replaces
  <1>6. CASE Len(text) = Len(old)
    <2>1. /\ ~(1 + Len(old) > Len(text) + 1) /\ 1 + Len(old) - 1 = Len(text)
          /\ Len(text) + 1 \in 1..(Len(text) + 1) /\ 1 + 1 \in 1..(Len(text) + 1)
          /\ 1 + Len(old) = Len(text) + 1
      BY <1>2, <1>6
    <2>2. F[1] = IF text = old THEN <<Marker>> \o F[Len(text) + 1] ELSE <<text[1]>> \o F[2]
      BY <1>3, <1>4, <2>1 DEF ReplaceStep
    <2>3. F[Len(text) + 1] = <<>>
      <3>1. F[Len(text) + 1] = ReplaceStep(text, old, F, Len(text) + 1)
        BY <1>1, <2>1 DEF Replaces
      <3>2. (Len(text) + 1) + Len(old) > Len(text) + 1
        BY <1>2
      <3>3. SubSeq(text, Len(text) + 1, Len(text)) = <<>>
        BY <1>2
      <3> QED
        BY <3>1, <3>2, <3>3 DEF ReplaceStep
    <2>4. F[2] = SubSeq(text, 2, Len(text))
      <3>1. F[2] = ReplaceStep(text, old, F, 2)
        BY <1>1, <2>1 DEF Replaces
      <3>2. 2 + Len(old) > Len(text) + 1
        BY <1>2, <1>6
      <3> QED
        BY <3>1, <3>2 DEF ReplaceStep
    <2>5. <<text[1]>> \o SubSeq(text, 2, Len(text)) = text
      BY <1>2, <1>6
    <2>6. <<Marker>> \o <<>> = <<Marker>>
      OBVIOUS
    <2> QED
      BY <1>1, <2>2, <2>3, <2>4, <2>5, <2>6 DEF Replaces
  <1> QED
    BY <1>2, <1>5, <1>6

-----------------------------------------------------------------------------
(* Two texts with a quote between them: a part without a quote is replaced *)
(* in each of them.                                                         *)

\* Sequences with the same length and the same elements are the same.
LEMMA SameSequence ==
  ASSUME NEW A, NEW s \in Seq(A), NEW t \in Seq(A), Len(s) = Len(t), \A i \in 1..Len(s) : s[i] = t[i]
  PROVE  s = t
  OBVIOUS

IsJoined(A, x, y, z) ==
  /\ z \in Seq(A) /\ Len(z) = Len(x) + 1 + Len(y)
  /\ Len(x) \in Nat /\ Len(y) \in Nat
  /\ \A i \in 1..Len(x) : z[i] = x[i]
  /\ z[Len(x) + 1] = Quote
  /\ \A i \in 1..Len(y) : z[Len(x) + 1 + i] = y[i]

LEMMA Joined ==
  ASSUME NEW A, NEW x \in Seq(A), NEW y \in Seq(A), Quote \in A, NEW z, z = x \o <<Quote>> \o y
  PROVE  IsJoined(A, x, y, z)
  <1>1. PICK w : w = x \o <<Quote>>
    OBVIOUS
  <1>2. <<Quote>> \in Seq(A) /\ Len(<<Quote>>) = 1 /\ <<Quote>>[1] = Quote
    OBVIOUS
  <1>3. /\ w \in Seq(A) /\ Len(w) = Len(x) + 1 /\ Len(x) \in Nat
        /\ \A i \in 1..Len(x) : w[i] = x[i]
        /\ w[Len(x) + 1] = Quote
    BY <1>1, <1>2
  <1>4. z = w \o y
    BY <1>1
  <1>5. /\ z \in Seq(A) /\ Len(z) = Len(w) + Len(y) /\ Len(y) \in Nat
        /\ \A i \in 1..Len(w) : z[i] = w[i]
        /\ \A i \in 1..Len(y) : z[Len(w) + i] = y[i]
    BY <1>3, <1>4
  <1> QED
    BY <1>3, <1>5 DEF IsJoined

\* s is what is from k to l in z.
IsPiece(A, z, k, l, s) ==
  /\ s \in Seq(A) /\ Len(s) = IF k <= l THEN l - k + 1 ELSE 0
  /\ \A j \in 1..Len(s) : s[j] = z[k + j - 1]

LEMMA PieceIs ==
  ASSUME NEW A, NEW z \in Seq(A), NEW k \in 1..(Len(z) + 1), NEW l \in 0..Len(z),
         NEW s, s = SubSeq(z, k, l)
  PROVE  IsPiece(A, z, k, l, s)
  <1>1. k \in Nat \ {0} /\ l \in Nat /\ l <= Len(z) /\ Len(z) \in Nat
    OBVIOUS
  <1>2. s \in Seq(A)
    BY <1>1
  <1>3. s = [j \in 1..(l - k + 1) |-> z[k + j - 1]]
    BY <1>1
  <1>4. Len(s) = IF k <= l THEN l - k + 1 ELSE 0
    BY <1>1
  <1>5. \A j \in 1..Len(s) : j \in 1..(l - k + 1)
    BY <1>1, <1>4
  <1> QED
    BY <1>2, <1>3, <1>4, <1>5 DEF IsPiece

\* The pieces of it.
HasPieces(x, y, z) ==
  /\ \A i \in 1..(Len(x) + 1), m \in 0..Len(x) : SubSeq(z, i, m) = SubSeq(x, i, m)
  /\ \A i \in 1..(Len(y) + 1), m \in 0..Len(y) :
       SubSeq(z, Len(x) + 1 + i, Len(x) + 1 + m) = SubSeq(y, i, m)
  /\ \A i \in 1..(Len(x) + 1) :
       SubSeq(z, i, Len(z)) = SubSeq(x, i, Len(x)) \o <<Quote>> \o y

LEMMA JoinedPieces ==
  ASSUME NEW A, NEW x \in Seq(A), NEW y \in Seq(A), Quote \in A, NEW z, z = x \o <<Quote>> \o y
  PROVE  HasPieces(x, y, z)
  <1>1. /\ z \in Seq(A) /\ Len(z) = Len(x) + 1 + Len(y)
        /\ Len(x) \in Nat /\ Len(y) \in Nat
        /\ \A i \in 1..Len(x) : z[i] = x[i]
        /\ z[Len(x) + 1] = Quote
        /\ \A i \in 1..Len(y) : z[Len(x) + 1 + i] = y[i]
    BY Joined DEF IsJoined
  <1>2. ASSUME NEW i \in 1..(Len(x) + 1), NEW m \in 0..Len(x) PROVE SubSeq(z, i, m) = SubSeq(x, i, m)
    <2>1. PICK s, t : s = SubSeq(z, i, m) /\ t = SubSeq(x, i, m)
      OBVIOUS
    <2>2. /\ s \in Seq(A) /\ t \in Seq(A) /\ Len(s) = Len(t)
          /\ \A j \in 1..Len(s) : s[j] = z[i + j - 1] /\ t[j] = x[i + j - 1] /\ i + j - 1 \in 1..Len(x)
      <3>1. z \in Seq(A) /\ i \in 1..(Len(z) + 1) /\ m \in 0..Len(z)
        BY <1>1
      <3>2. IsPiece(A, z, i, m, s)
        BY <2>1, <3>1, PieceIs, Zenon
      <3>3. IsPiece(A, x, i, m, t)
        BY <2>1, PieceIs, Zenon
      <3>4. Len(s) = IF i <= m THEN m - i + 1 ELSE 0
        BY <3>2 DEF IsPiece
      <3>5. \A j \in 1..Len(s) : i + j - 1 \in 1..Len(x)
        BY <1>1, <3>4
      <3> QED
        BY <3>2, <3>3, <3>5 DEF IsPiece
    <2> QED
      BY <1>1, <2>1, <2>2, SameSequence
  <1>3. ASSUME NEW i \in 1..(Len(y) + 1), NEW m \in 0..Len(y)
        PROVE  SubSeq(z, Len(x) + 1 + i, Len(x) + 1 + m) = SubSeq(y, i, m)
    <2>1. PICK s, t : s = SubSeq(z, Len(x) + 1 + i, Len(x) + 1 + m) /\ t = SubSeq(y, i, m)
      OBVIOUS
    <2>2. /\ s \in Seq(A) /\ t \in Seq(A) /\ Len(s) = Len(t)
          /\ \A j \in 1..Len(s) : s[j] = z[Len(x) + 1 + (i + j - 1)] /\ t[j] = y[i + j - 1]
                                   /\ i + j - 1 \in 1..Len(y)
      <3>1. PICK k, l : k = Len(x) + 1 + i /\ l = Len(x) + 1 + m
        OBVIOUS
      <3>2. /\ k \in 1..(Len(z) + 1) /\ l \in 0..Len(z) /\ l - k = m - i /\ i \in Nat /\ m \in Nat
            /\ s = SubSeq(z, k, l) /\ z \in Seq(A)
        BY <1>1, <2>1, <3>1
      <3>3. IsPiece(A, z, k, l, s)
        BY <3>2, PieceIs, Zenon
      <3>4. IsPiece(A, y, i, m, t)
        BY <2>1, PieceIs, Zenon
      <3>5. Len(s) = Len(t)
        BY <1>1, <3>1, <3>2, <3>3, <3>4 DEF IsPiece
      <3>6. ASSUME NEW j \in 1..Len(s)
            PROVE  k + j - 1 = Len(x) + 1 + (i + j - 1) /\ i + j - 1 \in 1..Len(y)
        <4>1. Len(s) = IF k <= l THEN l - k + 1 ELSE 0
          BY <3>3 DEF IsPiece
        <4> QED
          BY <1>1, <3>1, <3>2, <4>1
      <3> QED
        BY <3>3, <3>4, <3>5, <3>6 DEF IsPiece
    <2> QED
      BY <1>1, <2>1, <2>2, SameSequence
  <1>4. ASSUME NEW i \in 1..(Len(x) + 1)
        PROVE  SubSeq(z, i, Len(z)) = SubSeq(x, i, Len(x)) \o <<Quote>> \o y
    <2>1. PICK s, r, t : s = SubSeq(z, i, Len(z)) /\ r = SubSeq(x, i, Len(x)) /\ t = r \o <<Quote>> \o y
      OBVIOUS
    <2>2. r \in Seq(A) /\ Len(r) = Len(x) + 1 - i /\ \A j \in 1..Len(r) : r[j] = x[i + j - 1]
      <3>1. Len(x) \in 0..Len(x)
        BY <1>1
      <3>2. IsPiece(A, x, i, Len(x), r)
        BY <2>1, <3>1, PieceIs, Zenon
      <3>3. (IF i <= Len(x) THEN Len(x) - i + 1 ELSE 0) = Len(x) + 1 - i
        BY <1>1
      <3> QED
        BY <3>2, <3>3 DEF IsPiece
    <2>3. /\ t \in Seq(A) /\ Len(t) = Len(r) + 1 + Len(y)
          /\ \A j \in 1..Len(r) : t[j] = r[j]
          /\ t[Len(r) + 1] = Quote
          /\ \A j \in 1..Len(y) : t[Len(r) + 1 + j] = y[j]
      <3>1. IsJoined(A, r, y, t)
        BY <2>1, <2>2, Joined, Zenon
      <3> QED
        BY <3>1 DEF IsJoined
    <2>4. s \in Seq(A) /\ Len(s) = Len(t) /\ \A j \in 1..Len(s) : s[j] = z[i + j - 1]
      <3>1. z \in Seq(A) /\ i \in 1..(Len(z) + 1) /\ Len(z) \in 0..Len(z)
        BY <1>1
      <3>2. IsPiece(A, z, i, Len(z), s)
        BY <2>1, <3>1, PieceIs, Zenon
      <3>3. Len(s) = IF i <= Len(z) THEN Len(z) - i + 1 ELSE 0
        BY <3>2 DEF IsPiece
      <3>4. Len(s) = Len(t)
        BY <1>1, <2>2, <2>3, <3>3
      <3> QED
        BY <3>2, <3>4 DEF IsPiece
    <2>5. ASSUME NEW j \in 1..Len(s) PROVE s[j] = t[j]
      <3>1. CASE j <= Len(r)
        <4>1. j \in 1..Len(r) /\ i + j - 1 \in 1..Len(x)
          BY <1>1, <2>2, <3>1
        <4> QED
          BY <1>1, <2>2, <2>3, <2>4, <2>5, <4>1
      <3>2. CASE j = Len(r) + 1
        <4>1. i + j - 1 = Len(x) + 1
          BY <1>1, <2>2, <3>2
        <4> QED
          BY <1>1, <2>3, <2>4, <2>5, <3>2, <4>1
      <3>3. CASE j > Len(r) + 1
        <4>1. PICK l : l = j - Len(r) - 1
          OBVIOUS
        <4>2. l \in 1..Len(y) /\ j = Len(r) + 1 + l /\ i + j - 1 = Len(x) + 1 + l
          BY <1>1, <2>2, <2>3, <2>4, <2>5, <3>3, <4>1
        <4> QED
          BY <1>1, <2>3, <2>4, <2>5, <4>2
      <3> QED
        BY <1>1, <2>2, <3>1, <3>2, <3>3
    <2> QED
      BY <2>1, <2>3, <2>4, <2>5, SameSequence
  <1> QED
    BY <1>2, <1>3, <1>4 DEF HasPieces

Before(s, x, y) == s \o (x \o <<Quote>> \o y) = (s \o x) \o <<Quote>> \o y

LEMMA InFront ==
  ASSUME NEW B, NEW letter \in B, NEW x \in Seq(B), NEW y \in Seq(B), Quote \in B
  PROVE  Before(<<letter>>, x, y)
  <1>1. <<letter>> \in Seq(B) /\ x \in Seq(B) /\ <<Quote>> \in Seq(B) /\ y \in Seq(B)
    OBVIOUS
  <1>2. PICK w : w = x \o <<Quote>>
    OBVIOUS
  <1>3. w \in Seq(B) /\ <<letter>> \o (w \o y) = (<<letter>> \o w) \o y
    BY <1>1, <1>2
  <1>4. <<letter>> \o w = (<<letter>> \o x) \o <<Quote>>
    BY <1>1, <1>2
  <1> QED
    BY <1>2, <1>3, <1>4 DEF Before

Said(x, y) == x \o <<Quote>> \o y

LEMMA ReplaceApart ==
  ASSUME NEW A, Quote \in A, NEW x \in Seq(A), NEW y \in Seq(A), NEW old \in Seq(A \ {Quote}), old # <<>>
  PROVE  Replace(Said(x, y), old) = Said(Replace(x, old), Replace(y, old))
  <1>0. PICK B : B = A \cup {Marker}
    OBVIOUS
  <1>1. PICK z : z = x \o <<Quote>> \o y
    OBVIOUS
  <1>2. /\ z \in Seq(A) /\ Len(z) = Len(x) + 1 + Len(y)
        /\ Len(x) \in Nat /\ Len(y) \in Nat
        /\ \A i \in 1..Len(x) : z[i] = x[i]
        /\ z[Len(x) + 1] = Quote
        /\ \A i \in 1..Len(y) : z[Len(x) + 1 + i] = y[i]
    BY <1>1, Joined DEF IsJoined
  <1>3. /\ \A i \in 1..(Len(x) + 1), m \in 0..Len(x) : SubSeq(z, i, m) = SubSeq(x, i, m)
        /\ \A i \in 1..(Len(y) + 1), m \in 0..Len(y) :
             SubSeq(z, Len(x) + 1 + i, Len(x) + 1 + m) = SubSeq(y, i, m)
        /\ \A i \in 1..(Len(x) + 1) :
             SubSeq(z, i, Len(z)) = SubSeq(x, i, Len(x)) \o <<Quote>> \o y
    <2>1. HasPieces(x, y, z)
      BY <1>1, JoinedPieces, Zenon
    <2> QED
      BY <2>1 DEF HasPieces
  <1>4. old \in Seq(A) /\ Len(old) \in Nat \ {0} /\ \A j \in 1..Len(old) : old[j] # Quote
    OBVIOUS
  <1>5. PICK F, X, Y : Replaces(z, old, F) /\ Replaces(x, old, X) /\ Replaces(y, old, Y)
    BY <1>2, <1>4, ReplaceIs
  \* No occurrence holds the quote.
  <1>6. ASSUME NEW i \in 1..(Len(x) + 1), NEW m \in (Len(x) + 1)..Len(z) PROVE SubSeq(z, i, m) # old
    <2>1. PICK s, j : s = SubSeq(z, i, m) /\ j = Len(x) + 2 - i
      OBVIOUS
    <2>2. j \in 1..Len(s) /\ s[j] = Quote
      BY <1>2, <2>1
    <2> QED
      BY <1>4, <2>1, <2>2
  <1>7. \A i \in 1..(Len(y) + 1) : F[Len(x) + 1 + i] = Y[i]
    <2> DEFINE T == {i \in 1..(Len(y) + 1) : F[Len(x) + 1 + i] = Y[i]}
    <2>1. ASSUME NEW i \in 1..(Len(y) + 1), \A j \in (i + 1)..(Len(y) + 1) : j \in T
          PROVE  i \in T
      <3>1. PICK k : k = Len(x) + 1 + i
        OBVIOUS
      <3>2. k \in 1..(Len(z) + 1)
        BY <1>2, <3>1
      <3>3. F[k] = ReplaceStep(z, old, F, k) /\ Y[i] = ReplaceStep(y, old, Y, i)
        BY <1>5, <3>2 DEF Replaces
      <3>4. CASE i + Len(old) > Len(y) + 1
        <4>1. k + Len(old) > Len(z) + 1
          BY <1>2, <1>4, <3>1, <3>4
        <4>2. SubSeq(z, k, Len(z)) = SubSeq(y, i, Len(y))
          BY <1>2, <1>3, <3>1
        <4> QED
          BY <3>1, <3>3, <3>4, <4>1, <4>2 DEF ReplaceStep
      <3>5. CASE ~(i + Len(old) > Len(y) + 1)
        <4>1. /\ ~(k + Len(old) > Len(z) + 1)
              /\ i + 1 \in (i + 1)..(Len(y) + 1) /\ i + Len(old) \in (i + 1)..(Len(y) + 1)
              /\ i \in 1..Len(y) /\ i + Len(old) - 1 \in 0..Len(y)
          BY <1>2, <1>4, <3>1, <3>5
        <4>2. F[k + 1] = Y[i + 1] /\ F[k + Len(old)] = Y[i + Len(old)]
          <5>1. i + 1 \in T /\ i + Len(old) \in T
            BY <2>1, <4>1
          <5>2. k + 1 = Len(x) + 1 + (i + 1) /\ k + Len(old) = Len(x) + 1 + (i + Len(old))
            BY <1>2, <1>4, <3>1
          <5> QED
            BY <5>1, <5>2
        <4>3. z[k] = y[i]
          BY <1>2, <3>1, <4>1
        <4>4. SubSeq(z, k, k + Len(old) - 1) = SubSeq(y, i, i + Len(old) - 1)
          <5>1. k + Len(old) - 1 = Len(x) + 1 + (i + Len(old) - 1)
            BY <1>2, <1>4, <3>1
          <5> QED
            BY <1>3, <3>1, <4>1, <5>1
        <4> QED
          BY <3>1, <3>3, <3>5, <4>1, <4>2, <4>3, <4>4 DEF ReplaceStep
      <3> QED
        BY <3>4, <3>5
    <2>2. \A i \in 1..(Len(y) + 1) : i \in T
      <3> HIDE DEF T
      <3> QED
        BY <1>2, <2>1, Downwards
    <2> QED
      BY <2>2
  <1>8. \A i \in 1..(Len(x) + 1) : F[i] = X[i] \o <<Quote>> \o Y[1] /\ X[i] \in Seq(B)
    <2> DEFINE T == {i \in 1..(Len(x) + 1) :
                       F[i] = X[i] \o <<Quote>> \o Y[1] /\ X[i] \in Seq(B)}
    <2>1. Y[1] \in Seq(B)
      <3>1. y \in Seq(B) /\ Marker \in B
        BY <1>0
      <3>2. Replace(y, old) \in Seq(B)
        BY <1>4, <3>1, ReplaceStays, Zenon
      <3> QED
        BY <1>5, <3>2 DEF Replaces
    <2>2. ASSUME NEW i \in 1..(Len(x) + 1), \A j \in (i + 1)..(Len(x) + 1) : j \in T
          PROVE  i \in T
      <3>1. F[i] = ReplaceStep(z, old, F, i) /\ X[i] = ReplaceStep(x, old, X, i)
        <4>1. i \in 1..(Len(z) + 1)
          BY <1>2
        <4> QED
          BY <1>5, <4>1 DEF Replaces
      <3>2. CASE i + Len(old) > Len(x) + 1
        <4>1. X[i] = SubSeq(x, i, Len(x))
          BY <3>1, <3>2 DEF ReplaceStep
        <4>2. X[i] \in Seq(A)
          BY <1>2, <4>1
        <4>3. X[i] \in Seq(B)
          BY <1>0, <4>2
        <4>4. F[i] = X[i] \o <<Quote>> \o Y[1]
          <5>1. CASE i + Len(old) > Len(z) + 1
            <6>1. F[i] = X[i] \o <<Quote>> \o y
              BY <1>3, <3>1, <4>1, <5>1 DEF ReplaceStep
            <6>2. 1 + Len(old) > Len(y) + 1 /\ 1 \in 1..(Len(y) + 1)
              BY <1>2, <1>4, <5>1
            <6>3. Y[1] = SubSeq(y, 1, Len(y))
              BY <1>5, <6>2 DEF Replaces, ReplaceStep
            <6>4. Y[1] = y
              BY <6>3
            <6> QED
              BY <6>1, <6>4
          <5>2. CASE ~(i + Len(old) > Len(z) + 1)
            <6>1. i + Len(old) - 1 \in (Len(x) + 1)..Len(z)
              BY <1>2, <1>4, <3>2, <5>2
            <6>2. F[i] = <<z[i]>> \o F[i + 1]
              BY <1>6, <3>1, <5>2, <6>1 DEF ReplaceStep
            <6>3. CASE i = Len(x) + 1
              <7>1. 1 \in 1..(Len(y) + 1) /\ i + 1 = Len(x) + 1 + 1
                BY <1>2, <6>3
              <7>2. F[i] = <<Quote>> \o Y[1]
                BY <1>2, <1>7, <6>2, <6>3, <7>1
              <7>3. X[i] = <<>>
                BY <1>2, <4>1, <6>3
              <7>4. <<>> \o <<Quote>> = <<Quote>>
                OBVIOUS
              <7> QED
                BY <7>2, <7>3, <7>4
            <6>4. CASE i # Len(x) + 1
              <7>1. i \in 1..Len(x) /\ i + 1 \in (i + 1)..(Len(x) + 1)
                BY <1>2, <6>4
              <7>2. F[i + 1] = X[i + 1] \o <<Quote>> \o Y[1] /\ X[i + 1] \in Seq(B)
                BY <2>2, <7>1
              <7>3. X[i + 1] = SubSeq(x, i + 1, Len(x))
                <8>1. X[i + 1] = ReplaceStep(x, old, X, i + 1)
                  BY <1>2, <1>5, <7>1 DEF Replaces
                <8>2. (i + 1) + Len(old) > Len(x) + 1
                  BY <1>2, <1>4, <3>2
                <8> QED
                  BY <8>1, <8>2 DEF ReplaceStep
              <7>4. X[i] = <<x[i]>> \o X[i + 1]
                <8>1. SubSeq(x, i, Len(x)) = <<x[i]>> \o SubSeq(x, i + 1, Len(x))
                  BY <1>2, <7>1
                <8> QED
                  BY <4>1, <7>3, <8>1
              <7>5. z[i] = x[i] /\ x[i] \in A
                BY <1>2, <7>1
              <7>6. x[i] \in B /\ Quote \in B
                BY <1>0, <7>5
              <7>7. Before(<<x[i]>>, X[i + 1], Y[1])
                BY <2>1, <7>2, <7>6, InFront
              <7> QED
                BY <6>2, <7>2, <7>4, <7>5, <7>7 DEF Before
            <6> QED
              BY <6>3, <6>4
          <5> QED
            BY <5>1, <5>2
        <4> QED
          BY <4>3, <4>4
      <3>3. CASE ~(i + Len(old) > Len(x) + 1)
        <4>1. /\ ~(i + Len(old) > Len(z) + 1) /\ i \in 1..Len(x)
              /\ i + 1 \in (i + 1)..(Len(x) + 1) /\ i + Len(old) \in (i + 1)..(Len(x) + 1)
              /\ i + Len(old) - 1 \in 0..Len(x)
          BY <1>2, <1>4, <3>3
        <4>2. SubSeq(z, i, i + Len(old) - 1) = SubSeq(x, i, i + Len(old) - 1) /\ z[i] = x[i] /\ x[i] \in A
          <5>1. i \in 1..(Len(x) + 1)
            OBVIOUS
          <5>2. SubSeq(z, i, i + Len(old) - 1) = SubSeq(x, i, i + Len(old) - 1)
            BY <1>3, <4>1, <5>1, Zenon
          <5>3. z[i] = x[i] /\ x[i] \in A
            BY <1>2, <4>1
          <5> QED
            BY <5>2, <5>3
        <4>3. i + 1 \in T /\ i + Len(old) \in T
          BY <2>2, <4>1
        <4>4. PICK letter \in B, j \in {i + 1, i + Len(old)} :
                X[i] = <<letter>> \o X[j] /\ F[i] = <<letter>> \o F[j]
          <5>1. Marker \in B /\ x[i] \in B
            BY <1>0, <4>2
          <5> QED
            BY <3>1, <3>3, <4>1, <4>2, <5>1 DEF ReplaceStep
        <4>5. F[j] = X[j] \o <<Quote>> \o Y[1] /\ X[j] \in Seq(B)
          BY <4>3, <4>4
        <4>6. X[i] \in Seq(B)
          BY <4>4, <4>5
        <4>7. F[i] = X[i] \o <<Quote>> \o Y[1]
          <5>1. Quote \in B
            BY <1>0
          <5>2. Before(<<letter>>, X[j], Y[1])
            BY <2>1, <4>4, <4>5, <5>1, InFront
          <5> QED
            BY <4>4, <4>5, <5>2 DEF Before
        <4> QED
          BY <4>6, <4>7
      <3> QED
        BY <3>2, <3>3
    <2>3. \A i \in 1..(Len(x) + 1) : i \in T
      <3> HIDE DEF T
      <3> QED
        BY <1>2, <2>2, Downwards
    <2> QED
      BY <2>3
  <1>9. F[1] = X[1] \o <<Quote>> \o Y[1]
    <2>1. 1 \in 1..(Len(x) + 1)
      BY <1>2
    <2> QED
      BY <1>8, <2>1, Zenon
  <1> QED
    BY <1>1, <1>5, <1>9 DEF Replaces, Said

-----------------------------------------------------------------------------
(* Folds over a finite set, an element at a time.                          *)

FoldStep(how, text, part) ==
  IF how = "replace" THEN Replace(text, part) ELSE text \o <<Quote>> \o part \o <<Quote>>

\* f[s] is what base becomes with the parts of s, pick[s] of them last.
IsFold(how, S, base, pick, part, f) ==
  f = [s \in SUBSET S |-> IF s = {} THEN base
                          ELSE FoldStep(how, f[s \ {pick[s]}], part[pick[s]])]

Picks(S, pick) == \A s \in SUBSET S : s # {} => pick[s] \in s

LEMMA Smaller ==
  ASSUME NEW S, IsFiniteSet(S), NEW s \in SUBSET S, NEW x \in s
  PROVE  /\ Cardinality(s) \in Nat /\ Cardinality(s \ {x}) \in Nat
         /\ Cardinality(s \ {x}) = Cardinality(s) - 1 /\ s \ {x} \in SUBSET S
  <1>1. IsFiniteSet(s)
    BY FS_Subset
  <1> QED
    BY <1>1, FS_RemoveElement, FS_CardinalityType

\* Induction over the subsets of a finite set.
LEMMA Peeling ==
  ASSUME NEW S, IsFiniteSet(S), NEW pick, Picks(S, pick), NEW T, {} \in T,
         \A s \in SUBSET S : s # {} /\ s \ {pick[s]} \in T => s \in T
  PROVE  \A s \in SUBSET S : s \in T
  <1> DEFINE Bad == {d \in Nat : \E s \in SUBSET S : s \notin T /\ Cardinality(s) = d}
  <1>1. ASSUME Bad # {} PROVE FALSE
    <2>1. PICK d \in Bad : \A e \in Bad : d <= e
      <3>1. Bad \subseteq Nat
        OBVIOUS
      <3> HIDE DEF Bad
      <3> QED
        BY <1>1, <3>1, LeastNatural
    <2>2. PICK s \in SUBSET S : s \notin T /\ Cardinality(s) = d
      BY <2>1
    <2>3. s # {} /\ pick[s] \in s
      BY <2>2 DEF Picks
    <2>4. PICK r : r = s \ {pick[s]}
      OBVIOUS
    <2>5. r \in SUBSET S /\ Cardinality(r) \in Nat /\ ~(d <= Cardinality(r))
      BY <2>2, <2>3, <2>4, Smaller
    <2>6. r \notin T
      BY <2>2, <2>3, <2>4
    <2>7. Cardinality(r) \in Bad
      BY <2>5, <2>6
    <2> QED
      BY <2>1, <2>5, <2>7
  <1>2. ASSUME NEW s \in SUBSET S, s \notin T PROVE FALSE
    <2>1. Cardinality(s) \in Nat
      BY FS_Subset, FS_CardinalityType
    <2> QED
      BY <1>1, <1>2, <2>1
  <1> QED
    BY <1>2

LEMMA FoldSolved ==
  ASSUME NEW how, NEW S, IsFiniteSet(S), NEW base, NEW part, NEW pick, Picks(S, pick)
  PROVE  \E f : IsFold(how, S, base, pick, part, f)
  <1> DEFINE Fold1(f, s) == IF s = {} THEN base ELSE FoldStep(how, f[s \ {pick[s]}], part[pick[s]])
             Solves(f, d) == \A s \in SUBSET S : Cardinality(s) <= d => f[s] = Fold1(f, s)
             Bad == {d \in Nat : ~ \E f : Solves(f, d)}
  <1>1. ASSUME Bad # {} PROVE FALSE
    <2>1. PICK d \in Bad : \A e \in Bad : d <= e
      <3>1. Bad \subseteq Nat
        OBVIOUS
      <3> HIDE DEF Bad
      <3> QED
        BY <1>1, <3>1, LeastNatural
    <2>2. d \in Nat /\ ~ \E f : Solves(f, d)
      BY <2>1
    <2>3. PICK g : \A s \in SUBSET S : Cardinality(s) < d => g[s] = Fold1(g, s)
      <3>1. CASE d = 0
        <4>1. \A s \in SUBSET S : ~(Cardinality(s) < 0)
          BY FS_Subset, FS_CardinalityType
        <4> QED
          BY <3>1, <4>1
      <3>2. CASE d # 0
        <4>1. d - 1 \in Nat /\ ~(d <= d - 1)
          BY <2>2, <3>2
        <4>2. d - 1 \notin Bad
          <5> HIDE DEF Bad
          <5> QED
            BY <2>1, <4>1
        <4>3. PICK f : Solves(f, d - 1)
          BY <4>1, <4>2
        <4>4. ASSUME NEW s \in SUBSET S, Cardinality(s) < d PROVE Cardinality(s) <= d - 1
          <5>1. Cardinality(s) \in Nat
            BY FS_Subset, FS_CardinalityType
          <5> QED
            BY <2>2, <4>4, <5>1
        <4> HIDE DEF Fold1
        <4> QED
          BY <4>3, <4>4
      <3> QED
        BY <3>1, <3>2
    <2> DEFINE f == [s \in SUBSET S |-> Fold1(g, s)]
    <2>4. ASSUME NEW s \in SUBSET S, Cardinality(s) <= d PROVE f[s] = Fold1(f, s)
      <3>1. CASE s = {}
        BY <3>1
      <3>2. CASE s # {}
        <4>1. pick[s] \in s
          BY <3>2 DEF Picks
        <4>2. PICK r : r = s \ {pick[s]}
          OBVIOUS
        <4>3. r \in SUBSET S /\ Cardinality(r) < d
          <5>1. /\ Cardinality(s) \in Nat /\ Cardinality(r) = Cardinality(s) - 1 /\ r \in SUBSET S
            BY <4>1, <4>2, Smaller
          <5> QED
            BY <2>2, <2>4, <5>1
        <4>4. g[r] = Fold1(g, r)
          <5> HIDE DEF Fold1
          <5> QED
            BY <2>3, <4>3
        <4>5. f[r] = Fold1(g, r)
          <5> HIDE DEF Fold1
          <5> QED
            BY <4>3
        <4>6. f[r] = g[r]
          <5> HIDE DEF Fold1, f
          <5> QED
            BY <4>4, <4>5
        <4>7. f[s] = FoldStep(how, g[r], part[pick[s]])
          BY <3>2, <4>2
        <4> HIDE DEF f
        <4> QED
          BY <3>2, <4>2, <4>6, <4>7
      <3> QED
        BY <3>1, <3>2
    <2>5. Solves(f, d)
      <3> HIDE DEF f, Fold1
      <3> QED
        BY <2>4
    <2> QED
      <3> HIDE DEF f, Solves
      <3> QED
        BY <2>2, <2>5
  <1>2. PICK d : d = Cardinality(S) /\ d \in Nat
    BY FS_CardinalityType
  <1>3. PICK g : Solves(g, d)
    <2> HIDE DEF Solves
    <2> QED
      BY <1>1, <1>2
  <1> DEFINE f == [s \in SUBSET S |-> g[s]]
  <1>4. ASSUME NEW s \in SUBSET S PROVE f[s] = Fold1(f, s)
    <2>1. Cardinality(s) <= d
      BY <1>2, FS_Subset
    <2>2. g[s] = Fold1(g, s)
      BY <1>3, <2>1
    <2>3. s # {} => f[s \ {pick[s]}] = g[s \ {pick[s]}]
      OBVIOUS
    <2>4. f[s] = g[s]
      OBVIOUS
    <2> HIDE DEF f
    <2> QED
      BY <2>2, <2>3, <2>4
  <1>5. f = [s \in SUBSET S |-> Fold1(f, s)]
    <2>1. f = [s \in SUBSET S |-> f[s]]
      OBVIOUS
    <2> HIDE DEF f, Fold1
    <2> QED
      BY <1>4, <2>1, Zenon
  <1>6. IsFold(how, S, base, pick, part, f)
    <2> HIDE DEF f
    <2> QED
      BY <1>5, Zenon DEF IsFold
  <1> QED
    BY <1>6

(* Values, patterns and what an error quotes are folded.                   *)

LEMMA ShortestIs ==
  ASSUME NEW S, S # {}, NEW A, S \subseteq Seq(A)
  PROVE  Shortest(S) \in S /\ \A w \in S : Len(Shortest(S)) <= Len(w)
  <1>1. PICK L : L = {Len(v) : v \in S}
    OBVIOUS
  <1>2. L \subseteq Nat /\ L # {}
    BY <1>1
  <1>3. PICK d \in L : \A e \in L : d <= e
    BY <1>2, LeastNatural
  <1>4. \E v \in S : \A w \in S : Len(v) <= Len(w)
    BY <1>1, <1>3
  <1> QED
    BY <1>4, Zenon DEF Shortest

LEMMA MaxIs ==
  ASSUME NEW n \in Nat, NEW S, S # {}, S \subseteq 1..n
  PROVE  Max(S) \in S /\ \A x \in S : x <= Max(S)
  <1>1. PICK L : L = {n - x : x \in S}
    OBVIOUS
  <1>2. L \subseteq Nat /\ L # {}
    <2>1. \A x \in S : n - x \in Nat
      OBVIOUS
    <2> QED
      BY <1>1, <2>1
  <1>3. PICK d \in L : \A e \in L : d <= e
    BY <1>2, LeastNatural
  <1>4. PICK x \in S : d = n - x
    BY <1>1, <1>3
  <1>5. ASSUME NEW y \in S PROVE x >= y
    <2>1. d <= n - y
      BY <1>1, <1>3
    <2> QED
      BY <1>4, <2>1
  <1>6. \E m \in S : \A y \in S : m >= y
    BY <1>5
  <1>7. Max(S) \in S /\ \A y \in S : Max(S) >= y
    BY <1>6, Zenon DEF Max
  <1> QED
    BY <1>7

\* The text, with the parts of s replaced or quoted, pick[s] of them last.
Folds(how, S, base, pick, part, f) ==
  /\ f[{}] = base
  /\ \A s \in SUBSET S : s # {} => f[s] = FoldStep(how, f[s \ {pick[s]}], part[pick[s]])

LEMMA FoldedIs ==
  ASSUME NEW how, NEW S, NEW base, NEW pick, NEW part, NEW f, IsFold(how, S, base, pick, part, f)
  PROVE  Folds(how, S, base, pick, part, f)
  <1>1. \A s \in SUBSET S : f[s] = IF s = {} THEN base
                                   ELSE FoldStep(how, f[s \ {pick[s]}], part[pick[s]])
    BY Zenon DEF IsFold
  <1>2. {} \in SUBSET S
    OBVIOUS
  <1> QED
    BY <1>1, <1>2 DEF Folds

LEMMA ReplacedIs ==
  ASSUME NEW text, NEW values, IsFiniteSet(values), NEW A, values \subseteq Seq(A), NEW pick, NEW part,
         pick = [s \in SUBSET values |-> Shortest(s)], part = [v \in values |-> v]
  PROVE  /\ Picks(values, pick)
         /\ \E f : Folds("replace", values, text, pick, part, f) /\ Replaced(text, values) = f[values]
  <1>1. ASSUME NEW s \in SUBSET values, s # {} PROVE pick[s] = Shortest(s) /\ Shortest(s) \in s
    BY <1>1, ShortestIs
  <1>2. Picks(values, pick)
    BY <1>1 DEF Picks
  <1>3. PICK g : IsFold("replace", values, text, pick, part, g)
    BY <1>2, FoldSolved
  <1> DEFINE iter == CHOOSE iter : iter = [s \in SUBSET values |->
                       IF s = {} THEN text ELSE Replace(iter[s \ {Shortest(s)}], Shortest(s))]
  <1>4. \A f : [s \in SUBSET values |-> IF s = {} THEN text
                                        ELSE FoldStep("replace", f[s \ {pick[s]}], part[pick[s]])]
             = [s \in SUBSET values |-> IF s = {} THEN text
                                        ELSE Replace(f[s \ {Shortest(s)}], Shortest(s))]
    <2> TAKE f
    <2>1. ASSUME NEW s \in SUBSET values
          PROVE  (IF s = {} THEN text ELSE FoldStep("replace", f[s \ {pick[s]}], part[pick[s]]))
                 = IF s = {} THEN text ELSE Replace(f[s \ {Shortest(s)}], Shortest(s))
      <3>1. CASE s = {}
        BY <3>1
      <3>2. CASE s # {}
        <4>1. pick[s] = Shortest(s) /\ part[pick[s]] = Shortest(s)
          BY <1>1, <3>2
        <4> QED
          BY <4>1 DEF FoldStep
      <3> QED
        BY <3>1, <3>2
    <2> QED
      BY <2>1
  <1>5. g = [s \in SUBSET values |->
                       IF s = {} THEN text ELSE Replace(g[s \ {Shortest(s)}], Shortest(s))]
    BY <1>3, <1>4, Zenon DEF IsFold
  <1>6. iter = [s \in SUBSET values |->
                       IF s = {} THEN text ELSE Replace(iter[s \ {Shortest(s)}], Shortest(s))]
    BY <1>5, Zenon
  <1>7. Replaced(text, values) = iter[values]
    BY DEF Replaced, MapThenFoldSet
  <1> HIDE DEF iter
  <1>8. IsFold("replace", values, text, pick, part, iter)
    BY <1>4, <1>6, Zenon DEF IsFold
  <1> QED
    BY <1>2, <1>7, <1>8, FoldedIs

LEMMA PatternsReplaced ==
  ASSUME NEW text, NEW pick, pick = [s \in SUBSET DOMAIN Patterns |-> Max(s)]
  PROVE  /\ IsFiniteSet(DOMAIN Patterns) /\ Picks(DOMAIN Patterns, pick)
         /\ \E f : /\ Folds("replace", DOMAIN Patterns, text, pick, Patterns, f)
                   /\ FoldLeft(Replace, text, Patterns) = f[DOMAIN Patterns]
  <1>1. DOMAIN Patterns = 1..Len(Patterns) /\ Len(Patterns) \in Nat
    BY DisclosureAssumption
  <1>2. IsFiniteSet(DOMAIN Patterns)
    BY <1>1, FS_Interval
  <1>3. ASSUME NEW s \in SUBSET DOMAIN Patterns, s # {} PROVE pick[s] = Max(s) /\ Max(s) \in s
    BY <1>1, <1>3, MaxIs
  <1>4. Picks(DOMAIN Patterns, pick)
    BY <1>3 DEF Picks
  <1>5. PICK g : IsFold("replace", DOMAIN Patterns, text, pick, Patterns, g)
    BY <1>2, <1>4, FoldSolved
  <1> DEFINE iter == CHOOSE iter : iter = [s \in SUBSET DOMAIN Patterns |->
                       IF s = {} THEN text ELSE Replace(iter[s \ {Max(s)}], Patterns[Max(s)])]
  <1>6. \A f : [s \in SUBSET DOMAIN Patterns |-> IF s = {} THEN text
                                        ELSE FoldStep("replace", f[s \ {pick[s]}], Patterns[pick[s]])]
             = [s \in SUBSET DOMAIN Patterns |-> IF s = {} THEN text
                                        ELSE Replace(f[s \ {Max(s)}], Patterns[Max(s)])]
    BY <1>3 DEF FoldStep
  <1>7. g = [s \in SUBSET DOMAIN Patterns |->
                       IF s = {} THEN text ELSE Replace(g[s \ {Max(s)}], Patterns[Max(s)])]
    BY <1>5, <1>6, Zenon DEF IsFold
  <1>8. iter = [s \in SUBSET DOMAIN Patterns |->
                       IF s = {} THEN text ELSE Replace(iter[s \ {Max(s)}], Patterns[Max(s)])]
    BY <1>7, Zenon
  <1>9. FoldLeft(Replace, text, Patterns) = iter[DOMAIN Patterns]
    BY DEF FoldLeft, MapThenFoldSet
  <1> HIDE DEF iter
  <1>10. IsFold("replace", DOMAIN Patterns, text, pick, Patterns, iter)
    BY <1>6, <1>8, Zenon DEF IsFold
  <1> QED
    BY <1>2, <1>4, <1>9, <1>10, FoldedIs

-----------------------------------------------------------------------------
(* An error quotes texts; those left to replace are whole in it.           *)

Join(X, Y) == {Said(x, y) : x \in X, y \in Y}

\* A value that is left, or nothing but markers.
Parts(left) == left \cup Seq({Marker})

Errors(left) ==
  Parts(left) \cup Join(Join(Parts(left), Parts(left)), Parts(left))
    \cup Join(Join(Join(Join(Parts(left), Parts(left)), Parts(left)), Parts(left)), Parts(left))

LEMMA JoinIs ==
  ASSUME NEW A, Quote \in A, NEW X, X \subseteq Seq(A), NEW Y, Y \subseteq Seq(A)
  PROVE  Join(X, Y) \subseteq Seq(A)
  <1>1. ASSUME NEW x \in X, NEW y \in Y PROVE Said(x, y) \in Seq(A)
    BY <1>1 DEF Said
  <1> QED
    BY <1>1 DEF Join

\* Becomes(v, X, Y): what every text of X becomes is in Y.
Becomes(v, X, Y) == \A x \in X : Replace(x, v) \in Y

LEMMA JoinBecomes ==
  ASSUME NEW A, Quote \in A, NEW v \in Seq(A \ {Quote}), v # <<>>,
         NEW X, NEW Y, X \subseteq Seq(A), Y \subseteq Seq(A),
         NEW V, NEW W, Becomes(v, X, V), Becomes(v, Y, W)
  PROVE  Becomes(v, Join(X, Y), Join(V, W))
  <1>1. ASSUME NEW x \in X, NEW y \in Y PROVE Replace(Said(x, y), v) \in Join(V, W)
    <2>1. x \in Seq(A) /\ y \in Seq(A)
      OBVIOUS
    <2>2. Replace(Said(x, y), v) = Said(Replace(x, v), Replace(y, v))
      BY <2>1, ReplaceApart
    <2>3. Replace(x, v) \in V /\ Replace(y, v) \in W
      BY DEF Becomes
    <2> QED
      BY <2>2, <2>3 DEF Join
  <1> QED
    BY <1>1 DEF Becomes, Join

\* The longest value goes; the others, and the markers, stay.
LEMMA PartsBecome ==
  ASSUME NEW A, NEW left, left \subseteq Seq(A) \ {<<>>}, NEW v \in left,
         \A w \in left : Len(w) <= Len(v)
  PROVE  Becomes(v, Parts(left), Parts(left \ {v}))
  <1>1. v \in Seq(A) /\ v # <<>>
    OBVIOUS
  <1>2. ASSUME NEW x \in left PROVE Replace(x, v) \in Parts(left \ {v})
    <2>1. x \in Seq(A) /\ Len(x) <= Len(v)
      OBVIOUS
    <2>2. Replace(x, v) = IF x = v THEN <<Marker>> ELSE x
      BY <1>1, <2>1, ReplaceWhole
    <2>3. <<Marker>> \in Seq({Marker})
      OBVIOUS
    <2> QED
      BY <2>2, <2>3 DEF Parts
  <1>3. ASSUME NEW x \in Seq({Marker}) PROVE Replace(x, v) \in Parts(left \ {v})
    <2>1. Replace(x, v) \in Seq({Marker})
      BY <1>1, ReplaceStays
    <2> QED
      BY <2>1 DEF Parts
  <1> QED
    BY <1>2, <1>3 DEF Becomes, Parts

LEMMA ErrorsBecome ==
  ASSUME NEW A, Quote \in A, Marker \in A, Quote # Marker,
         NEW left, left \subseteq Seq(A \ {Quote}) \ {<<>>}, NEW v \in left,
         \A w \in left : Len(w) <= Len(v)
  PROVE  Becomes(v, Errors(left), Errors(left \ {v}))
  <1>1. PICK P, R : P = Parts(left) /\ R = Parts(left \ {v})
    OBVIOUS
  <1>2. P \subseteq Seq(A)
    <2>1. left \subseteq Seq(A)
      OBVIOUS
    <2>2. Seq({Marker}) \subseteq Seq(A)
      OBVIOUS
    <2> QED
      BY <1>1, <2>1, <2>2 DEF Parts
  <1>3. v \in Seq(A \ {Quote}) /\ v # <<>>
    OBVIOUS
  <1>4. Becomes(v, P, R)
    BY <1>1, PartsBecome
  <1>5. PICK P2, R2 : P2 = Join(P, P) /\ R2 = Join(R, R)
    OBVIOUS
  <1>6. P2 \subseteq Seq(A) /\ Becomes(v, P2, R2)
    BY <1>2, <1>3, <1>4, <1>5, JoinIs, JoinBecomes
  <1>7. PICK P3, R3 : P3 = Join(P2, P) /\ R3 = Join(R2, R)
    OBVIOUS
  <1>8. P3 \subseteq Seq(A) /\ Becomes(v, P3, R3)
    BY <1>2, <1>3, <1>4, <1>6, <1>7, JoinIs, JoinBecomes
  <1>9. PICK P4, R4 : P4 = Join(P3, P) /\ R4 = Join(R3, R)
    OBVIOUS
  <1>10. P4 \subseteq Seq(A) /\ Becomes(v, P4, R4)
    BY <1>2, <1>3, <1>4, <1>8, <1>9, JoinIs, JoinBecomes
  <1>11. PICK P5, R5 : P5 = Join(P4, P) /\ R5 = Join(R4, R)
    OBVIOUS
  <1>12. Becomes(v, P5, R5)
    BY <1>2, <1>3, <1>4, <1>10, <1>11, JoinBecomes
  <1>13. Errors(left) = P \cup P3 \cup P5 /\ Errors(left \ {v}) = R \cup R3 \cup R5
    BY <1>1, <1>5, <1>7, <1>9, <1>11 DEF Errors
  <1> QED
    BY <1>4, <1>8, <1>12, <1>13 DEF Becomes

LEMMA NothingLeft == Errors({}) \subseteq Seq({Quote, Marker})
  <1>1. PICK A : A = {Quote, Marker}
    OBVIOUS
  <1>2. Parts({}) \subseteq Seq(A) /\ Quote \in A
    BY <1>1 DEF Parts
  <1>3. PICK P : P = Parts({})
    OBVIOUS
  <1>4. PICK P2, P3, P4, P5 : P2 = Join(P, P) /\ P3 = Join(P2, P) /\ P4 = Join(P3, P) /\ P5 = Join(P4, P)
    OBVIOUS
  <1>5. P2 \subseteq Seq(A)
    BY <1>2, <1>3, <1>4, JoinIs
  <1>6. P3 \subseteq Seq(A)
    BY <1>2, <1>3, <1>4, <1>5, JoinIs
  <1>7. P4 \subseteq Seq(A)
    BY <1>2, <1>3, <1>4, <1>6, JoinIs
  <1>8. P5 \subseteq Seq(A)
    BY <1>2, <1>3, <1>4, <1>7, JoinIs
  <1> QED
    BY <1>1, <1>2, <1>3, <1>4, <1>6, <1>8 DEF Errors

\* With the longest values replaced, none of the others is broken up.
LEMMA ReplacedTells ==
  ASSUME NEW values, IsFiniteSet(values), values \subseteq Seq(Alphabet \ {Quote}) \ {<<>>},
         NEW text \in Errors(values)
  PROVE  Replaced(text, values) \in Seq({Quote, Marker})
  <1>1. PICK pick, part : pick = [s \in SUBSET values |-> Shortest(s)] /\ part = [v \in values |-> v]
    OBVIOUS
  <1>2. values \subseteq Seq(Alphabet)
    OBVIOUS
  <1>3. Picks(values, pick) /\ \E f : Folds("replace", values, text, pick, part, f)
                                       /\ Replaced(text, values) = f[values]
    BY <1>1, <1>2, ReplacedIs
  <1>4. PICK f : Folds("replace", values, text, pick, part, f) /\ Replaced(text, values) = f[values]
    BY <1>3
  <1> DEFINE T == {s \in SUBSET values :
                     (\A w \in values \ s, v \in s : Len(w) <= Len(v)) => f[s] \in Errors(values \ s)}
  <1>5. {} \in T
    <2>1. values \ {} = values /\ f[{}] = text
      BY <1>4 DEF Folds
    <2> QED
      BY <2>1
  <1>6. ASSUME NEW s \in SUBSET values, s # {}, s \ {pick[s]} \in T,
               \A w \in values \ s, v \in s : Len(w) <= Len(v)
        PROVE  f[s] \in Errors(values \ s)
    <2>1. PICK v : v = pick[s]
      OBVIOUS
    <2>2. v \in s /\ \A w \in s : Len(v) <= Len(w)
      BY <1>1, <1>2, <1>6, <2>1, ShortestIs
    <2>3. PICK r, left : r = s \ {v} /\ left = values \ r
      OBVIOUS
    <2>4. v \in left /\ left \subseteq Seq(Alphabet \ {Quote}) \ {<<>>} /\ values \ s = left \ {v}
      BY <2>2, <2>3
    <2>5. \A w \in left : Len(w) <= Len(v)
      <3>1. Len(v) \in Nat
        BY <1>2, <2>2
      <3> QED
        BY <1>6, <2>2, <2>3, <3>1
    <2>6. ASSUME NEW w \in values \ r, NEW u \in r PROVE Len(w) <= Len(u)
      <3>1. Len(w) <= Len(v) /\ Len(v) <= Len(u)
        BY <2>2, <2>3, <2>5, <2>6
      <3>2. Len(w) \in Nat /\ Len(v) \in Nat /\ Len(u) \in Nat
        BY <1>2, <2>2, <2>3, <2>6
      <3> QED
        BY <3>1, <3>2
    <2>7. f[r] \in Errors(left)
      BY <1>6, <2>1, <2>3, <2>6
    <2>8. Becomes(v, Errors(left), Errors(left \ {v}))
      <3>1. Quote \in Alphabet /\ Marker \in Alphabet /\ Quote # Marker
        BY DisclosureAssumption
      <3> QED
        BY <2>4, <2>5, <3>1, ErrorsBecome
    <2>9. f[s] = Replace(f[r], v)
      <3>1. f[s] = FoldStep("replace", f[s \ {pick[s]}], part[pick[s]])
        BY <1>4, <1>6 DEF Folds
      <3>2. part[pick[s]] = v
        BY <1>1, <2>1, <2>2
      <3> QED
        BY <2>1, <2>3, <3>1, <3>2 DEF FoldStep
    <2> QED
      BY <2>4, <2>7, <2>8, <2>9 DEF Becomes
  <1>7. \A s \in SUBSET values : s # {} /\ s \ {pick[s]} \in T => s \in T
    BY <1>6
  <1>8. values \in T
    <2> HIDE DEF T
    <2> QED
      BY <1>3, <1>5, <1>7, Peeling
  <1>9. f[values] \in Errors(values \ values)
    BY <1>8
  <1>10. values \ values = {}
    OBVIOUS
  <1> QED
    BY <1>4, <1>9, <1>10, NothingLeft

LEMMA PatternsTell ==
  ASSUME NEW text \in Seq({Quote, Marker})
  PROVE  FoldLeft(Replace, text, Patterns) \in Seq({Quote, Marker})
  <1>1. PICK pick : pick = [s \in SUBSET DOMAIN Patterns |-> Max(s)]
    OBVIOUS
  <1>2. /\ IsFiniteSet(DOMAIN Patterns) /\ Picks(DOMAIN Patterns, pick)
        /\ \E f : /\ Folds("replace", DOMAIN Patterns, text, pick, Patterns, f)
                  /\ FoldLeft(Replace, text, Patterns) = f[DOMAIN Patterns]
    BY <1>1, PatternsReplaced
  <1>3. PICK f : /\ Folds("replace", DOMAIN Patterns, text, pick, Patterns, f)
                 /\ FoldLeft(Replace, text, Patterns) = f[DOMAIN Patterns]
    BY <1>2
  <1> DEFINE T == {s \in SUBSET DOMAIN Patterns : f[s] \in Seq({Quote, Marker})}
  <1>4. {} \in T
    BY <1>3 DEF Folds
  <1>5. ASSUME NEW s \in SUBSET DOMAIN Patterns, s # {}, s \ {pick[s]} \in T PROVE s \in T
    <2>1. pick[s] \in DOMAIN Patterns
      BY <1>2, <1>5 DEF Picks
    <2>2. PICK v : v = Patterns[pick[s]]
      OBVIOUS
    <2>3. v \in Seq(Alphabet) /\ v # <<>>
      BY <2>1, <2>2, DisclosureAssumption
    <2>4. PICK t : t = f[s \ {pick[s]}]
      OBVIOUS
    <2>5. t \in Seq({Quote, Marker})
      BY <1>5, <2>4
    <2>6. f[s] = Replace(t, v)
      BY <1>3, <1>5, <2>2, <2>4 DEF Folds, FoldStep
    <2>7. Replace(t, v) \in Seq({Quote, Marker})
      BY <2>3, <2>5, ReplaceStays
    <2> QED
      BY <2>6, <2>7
  <1>6. DOMAIN Patterns \in T
    <2> HIDE DEF T
    <2> QED
      BY <1>2, <1>4, <1>5, Peeling
  <1> QED
    BY <1>3, <1>6

LEMMA ScrubTells ==
  ASSUME NEW values, IsFiniteSet(values), values \subseteq Seq(Alphabet \ {Quote}),
         NEW text \in Errors({v \in values : Len(v) >= MinScrub})
  PROVE  Scrub(text, values) \in Seq({Quote, Marker})
  <1>1. PICK long : long = {v \in values : Len(v) >= MinScrub}
    OBVIOUS
  <1>2. IsFiniteSet(long)
    BY <1>1, FS_Subset
  <1>3. long \subseteq Seq(Alphabet \ {Quote}) \ {<<>>}
    <2>1. Len(<<>>) = 0 /\ ~(0 >= MinScrub)
      BY DisclosureAssumption
    <2> QED
      BY <1>1, <2>1
  <1>4. PICK clean : clean = FoldLeft(Replace, Replaced(text, long), Patterns)
    OBVIOUS
  <1>5. clean \in Seq({Quote, Marker})
    BY <1>1, <1>2, <1>3, <1>4, ReplacedTells, PatternsTell
  <1>6. PICK n : n = Min({Len(clean), MaxError})
    OBVIOUS
  <1>7. n \in 0..Len(clean)
    <2>1. Len(clean) \in Nat /\ MaxError \in Nat
      BY <1>5, DisclosureAssumption
    <2>2. \E x \in {Len(clean), MaxError} : \A y \in {Len(clean), MaxError} : x <= y
      BY <2>1
    <2>3. n \in {Len(clean), MaxError} /\ \A y \in {Len(clean), MaxError} : n <= y
      BY <1>6, <2>2, Zenon DEF Min
    <2> QED
      BY <2>1, <2>3
  <1>8. SubSeq(clean, 1, n) \in Seq({Quote, Marker})
    BY <1>5, <1>7
  <1> QED
    BY <1>1, <1>4, <1>6, <1>8 DEF Scrub

\* The text of an error that quotes nothing, one text or two.
LEMMA ErrorTextIs ==
  ASSUME NEW quoted, NEW n \in 0..2, quoted \in [1..n -> Seq(Alphabet)]
  PROVE  LET one == Said(Said(<<>>, quoted[1]), <<>>) IN
         ErrorText(quoted) = IF n = 0 THEN <<>> ELSE IF n = 1 THEN one
                             ELSE Said(Said(one, quoted[2]), <<>>)
  <1>1. PICK pick : pick = [s \in SUBSET DOMAIN quoted |-> Max(s)]
    OBVIOUS
  <1>2. DOMAIN quoted = 1..n /\ IsFiniteSet(DOMAIN quoted)
    BY FS_Interval
  <1>3. ASSUME NEW s \in SUBSET DOMAIN quoted, s # {}
        PROVE  pick[s] = Max(s) /\ Max(s) \in s /\ \A i \in s : i <= Max(s)
    <2>1. n \in Nat /\ s \subseteq 1..n
      BY <1>2
    <2>2. Max(s) \in s /\ \A i \in s : i <= Max(s)
      BY <1>3, <2>1, MaxIs
    <2> QED
      BY <1>1, <2>2
  <1>4. Picks(DOMAIN quoted, pick)
    BY <1>3 DEF Picks
  <1>5. PICK g : IsFold("quote", DOMAIN quoted, <<>>, pick, quoted, g)
    BY <1>2, <1>4, FoldSolved
  <1> DEFINE iter == CHOOSE iter : iter = [s \in SUBSET DOMAIN quoted |->
                       IF s = {} THEN <<>>
                       ELSE iter[s \ {Max(s)}] \o <<Quote>> \o quoted[Max(s)] \o <<Quote>>]
  <1>6. \A f : [s \in SUBSET DOMAIN quoted |-> IF s = {} THEN <<>>
                                        ELSE FoldStep("quote", f[s \ {pick[s]}], quoted[pick[s]])]
             = [s \in SUBSET DOMAIN quoted |-> IF s = {} THEN <<>>
                                        ELSE f[s \ {Max(s)}] \o <<Quote>> \o quoted[Max(s)] \o <<Quote>>]
    BY <1>3 DEF FoldStep
  <1>7. g = [s \in SUBSET DOMAIN quoted |->
                       IF s = {} THEN <<>>
                       ELSE g[s \ {Max(s)}] \o <<Quote>> \o quoted[Max(s)] \o <<Quote>>]
    BY <1>5, <1>6, Zenon DEF IsFold
  <1>8. iter = [s \in SUBSET DOMAIN quoted |->
                       IF s = {} THEN <<>>
                       ELSE iter[s \ {Max(s)}] \o <<Quote>> \o quoted[Max(s)] \o <<Quote>>]
    BY <1>7, Zenon
  <1>9. ErrorText(quoted) = iter[DOMAIN quoted]
    BY DEF ErrorText, FoldLeft, MapThenFoldSet
  <1> HIDE DEF iter
  <1>10. IsFold("quote", DOMAIN quoted, <<>>, pick, quoted, iter)
    BY <1>6, <1>8, Zenon DEF IsFold
  <1>11. Folds("quote", DOMAIN quoted, <<>>, pick, quoted, iter)
    BY <1>10, FoldedIs
  <1>12. ASSUME NEW text, NEW A, text \in Seq(A), NEW part, part \in Seq(A)
         PROVE  FoldStep("quote", text, part) = Said(Said(text, part), <<>>)
    <2>1. PICK t : t = text \o <<Quote>> \o part \o <<Quote>>
      OBVIOUS
    <2>2. t \in Seq(A \cup {Quote})
      BY <1>12, <2>1
    <2>3. t \o <<>> = t
      BY <2>2
    <2> QED
      BY <2>1, <2>3 DEF FoldStep, Said
  <1>13. <<>> \in Seq(Alphabet) /\ iter[{}] = <<>>
    BY <1>11 DEF Folds
  <1>14. CASE n = 0
    <2>1. DOMAIN quoted = {}
      BY <1>2, <1>14
    <2> QED
      BY <1>9, <1>13, <1>14, <2>1
  <1>15. CASE n \in {1, 2}
    <2>1. quoted[1] \in Seq(Alphabet) /\ {1} \in SUBSET DOMAIN quoted
      BY <1>2, <1>15
    <2>2. pick[{1}] = 1
      BY <1>3, <2>1
    <2>3. iter[{1}] = FoldStep("quote", <<>>, quoted[1])
      <3>1. {1} \ {pick[{1}]} = {}
        BY <2>2
      <3> QED
        BY <1>11, <1>13, <2>1, <2>2, <3>1, Zenon DEF Folds
    <2>4. PICK one : one = Said(Said(<<>>, quoted[1]), <<>>)
      OBVIOUS
    <2>5. iter[{1}] = one
      BY <1>12, <1>13, <2>1, <2>3, <2>4
    <2>6. CASE n = 1
      <3>1. DOMAIN quoted = {1}
        BY <1>2, <2>6
      <3> QED
        BY <1>9, <2>4, <2>5, <2>6, <3>1
    <2>7. CASE n = 2
      <3>1. quoted[2] \in Seq(Alphabet) /\ {1, 2} \in SUBSET DOMAIN quoted /\ DOMAIN quoted = {1, 2}
        BY <1>2, <2>7
      <3>2. pick[{1, 2}] = 2
        <4>1. PICK s \in SUBSET DOMAIN quoted : s = {1, 2}
          BY <3>1
        <4>2. pick[s] = Max(s) /\ Max(s) \in s /\ \A i \in s : i <= Max(s)
          BY <1>3, <4>1
        <4>3. Max(s) \in {1, 2} /\ 2 <= Max(s)
          BY <4>1, <4>2
        <4> QED
          BY <4>1, <4>2, <4>3
      <3>3. {1, 2} \ {2} = {1}
        OBVIOUS
      <3>4. iter[{1, 2}] = FoldStep("quote", one, quoted[2])
        <4>1. PICK s \in SUBSET DOMAIN quoted : s = {1, 2} /\ s # {}
          BY <3>1
        <4>2. iter[s] = FoldStep("quote", iter[s \ {pick[s]}], quoted[pick[s]])
          BY <1>11, <4>1 DEF Folds
        <4>3. pick[s] = 2 /\ s \ {2} = {1}
          BY <3>2, <3>3, <4>1
        <4> QED
          BY <2>5, <4>1, <4>2, <4>3
      <3>5. one \in Seq(Alphabet)
        BY <2>1, <2>4, DisclosureAssumption DEF Said
      <3>6. iter[{1, 2}] = Said(Said(one, quoted[2]), <<>>)
        BY <1>12, <3>1, <3>4, <3>5
      <3> QED
        BY <1>9, <2>4, <2>7, <3>1, <3>6
    <2> QED
      BY <1>15, <2>6, <2>7
  <1> QED
    BY <1>14, <1>15

LEMMA ErrorIsError ==
  ASSUME NEW quoted, NEW n \in 0..2, NEW left, left \subseteq Seq(Alphabet), quoted \in [1..n -> left]
  PROVE  ErrorText(quoted) \in Errors(left)
  <1>1. quoted \in [1..n -> Seq(Alphabet)]
    OBVIOUS
  <1>2. PICK P, P2, P3, P4, P5 : /\ P = Parts(left) /\ P2 = Join(P, P) /\ P3 = Join(P2, P)
                                 /\ P4 = Join(P3, P) /\ P5 = Join(P4, P)
    OBVIOUS
  <1>3. Errors(left) = P \cup P3 \cup P5
    BY <1>2 DEF Errors
  <1>4. <<>> \in P /\ left \subseteq P
    BY <1>2 DEF Parts
  <1>5. n = 0 => ErrorText(quoted) = <<>>
    BY <1>1, ErrorTextIs
  <1>6. PICK one : one = Said(Said(<<>>, quoted[1]), <<>>)
    OBVIOUS
  <1>7. n \in {1, 2} => one \in P3
    BY <1>2, <1>4, <1>6 DEF Join
  <1>8. n = 1 => ErrorText(quoted) = one
    BY <1>1, <1>6, ErrorTextIs
  <1>9. n = 2 => ErrorText(quoted) = Said(Said(one, quoted[2]), <<>>)
    BY <1>1, <1>6, ErrorTextIs
  <1>10. n = 2 => Said(Said(one, quoted[2]), <<>>) \in P5
    BY <1>2, <1>4, <1>7 DEF Join
  <1> QED
    BY <1>3, <1>4, <1>5, <1>7, <1>8, <1>9, <1>10

-----------------------------------------------------------------------------
(* The invariant: what the records of a call were made from.               *)

DecisionRight(h, e, d) ==
  LET form == Canonicalize(h, Root, SensitiveSet(e)) IN
  form.ok /\ d.input = form.positions /\ d.retention = Retention(d.input)

\* An error quotes at most two of the texts.
Quotes(h, quoted) == \E n \in 0..2 : quoted \in [1..n -> Texts(h)]

OutcomeRight(h, e, gone, o) ==
  LET form == Canonicalize(h, o.of, SensitiveSet(e)) IN
  /\ o.of \in Nodes
  /\ o.hash \in {{}, {form.positions}}
  /\ o.hash # {} => h[o.of].text \notin gone \/ h[o.of].kind = "none"
  /\ o.error = <<>> \/ (Quotes(h, o.quoted) /\ o.error = Scrub(ErrorText(o.quoted), gone))
  /\ o.receipt # {} => o.receipt = {form.positions} /\ form.ok /\ Named(h[o.of])

DInv ==
  /\ heap \in Heaps /\ extras \in Declared
  /\ removed \subseteq Texts(heap)
  /\ pc \in {"decorate", "call"} => decision = {}
  /\ pc \in {"decorate", "call", "decided"} => outcome = {}
  /\ report # {} => pc = "done"
  /\ \A d \in decision : DecisionRight(heap, extras, d)
  /\ \A o \in outcome : OutcomeRight(heap, extras, removed, o)
  /\ \A o1, o2 \in outcome : o1 = o2
  /\ SafeMeansRedacted /\ ReconciledIsTrue

LEMMA DInvInit == DisclosureInit => DInv
  BY DEF DisclosureInit, DInv, SafeMeansRedacted, ReconciledIsTrue

\* Before a report, what is said of reports holds.
LEMMA NoReport ==
  ASSUME report' = {}
  PROVE  SafeMeansRedacted' /\ ReconciledIsTrue'
  BY DEF SafeMeansRedacted, ReconciledIsTrue

LEMMA DecorateKeeps ==
  ASSUME DInv, Decorate
  PROVE  DInv'
  <1>1. report' = {} /\ SafeMeansRedacted' /\ ReconciledIsTrue'
    BY NoReport DEF DInv, Decorate
  <1> QED
    BY <1>1 DEF DInv, Decorate

LEMMA DecideKeeps ==
  ASSUME DInv, NEW verdict, Decide(verdict)
  PROVE  DInv'
  <1>1. /\ pc = "call" /\ decision = {} /\ outcome = {} /\ report = {}
        /\ heap' = heap /\ extras' = extras /\ outcome' = {} /\ report' = {}
    BY DEF DInv, Decide
  <1>2. SafeMeansRedacted' /\ ReconciledIsTrue'
    BY <1>1, NoReport
  <1>3. PICK form : form = Canonicalize(heap, Root, SensitiveSet(extras))
    OBVIOUS
  <1>4. CASE form.ok
    <2>1. /\ pc' = "decided" /\ removed' = form.removed
          /\ decision' = {[verdict |-> verdict, input |-> form.positions,
                           retention |-> Retention(form.positions)]}
      BY <1>3, <1>4 DEF Decide
    <2>2. ASSUME NEW d \in decision' PROVE DecisionRight(heap, extras, d)
      <3>1. d.input = form.positions /\ d.retention = Retention(form.positions)
        BY <2>1
      <3> QED
        BY <1>3, <1>4, <3>1 DEF DecisionRight
    <2>3. \A d \in decision' : DecisionRight(heap', extras', d)
      BY <1>1, <2>2
    <2>4. removed' \subseteq Texts(heap')
      <3>1. heap \in Heaps /\ extras \in Declared /\ Root \in Nodes
        BY DisclosureAssumption DEF DInv
      <3>2. form \in Forms(heap, SensitiveSet(extras))
        BY <1>3, <3>1, CanonicalIsForm
      <3> QED
        BY <1>1, <2>1, <3>2 DEF Forms
    <2> QED
      BY <1>1, <1>2, <2>1, <2>3, <2>4 DEF DInv
  <1>5. CASE ~form.ok
    <2>1. pc' = "done" /\ decision' = decision /\ removed' = removed
      BY <1>3, <1>5 DEF Decide
    <2> QED
      BY <1>1, <1>2, <2>1 DEF DInv
  <1> QED
    BY <1>4, <1>5

\* A call that ran leaves one outcome, and its decision as it was.
LEMMA RanKeeps ==
  ASSUME DInv, pc = "decided", pc' = "ran", UNCHANGED <<heap, extras, removed, decision, report>>,
         NEW o, outcome' = {o}, OutcomeRight(heap, extras, removed, o)
  PROVE  DInv'
  <1>1. report' = {} /\ SafeMeansRedacted' /\ ReconciledIsTrue'
    BY NoReport DEF DInv
  <1>2. /\ \A d \in decision' : DecisionRight(heap', extras', d)
        /\ \A o1 \in outcome' : OutcomeRight(heap', extras', removed', o1)
    BY DEF DInv
  <1> QED
    BY <1>1, <1>2 DEF DInv

LEMMA SucceedKeeps ==
  ASSUME DInv, NEW n \in Nodes, NEW extracted \in BOOLEAN, NEW short \in BOOLEAN,
         Succeed(n, extracted, short)
  PROVE  DInv'
  <1>1. PICK o : o = [status |-> "succeeded", of |-> n, quoted |-> <<>>,
                      hash |-> OutputHash(n), receipt |-> Receipt(n, extracted, short), error |-> <<>>]
    OBVIOUS
  <1>2. /\ pc = "decided" /\ pc' = "ran" /\ outcome' = {o}
        /\ UNCHANGED <<heap, extras, removed, decision, report>>
    BY <1>1 DEF Succeed
  <1>3. PICK form : form = Canonicalize(heap, n, SensitiveSet(extras))
    OBVIOUS
  <1>4. /\ o.of = n /\ o.hash = OutputHash(n) /\ o.receipt = Receipt(n, extracted, short)
        /\ o.error = <<>>
    BY <1>1
  <1>5. /\ o.hash \in {{}, {form.positions}}
        /\ o.hash # {} => heap[n].text \notin removed \/ heap[n].kind = "none"
    BY <1>3, <1>4 DEF OutputHash
  <1>6. o.receipt # {} => o.receipt = {form.positions} /\ form.ok /\ Named(heap[n])
    BY <1>3, <1>4 DEF Receipt
  <1>7. OutcomeRight(heap, extras, removed, o)
    BY <1>3, <1>4, <1>5, <1>6 DEF OutcomeRight
  <1> QED
    BY <1>2, <1>7, RanKeeps

LEMMA FailKeeps ==
  ASSUME DInv, NEW quoted, Quotes(heap, quoted), Fail(quoted)
  PROVE  DInv'
  <1>1. PICK error : error = Scrub(ErrorText(quoted), removed)
    OBVIOUS
  <1>2. PICK o : o = [status |-> "failed", of |-> Root, quoted |-> quoted,
                      hash |-> {}, receipt |-> {}, error |-> error]
    OBVIOUS
  <1>3. /\ pc = "decided" /\ pc' = "ran" /\ outcome' = {o}
        /\ UNCHANGED <<heap, extras, removed, decision, report>>
    BY <1>1, <1>2 DEF Fail
  <1>4. o.of = Root /\ o.hash = {} /\ o.receipt = {} /\ o.error = error /\ o.quoted = quoted
    BY <1>2
  <1>5. OutcomeRight(heap, extras, removed, o)
    BY <1>1, <1>4, DisclosureAssumption DEF OutcomeRight
  <1> QED
    BY <1>3, <1>5, RanKeeps

\* A decision whose class is neither partial nor unknown holds only markers.
LEMMA SafeDecision ==
  ASSUME NEW h \in Heaps, NEW e \in Declared, NEW d, DecisionRight(h, e, d),
         ClassifyRetention(d.retention) \notin {"partially_redacted", "unknown"}
  PROVE  \A p \in d.input : p.at # <<>> => p.text = <<Marker>>
  <1>1. PICK sensitive : sensitive = SensitiveSet(e)
    OBVIOUS
  <1>2. PICK P : P = d.input
    OBVIOUS
  <1>3. /\ Canonicalize(h, Root, sensitive).ok /\ P = Canonicalize(h, Root, sensitive).positions
        /\ d.retention = Retention(P)
    BY <1>1, <1>2 DEF DecisionRight
  <1>4. Root \in Nodes /\ Named(h[Root])
    BY DisclosureAssumption, HeapAssumption DEF Named
  <1>5. \A p \in P : p.at # <<>> => p \in Parameters(P) \/ \E q \in Parameters(P) : q.kind = "container"
    BY <1>1, <1>3, <1>4, NamedForm
  <1>6. \A p \in Parameters(P) : p.kind = "str" /\ p.text = <<Marker>>
    BY <1>3, RetentionTells, StateFacts
  <1> QED
    BY <1>2, <1>5, <1>6

LEMMA InspectKeeps ==
  ASSUME DInv, NEW valid \in BOOLEAN, Inspect(valid)
  PROVE  DInv'
  <1>1. UNCHANGED <<heap, extras, removed, decision, outcome>> /\ pc' = "done"
    BY DEF Inspect
  <1>2. ASSUME NEW r \in report', r.reader = "inspect" /\ r.good
        PROVE  /\ \A d \in decision : ClassifyRetention(d.retention) \notin {"partially_redacted", "unknown"}
               /\ \A o \in outcome : ~OutcomeDiscloses(o)
    <2>1. CASE ~valid
      BY <1>2, <2>1 DEF Inspect
    <2>2. CASE valid
      BY <1>2, <2>2 DEF Inspect
    <2> QED
      BY <2>1, <2>2
  <1>3. \A r \in report' : r.reader = "inspect"
    BY DEF Inspect
  <1>4. SafeMeansRedacted'
    <2>1. ASSUME NEW r \in report', r.reader = "inspect" /\ r.good
          PROVE  /\ \A d \in decision : \A p \in d.input : p.at # <<>> => p.text = <<Marker>>
                 /\ \A o \in outcome :
                      o.error = <<>> /\ \A receipt \in o.receipt : ReceiptNames(receipt) = {}
      <3>1. \A d \in decision : \A p \in d.input : p.at # <<>> => p.text = <<Marker>>
        BY <1>2, <2>1, SafeDecision DEF DInv
      <3>2. \A o \in outcome : o.error = <<>> /\ \A receipt \in o.receipt : ReceiptNames(receipt) = {}
        BY <1>2, <2>1 DEF OutcomeDiscloses
      <3> QED
        BY <3>1, <3>2
    <2> QED
      BY <1>1, <2>1 DEF SafeMeansRedacted
  <1>5. ReconciledIsTrue'
    BY <1>3 DEF ReconciledIsTrue
  <1>6. /\ \A d \in decision' : DecisionRight(heap', extras', d)
        /\ \A o1 \in outcome' : OutcomeRight(heap', extras', removed', o1)
    BY <1>1 DEF DInv
  <1> QED
    BY <1>1, <1>4, <1>5, <1>6 DEF DInv, Inspect

\* A provider's record that a receipt agrees with has every field, and each
\* reads as it was returned or is a marker.
LEMMA AgreementIsTrue ==
  ASSUME DInv, NEW o \in outcome, NEW receipt \in o.receipt, NEW fields, Agrees(receipt, fields)
  PROVE  \A name \in ItemNames(o.of) :
           /\ name \in DOMAIN fields
           /\ fields[name] \in {TrueText(o.of, name), <<Marker>>, <<Unsupported>>}
  <1> SUFFICES ASSUME NEW name \in ItemNames(o.of)
               PROVE  /\ name \in DOMAIN fields
                      /\ fields[name] \in {TrueText(o.of, name), <<Marker>>, <<Unsupported>>}
    OBVIOUS
  <1>1. PICK sensitive : sensitive = SensitiveSet(extras)
    OBVIOUS
  <1>2. /\ heap \in Heaps /\ extras \in Declared /\ o.of \in Nodes
        /\ receipt = Canonicalize(heap, o.of, sensitive).positions
        /\ Canonicalize(heap, o.of, sensitive).ok /\ Named(heap[o.of])
    BY <1>1 DEF DInv, OutcomeRight
  <1>3. PICK items : items = heap[o.of].items
    OBVIOUS
  <1>4. /\ \A i \in DOMAIN items : \E q \in Parameters(receipt) : q.at[1] = items[i].name
        /\ \A q \in Parameters(receipt) : \E i \in DOMAIN items :
             /\ q.at[1] = items[i].name
             /\ q.text \in {TextOf(heap, items[i].node), <<Marker>>, <<Unsupported>>}
    BY <1>1, <1>2, <1>3, NamedForm
  <1>5. PICK i \in DOMAIN items : i = CHOOSE k \in DOMAIN items : items[k].name = name
    BY <1>3 DEF ItemNames
  <1>6. items[i].name = name /\ TrueText(o.of, name) = TextOf(heap, items[i].node)
    <2>1. items[i].name = name
      BY <1>3, <1>5 DEF ItemNames
    <2> QED
      BY <1>3, <1>5, <2>1 DEF TrueText, TextOf
  <1>7. PICK q \in Parameters(receipt) : q.at[1] = name /\ Claimed(receipt, name) = q.text
    <2>1. \E q \in Parameters(receipt) : q.at[1] = name
      BY <1>4, <1>6
    <2>2. PICK q : q = CHOOSE p \in Parameters(receipt) : p.at[1] = name
      OBVIOUS
    <2> QED
      BY <2>1, <2>2 DEF Claimed
  <1>8. PICK j \in DOMAIN items : /\ q.at[1] = items[j].name
                                 /\ q.text \in {TextOf(heap, items[j].node), <<Marker>>, <<Unsupported>>}
    BY <1>4
  <1>9. i = j
    <2>1. heap[o.of].kind \in {"dict", "record"}
      BY <1>2 DEF Named
    <2>2. \A k, l \in DOMAIN items : items[k].name = items[l].name => k = l
      <3>1. heap \in Heaps /\ o.of \in Nodes
        BY <1>2
      <3>2. \A k, l \in DOMAIN heap[o.of].items :
               heap[o.of].items[k].name = heap[o.of].items[l].name => k = l
        BY <2>1, <3>1, HeapAssumption
      <3> QED
        BY <1>3, <3>2
    <2>3. items[i].name = items[j].name
      BY <1>6, <1>7, <1>8
    <2> QED
      BY <2>2, <2>3
  <1>10. name \in DOMAIN fields /\ fields[name] = Claimed(receipt, name)
    <2>1. name \in ReceiptNames(receipt)
      BY <1>7 DEF ReceiptNames
    <2> QED
      BY <2>1 DEF Agrees
  <1> QED
    BY <1>6, <1>7, <1>8, <1>9, <1>10

LEMMA ReconcileKeeps ==
  ASSUME DInv, NEW answer, NEW fields, NEW valid \in BOOLEAN, Reconcile(answer, fields, valid)
  PROVE  DInv'
  <1>1. UNCHANGED <<heap, extras, removed, decision, outcome>> /\ pc' = "done"
    BY DEF Reconcile
  <1>2. PICK o \in outcome : \E receipt \in o.receipt :
          report' = {[reader |-> "reconcile", refused |-> ~valid,
                      good |-> valid /\ answer = "record" /\ Agrees(receipt, fields),
                      fields |-> fields]}
    BY DEF Reconcile
  <1>2b. PICK receipt \in o.receipt :
          report' = {[reader |-> "reconcile", refused |-> ~valid,
                      good |-> valid /\ answer = "record" /\ Agrees(receipt, fields),
                      fields |-> fields]}
    BY <1>2
  <1>3. SafeMeansRedacted'
    BY <1>2b DEF SafeMeansRedacted
  <1>4. ASSUME NEW r \in report', r.good, NEW o1 \in outcome
        PROVE  \A name \in ItemNames(o1.of) :
                 /\ name \in DOMAIN r.fields
                 /\ r.fields[name] \in {TrueText(o1.of, name), <<Marker>>, <<Unsupported>>}
    <2>1. r.fields = fields /\ answer = "record" /\ Agrees(receipt, fields)
      <3>1. PICK agrees \in BOOLEAN : agrees = (valid /\ answer = "record" /\ Agrees(receipt, fields))
        OBVIOUS
      <3>2. r = [reader |-> "reconcile", refused |-> ~valid, good |-> agrees, fields |-> fields]
        BY <1>2b, <1>4, <3>1
      <3>3. r.good = agrees /\ r.fields = fields
        BY <3>2
      <3> QED
        BY <1>4, <3>1, <3>3
    <2>2. \A o2 \in outcome : o2 = o
      BY DEF DInv
    <2> QED
      BY <2>1, <2>2, AgreementIsTrue
  <1>5. ReconciledIsTrue'
    <2>1. \A n, name : ItemNames(n)' = ItemNames(n) /\ TrueText(n, name)' = TrueText(n, name)
      BY <1>1 DEF ItemNames, TrueText
    <2> QED
      BY <1>1, <1>4, <2>1 DEF ReconciledIsTrue
  <1>6. /\ \A d \in decision' : DecisionRight(heap', extras', d)
        /\ \A o1 \in outcome' : OutcomeRight(heap', extras', removed', o1)
    BY <1>1 DEF DInv
  <1> QED
    BY <1>1, <1>3, <1>5, <1>6 DEF DInv

\* Every record was made from the arguments, and what readers conclude holds.
THEOREM DisclosureInvariance == DisclosureSpec => []DInv
  <1>1. ASSUME DInv, [DisclosureNext]_records PROVE DInv'
    <2>1. CASE Decorate
      BY <1>1, <2>1, DecorateKeeps
    <2>2. CASE \E verdict \in {"allowed", "denied"} : Decide(verdict)
      BY <1>1, <2>2, DecideKeeps
    <2>3. CASE \E n \in Nodes, extracted \in BOOLEAN, short \in BOOLEAN : Succeed(n, extracted, short)
      BY <1>1, <2>3, SucceedKeeps
    <2>4. CASE \E quoted : Quotes(heap, quoted) /\ Fail(quoted)
      BY <1>1, <2>4, FailKeeps
    <2>5. CASE \E valid \in BOOLEAN : Inspect(valid)
      BY <1>1, <2>5, InspectKeeps
    <2>6. CASE \E answer \in {"raises", "unknown"}, valid \in BOOLEAN : Reconcile(answer, <<>>, valid)
      BY <1>1, <2>6, ReconcileKeeps
    <2>7. CASE \E o \in outcome, valid \in BOOLEAN :
                 \E receipt \in o.receipt, marks \in ProviderRecords(o.of) :
                   Reconcile("record", Fields(o.of, receipt, marks), valid)
      BY <1>1, <2>7, ReconcileKeeps
    <2>8. ASSUME Fail(<<>>) \/ (\E first \in Quotable : Fail(<<first>>))
                   \/ \E first, second \in Quotable : Fail(<<first, second>>)
          PROVE  \E quoted : Quotes(heap, quoted) /\ Fail(quoted)
      <3>1. Quotable \subseteq Texts(heap)
        BY DEF Quotable, Texts
      <3>2. Quotes(heap, <<>>)
        <4>1. 0 \in 0..2 /\ <<>> \in [1..0 -> Texts(heap)]
          OBVIOUS
        <4> QED
          BY <4>1 DEF Quotes
      <3>3. \A first \in Quotable : Quotes(heap, <<first>>)
        <4>1. \A first \in Quotable : 1 \in 0..2 /\ <<first>> \in [1..1 -> Texts(heap)]
          BY <3>1
        <4> QED
          BY <4>1 DEF Quotes
      <3>4. \A first, second \in Quotable : Quotes(heap, <<first, second>>)
        <4>1. \A first, second \in Quotable : 2 \in 0..2 /\ <<first, second>> \in [1..2 -> Texts(heap)]
          BY <3>1
        <4> QED
          BY <4>1 DEF Quotes
      <3> QED
        BY <2>8, <3>2, <3>3, <3>4
    <2>9. CASE UNCHANGED records
      <3>1. UNCHANGED <<heap, extras, pc, removed, decision, outcome, report>>
        BY <2>9 DEF records
      <3>2. SafeMeansRedacted'
        BY <1>1, <3>1 DEF DInv, SafeMeansRedacted
      <3>3. ReconciledIsTrue'
        <4>1. \A n, name : ItemNames(n)' = ItemNames(n) /\ TrueText(n, name)' = TrueText(n, name)
          BY <3>1 DEF ItemNames, TrueText
        <4> QED
          BY <1>1, <3>1, <4>1 DEF DInv, ReconciledIsTrue
      <3>4. /\ \A d \in decision' : DecisionRight(heap', extras', d)
            /\ \A o \in outcome' : OutcomeRight(heap', extras', removed', o)
        BY <1>1, <3>1 DEF DInv
      <3> QED
        BY <1>1, <3>1, <3>2, <3>3, <3>4 DEF DInv
    <2> QED
      BY <1>1, <2>1, <2>2, <2>3, <2>4, <2>5, <2>6, <2>7, <2>8, <2>9 DEF DisclosureNext
  <1> QED
    BY <1>1, DInvInit, PTL DEF DisclosureSpec

(* Nothing sensitive, whatever its spelling, nesting or container, and     *)
(* nothing that holds a pattern stays in the canonical arguments, the      *)
(* hashed result or the receipt (canonical._walk), for arguments of any    *)
(* size and shape and any nesting that is walked.                          *)
THEOREM NothingSensitiveEver == DisclosureSpec => []NothingSensitiveRemains
  <1>1. ASSUME DInv PROVE NothingSensitiveRemains
    <2>1. heap \in Heaps /\ extras \in Declared /\ Root \in Nodes
      BY <1>1, DisclosureAssumption DEF DInv
    <2>2. ASSUME NEW n \in Nodes, NEW P, P = Canonicalize(heap, n, SensitiveSet(extras)).positions
          PROVE  Clean(P, SensitiveSet(extras))
      <3>1. Canonicalize(heap, n, SensitiveSet(extras)) \in Forms(heap, SensitiveSet(extras))
        BY <2>1, CanonicalIsForm
      <3> QED
        BY <2>2, <3>1 DEF Forms
    <2>3. ASSUME NEW d \in decision PROVE Clean(d.input, SensitiveSet(extras))
      BY <1>1, <2>1, <2>2 DEF DInv, DecisionRight
    <2>4. ASSUME NEW o \in outcome, NEW positions \in o.hash \cup o.receipt
          PROVE  Clean(positions, SensitiveSet(extras))
      <3>1. o.of \in Nodes /\ positions = Canonicalize(heap, o.of, SensitiveSet(extras)).positions
        BY <1>1 DEF DInv, OutcomeRight
      <3> QED
        BY <2>2, <3>1
    <2> QED
      BY <2>3, <2>4 DEF NothingSensitiveRemains
  <1> QED
    BY <1>1, DisclosureInvariance, PTL

LEMMA TextsAre ==
  ASSUME NEW h \in Heaps
  PROVE  IsFiniteSet(Texts(h)) /\ Texts(h) \subseteq Seq(Alphabet \ {Quote})
  <1>1. PICK own : own = {h[n].text : n \in Nodes}
    OBVIOUS
  <1>2. IsFiniteSet(own)
    <2>1. PICK f : f = [n \in Nodes |-> h[n].text]
      OBVIOUS
    <2>2. f \in Surjection(Nodes, own)
      BY <1>1, <2>1 DEF Surjection
    <2> QED
      BY <2>2, DisclosureAssumption, FS_Surjection
  <1>3. own \subseteq Seq(Alphabet \ {Quote})
    BY <1>1, HeapAssumption
  <1>4. PICK marks : marks = {<<Marker>>, <<Unsupported>>, <<Container>>}
    OBVIOUS
  <1>5. IsFiniteSet(marks)
    <2>1. IsFiniteSet({<<Marker>>}) /\ IsFiniteSet({<<Unsupported>>}) /\ IsFiniteSet({<<Container>>})
      BY FS_Singleton
    <2>2. IsFiniteSet({<<Marker>>} \cup {<<Unsupported>>})
      BY <2>1, FS_Union
    <2>3. IsFiniteSet(({<<Marker>>} \cup {<<Unsupported>>}) \cup {<<Container>>})
      BY <2>1, <2>2, FS_Union
    <2>4. marks = ({<<Marker>>} \cup {<<Unsupported>>}) \cup {<<Container>>}
      BY <1>4
    <2> QED
      BY <2>3, <2>4
  <1>6. marks \subseteq Seq(Alphabet \ {Quote})
    BY <1>4, DisclosureAssumption
  <1>7. Texts(h) = own \cup marks
    BY <1>1, <1>4 DEF Texts
  <1> QED
    BY <1>2, <1>3, <1>5, <1>6, <1>7, FS_Union

(* An error that quotes removed values of the length that is scrubbed      *)
(* keeps no letter of them, however they contain one another, and no hash  *)
(* is taken of a removed value (redaction.scrub_text,                      *)
(* engine._safe_output_hash), for arguments and patterns of any size.      *)
THEOREM OutcomeNeverTells == DisclosureSpec => []OutcomeTellsNothingRemoved
  <1>1. ASSUME DInv PROVE OutcomeTellsNothingRemoved
    <2>1. PICK gone : gone = removed
      OBVIOUS
    <2>2. IsFiniteSet(gone) /\ gone \subseteq Seq(Alphabet \ {Quote})
      <3>1. heap \in Heaps /\ gone \subseteq Texts(heap)
        BY <1>1, <2>1 DEF DInv
      <3> QED
        BY <3>1, TextsAre, FS_Subset
    <2>3. ASSUME NEW o \in outcome,
                 \A i \in DOMAIN o.quoted : o.quoted[i] \in removed /\ Len(o.quoted[i]) >= MinScrub
          PROVE  o.error \in Seq({Quote, Marker})
      <3>1. CASE o.error = <<>>
        BY <3>1
      <3>2. CASE o.error # <<>>
        <4>1. Quotes(heap, o.quoted) /\ o.error = Scrub(ErrorText(o.quoted), gone)
          BY <1>1, <2>1, <3>2 DEF DInv, OutcomeRight
        <4>2. PICK quoted : quoted = o.quoted
          OBVIOUS
        <4>3. PICK n \in 0..2 : quoted \in [1..n -> Texts(heap)]
          BY <4>1, <4>2 DEF Quotes
        <4>4. PICK long : long = {v \in gone : Len(v) >= MinScrub}
          OBVIOUS
        <4>5. quoted \in [1..n -> long]
          BY <2>1, <2>3, <4>2, <4>3, <4>4
        <4>6. long \subseteq Seq(Alphabet)
          BY <2>2, <4>4
        <4>7. ErrorText(quoted) \in Errors(long)
          BY <4>5, <4>6, ErrorIsError
        <4> QED
          BY <2>2, <4>1, <4>2, <4>4, <4>7, ScrubTells
      <3> QED
        BY <3>1, <3>2
    <2>4. \A text \in Seq({Quote, Marker}) : Letters(text) \subseteq {Quote, Marker}
      BY DEF Letters
    <2>5. \A o \in outcome : o.hash # {} => heap[o.of].text \notin removed \/ heap[o.of].kind = "none"
      BY <1>1 DEF DInv, OutcomeRight
    <2> QED
      BY <2>3, <2>4, <2>5 DEF OutcomeTellsNothingRemoved
  <1> QED
    BY <1>1, DisclosureInvariance, PTL

(* A record found safe for upload holds nothing but markers                *)
(* (privacy.inspect_verified_snapshot), for arguments of any size and      *)
(* shape.                                                                  *)
THEOREM SafeIsRedacted == DisclosureSpec => []SafeMeansRedacted
  <1>1. DInv => SafeMeansRedacted
    BY DEF DInv
  <1> QED
    BY <1>1, DisclosureInvariance, PTL

(* A receipt reported as matched is held by the provider, and every field  *)
(* reads there as it was returned, or is the marker of one that was        *)
(* redacted or not supported (reconcile.reconcile_verified_snapshot).      *)
THEOREM ReconciledIsAlwaysTrue == DisclosureSpec => []ReconciledIsTrue
  <1>1. DInv => ReconciledIsTrue
    BY DEF DInv
  <1> QED
    BY <1>1, DisclosureInvariance, PTL
=============================================================================
