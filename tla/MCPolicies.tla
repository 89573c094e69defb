---------------------------- MODULE MCPolicies -----------------------------
(* A small instance of Policies: compositions, and files of rules.         *)
EXTENDS Policies, TLC

CONSTANTS t1, t2, pay, mail, low, high

Rule(actions, decision, risks, any) ==
  [actions |-> actions, decision |-> decision, risks |-> risks, anyRisk |-> any]

Files ==
  {[entries |-> <<Rule({pay}, "denied", {high}, FALSE), Rule({pay, mail}, "allowed", {}, TRUE)>>,
    default |-> "denied"],
   [entries |-> <<Rule({pay}, "denied", {}, TRUE)>>, default |-> "allowed"],
   [entries |-> <<Rule({pay}, "allowed", {"unknown"}, FALSE)>>, default |-> "allowed"],
   [entries |-> <<Rule({pay}, "maybe", {}, TRUE)>>, default |-> "allowed"]}

Policy(mode, members, quorum, attested) ==
  [mode |-> mode, members |-> members, quorum |-> quorum, attested |-> attested]

Compositions ==
  {Policy("one", <<"custom">>, 0, FALSE),
   Policy("one", <<"custom">>, 0, TRUE),
   Policy("all", <<"rules", "budget">>, 0, FALSE),
   Policy("all", <<"budget", "predicate", "rules">>, 0, FALSE),
   Policy("all", <<"freshness", "budget">>, 0, TRUE),
   Policy("any", <<"rules", "custom">>, 0, FALSE),
   Policy("any", <<"custom", "budget">>, 0, TRUE),
   Policy("quorum", <<"custom", "custom", "budget">>, 2, FALSE),
   Policy("quorum", <<"allowlist", "budget", "freshness">>, 3, FALSE)}

Interchangeable == Permutations({t1, t2})
============================================================================
