----------------------------- MODULE MCRouting -----------------------------
(***************************************************************************)
(* Model-checking instance of Routing.  Three models modelled on the      *)
(* registry's defaults (mock-gpt-3.5 and mock-gpt-4) plus a third one on  *)
(* a second provider, chosen so that weights tie (m2, m3), a heavier      *)
(* model has the smaller context (m3), and the heaviest is the costliest  *)
(* (m2).  Costs are in thousandths of a dollar per 1k tokens.             *)
(***************************************************************************)
EXTENDS Routing

M1 == [name |-> "m1", provider |-> "pa", cost |-> 2,  context_size |-> 4096, weight |-> 50]
M2 == [name |-> "m2", provider |-> "pa", cost |-> 30, context_size |-> 8192, weight |-> 100]
M3 == [name |-> "m3", provider |-> "pb", cost |-> 5,  context_size |-> 2048, weight |-> 100]

\* Every order in which the registry can hold any non-empty set of them.
MCCatalogs == SetToAllKPermutations({M1, M2, M3}) \ {<<>>}

MCDirectories == {{"pa", "pb"}, {"pa"}, {"pb"}}

\* One user message of 20, 16384 or 24000 characters (5, 4096 and 6000
\* estimated tokens), with or without max_tokens, unpinned or pinned.
MCRequests ==
    {[messages   |-> <<[role |-> "user", content |-> <<"user-input">>, chars |-> c]>>,
      model      |-> pin,
      max_tokens |-> mt] :
        c \in {20, 16384, 24000}, pin \in {NoModel, "m1", "m3"},
        mt \in {NoLimit, 2000}}

\* Policies whose ceiling, when set, is positive.
MCPolicies ==
    [max_cost_per_1k_tokens : {NoLimit, 10},
     min_context_size       : {NoLimit, 8000},
     prefer_higher_weight   : BOOLEAN,
     allow_escalation       : BOOLEAN]

\* The same with a ceiling of 0.0, a value the policy may legally carry.
MCZeroCeilingPolicies ==
    [max_cost_per_1k_tokens : {NoLimit, 0, 10},
     min_context_size       : {NoLimit},
     prefer_higher_weight   : BOOLEAN,
     allow_escalation       : BOOLEAN]

MCRespChars == {40}

=============================================================================
