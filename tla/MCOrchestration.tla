-------------------------- MODULE MCOrchestration --------------------------
(***************************************************************************)
(* Model-checking instance of Orchestration over the models of MCRouting. *)
(***************************************************************************)
EXTENDS Orchestration

M1 == [name |-> "m1", provider |-> "pa", cost |-> 2,  context_size |-> 4096, weight |-> 50]
M2 == [name |-> "m2", provider |-> "pa", cost |-> 30, context_size |-> 8192, weight |-> 100]
M3 == [name |-> "m3", provider |-> "pb", cost |-> 5,  context_size |-> 2048, weight |-> 100]

\* The full catalog, and one without the big model, so that a grown
\* critique or refinement request can outgrow every context window.
MCCatalogs == {<<M1, M2, M3>>, <<M3, M1>>}

MCDirectories == {{"pa", "pb"}}

\* A short and a long (4096-token) user message.
MCRequests ==
    {[messages   |-> <<[role |-> "user", content |-> <<"user-input">>, chars |-> c]>>,
      model      |-> NoModel,
      max_tokens |-> NoLimit] : c \in {20, 16384}}

\* The default policy, and one that prefers cheap models and never escalates.
MCPolicies ==
    {[max_cost_per_1k_tokens |-> NoLimit, min_context_size |-> NoLimit,
      prefer_higher_weight |-> TRUE, allow_escalation |-> TRUE],
     [max_cost_per_1k_tokens |-> NoLimit, min_context_size |-> NoLimit,
      prefer_higher_weight |-> FALSE, allow_escalation |-> FALSE]}

\* Both modes; planner pinned or not; up to two refinement passes.
MCConfigs ==
    [mode : {"simple", "adversarial"}, planner_model : {NoModel, "m1"},
     critic_model : {NoModel, "m3"}, enable_refinement : BOOLEAN,
     max_refinement_iterations : 0..2]

\* A short reply, and one of 20000 characters (5000 tokens).
MCRespChars == {40, 20000}

=============================================================================
