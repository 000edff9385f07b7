--------------------------- MODULE Orchestration ---------------------------
(***************************************************************************)
(* The OrchestrationEngine of src/tokenhub/orchestration.py: execute,     *)
(* _execute_simple and _execute_adversarial, composed with the routing    *)
(* engine it calls once per step.  One orchestration call is modelled:    *)
(* each step starts a routing call (Routing!ExecuteWithRouting) and the   *)
(* next step consumes its result, so the provider invocations of plan,    *)
(* critique and each refinement happen strictly in sequence; a routing    *)
(* error aborts the whole call and discards what was produced.            *)
(***************************************************************************)
EXTENDS Integers, Sequences

CONSTANTS
    Catalogs, Directories, Requests, Policies, NoModel, NoLimit, RespChars,
    Configs,     \* OrchestrationConfig values a caller may pass
    NoResponse   \* an Optional[ChatResponse] field left as None

VARIABLES
    catalog, directory, rphase, rreq, rpol, rid, selected, target, attempt,
    outcome, rresp,
    ophase,      \* "idle", the step whose routing call is in flight
                 \* ("simple", "plan", "critique", "refine"), "done", "failed"
    request,     \* the caller's ChatRequest
    config,      \* the OrchestrationConfig
    policy,      \* the RoutingPolicy passed down to every routing call
    planResp,    \* the local plan_response (reassigned by the refinement loop)
    critiqueResp,\* the local critique_response
    refinements, \* the local refinement_responses
    iter,        \* the loop index i of range(max_refinement_iterations)
    result,      \* the OrchestrationResult returned, or NoResponse
    initialPlan  \* history: the response of the plan step

R == INSTANCE Routing

routingVars == <<catalog, directory, rphase, rreq, rpol, rid, selected,
                 target, attempt, outcome, rresp>>

orchVars == <<ophase, request, config, policy, planResp, critiqueResp,
              refinements, iter, result, initialPlan>>
vars == <<routingVars, orchVars>>

\* Length of the instruction message the critique step appends.
CritiqueInstructionChars == 118
\* "Critique: " and "\n\nPlease refine your response based on this critique."
RefinePromptChars == 10 + 53

\* A response's content as a message of a derived request.
AsMessage(role, resp) ==
    [role |-> role, content |-> <<"response", resp.id>>, chars |-> resp.chars]

\* The request of the critique step: original messages, the plan, and the
\* instruction to review it, pinned to critic_model.
CritiqueRequest(plan) ==
    [messages   |-> request.messages \o
                      << AsMessage("assistant", plan),
                         [role |-> "user", content |-> <<"critique-instruction">>,
                          chars |-> CritiqueInstructionChars] >>,
     model      |-> config.critic_model,
     max_tokens |-> request.max_tokens]

\* The request of a refinement: original messages, the current draft, and
\* a user message embedding the critique, pinned to planner_model.
RefinementRequest(draft, critique) ==
    [messages   |-> request.messages \o
                      << AsMessage("assistant", draft),
                         [role |-> "user", content |-> <<"refine", critique.id>>,
                          chars |-> RefinePromptChars + critique.chars] >>,
     model      |-> config.planner_model,
     max_tokens |-> request.max_tokens]

\* The routing call of a step returned without raising.
StepSucceeded(step) == ophase = step /\ rphase = "returned" /\ outcome = "ok"

\* The OrchestrationResult of the adversarial mode.
AdversarialResult(final, plan, crit, refs) ==
    [final_response       |-> final,
     plan_response        |-> plan,
     critique_response    |-> crit,
     refinement_responses |-> refs,
     iterations           |-> 1 + Len(refs)]

\* A response's content, abstracted to the identity of the response.
Content(resp) == <<"response", resp.id>>

\* create_adversarial_summary: final_response and iterations always (the
\* str() of an int is one-to-one, so the number stands for it), then
\* initial_plan, critique and refinements when the result has them.
AdversarialSummary(res) ==
    LET keys == {"final_response", "iterations"}
                \cup (IF res.plan_response # NoResponse THEN {"initial_plan"} ELSE {})
                \cup (IF res.critique_response # NoResponse THEN {"critique"} ELSE {})
                \cup (IF res.refinement_responses # <<>> THEN {"refinements"} ELSE {})
    IN  [k \in keys |->
           CASE k = "final_response" -> Content(res.final_response)
             [] k = "iterations"     -> res.iterations
             [] k = "initial_plan"   -> Content(res.plan_response)
             [] k = "critique"       -> Content(res.critique_response)
             [] k = "refinements"    ->
                  [i \in DOMAIN res.refinement_responses |->
                     Content(res.refinement_responses[i])]]

\* The JSON body /v1/chat answers with: the final response's content and
\* model, and in adversarial mode the summary (tokens_used and
\* finish_reason are passed through and left out).
ChatResponseBody(res, mode) ==
    LET reply == [response |-> Content(res.final_response),
                  model    |-> res.final_response.model]
    IN  IF mode = "adversarial"
        THEN [k \in {"response", "model", "adversarial"} |->
                IF k = "adversarial" THEN AdversarialSummary(res) ELSE reply[k]]
        ELSE reply

-----------------------------------------------------------------------------

Init ==
    /\ R!Init
    /\ ophase = "idle"
    /\ request \in Requests
    /\ config \in Configs
    /\ policy \in Policies
    /\ planResp = NoResponse
    /\ critiqueResp = NoResponse
    /\ refinements = <<>>
    /\ iter = 0
    /\ result = NoResponse
    /\ initialPlan = NoResponse

\* execute: dispatch on config.mode.  SIMPLE routes the caller's request
\* unchanged; ADVERSARIAL routes a copy pinned to planner_model.  (The
\* "unknown mode" branch is unreachable: OrchestrationMode(value) raises in
\* the API before execute is called.)
Execute ==
    /\ ophase = "idle"
    /\ \/ /\ config.mode = "simple"
          /\ R!ExecuteWithRouting(request, policy, 1)
          /\ ophase' = "simple"
       \/ /\ config.mode = "adversarial"
          /\ R!ExecuteWithRouting([request EXCEPT !.model = config.planner_model],
                                  policy, 1)
          /\ ophase' = "plan"
    /\ UNCHANGED <<request, config, policy, planResp, critiqueResp,
                   refinements, iter, result, initialPlan>>

\* _execute_simple wraps the response with iterations = 1.
SimpleDone ==
    /\ StepSucceeded("simple")
    /\ result' = [final_response       |-> rresp,
                  plan_response        |-> NoResponse,
                  critique_response    |-> NoResponse,
                  refinement_responses |-> <<>>,
                  iterations           |-> 1]
    /\ ophase' = "done"
    /\ UNCHANGED <<routingVars, request, config, policy, planResp,
                   critiqueResp, refinements, iter, initialPlan>>

\* Step 2 of _execute_adversarial: the plan is back, the critique starts.
PlanDone ==
    /\ StepSucceeded("plan")
    /\ planResp' = rresp
    /\ initialPlan' = rresp
    /\ R!ExecuteWithRouting(CritiqueRequest(rresp), policy, 2)
    /\ ophase' = "critique"
    /\ UNCHANGED <<request, config, policy, critiqueResp, refinements, iter,
                   result>>

\* Step 3: the critique is back; the loop starts if refinement is enabled
\* and max_refinement_iterations > 0, otherwise the result is the plan.
CritiqueDone ==
    /\ StepSucceeded("critique")
    /\ critiqueResp' = rresp
    /\ \/ /\ config.enable_refinement /\ config.max_refinement_iterations > 0
          /\ R!ExecuteWithRouting(RefinementRequest(planResp, rresp), policy, 3)
          /\ ophase' = "refine"
          /\ UNCHANGED result
       \/ /\ ~(config.enable_refinement /\ config.max_refinement_iterations > 0)
          /\ result' = AdversarialResult(planResp, planResp, rresp, <<>>)
          /\ ophase' = "done"
          /\ UNCHANGED routingVars
    /\ UNCHANGED <<request, config, policy, planResp, refinements, iter,
                   initialPlan>>

\* Slip: the loop runs once too often (range(max + 1)).
RefinementDoneOffByOne ==
    /\ StepSucceeded("refine")
    /\ refinements' = Append(refinements, rresp)
    /\ planResp' = rresp
    /\ iter' = iter + 1
    /\ \/ /\ iter + 1 <= config.max_refinement_iterations
          /\ R!ExecuteWithRouting(RefinementRequest(planResp', critiqueResp),
                                  policy, 4 + iter)
          /\ UNCHANGED <<result, ophase>>
       \/ /\ iter + 1 > config.max_refinement_iterations
          /\ result' = AdversarialResult(rresp, planResp', critiqueResp,
                                         Append(refinements, rresp))
          /\ ophase' = "done"
          /\ UNCHANGED routingVars
    /\ UNCHANGED <<request, config, policy, critiqueResp, initialPlan>>

\* Slip: "plan_response = refinement" left out, so every pass refines the
\* original plan.
RefinementDoneStaleDraft ==
    /\ StepSucceeded("refine")
    /\ refinements' = Append(refinements, rresp)
    /\ iter' = iter + 1
    /\ \/ /\ iter + 1 < config.max_refinement_iterations
          /\ R!ExecuteWithRouting(RefinementRequest(planResp, critiqueResp),
                                  policy, 4 + iter)
          /\ UNCHANGED <<result, ophase>>
       \/ /\ iter + 1 >= config.max_refinement_iterations
          /\ result' = AdversarialResult(rresp, planResp, critiqueResp,
                                         Append(refinements, rresp))
          /\ ophase' = "done"
          /\ UNCHANGED routingVars
    /\ UNCHANGED <<request, config, policy, planResp, critiqueResp, initialPlan>>

\* One pass of the loop is back: it is appended, becomes final_response
\* and, through plan_response = refinement, the draft of the next pass,
\* which reuses the same critique.
RefinementDone ==
    /\ StepSucceeded("refine")
    /\ refinements' = Append(refinements, rresp)
    /\ planResp' = rresp
    /\ iter' = iter + 1
    /\ \/ /\ iter + 1 < config.max_refinement_iterations
          /\ R!ExecuteWithRouting(RefinementRequest(planResp', critiqueResp),
                                  policy, 4 + iter)
          /\ UNCHANGED <<result, ophase>>
       \/ /\ iter + 1 >= config.max_refinement_iterations
          /\ result' = AdversarialResult(rresp, planResp', critiqueResp,
                                         Append(refinements, rresp))
          /\ ophase' = "done"
          /\ UNCHANGED routingVars
    /\ UNCHANGED <<request, config, policy, critiqueResp, initialPlan>>

\* Slip: the partial result gathered so far is returned with the error.
StepFailedKeepsPartial ==
    /\ ophase \in {"simple", "plan", "critique", "refine"}
    /\ rphase = "returned"
    /\ outcome # "ok"
    /\ ophase' = "failed"
    /\ result' = AdversarialResult(planResp, planResp, critiqueResp, refinements)
    /\ UNCHANGED <<routingVars, request, config, policy, planResp,
                   critiqueResp, refinements, iter, initialPlan>>

\* A routing call raised: the error propagates out of execute and the
\* responses gathered so far are dropped.
StepFailed ==
    /\ ophase \in {"simple", "plan", "critique", "refine"}
    /\ rphase = "returned"
    /\ outcome # "ok"
    /\ ophase' = "failed"
    /\ UNCHANGED <<routingVars, request, config, policy, planResp,
                   critiqueResp, refinements, iter, result, initialPlan>>

\* The provider of the routing call in flight answers or raises.
RoutingStep ==
    /\ R!ProviderReturns
    /\ UNCHANGED orchVars

Next ==
    \/ Execute
    \/ SimpleDone
    \/ PlanDone
    \/ CritiqueDone
    \/ RefinementDone
    \/ StepFailed
    \/ RoutingStep

\* No fairness: the properties checked of this module are invariants.
Spec == Init /\ [][Next]_vars

-----------------------------------------------------------------------------
(* Properties                                                              *)

Responses == [id : Nat, model : STRING \cup {NoModel}, chars : Nat]
             \cup {NoResponse}

TypeOK ==
    /\ R!TypeOK
    /\ ophase \in {"idle", "simple", "plan", "critique", "refine", "done", "failed"}
    /\ planResp \in Responses /\ critiqueResp \in Responses
    /\ initialPlan \in Responses
    /\ refinements \in Seq(Responses)
    /\ iter \in 0..Len(refinements)
    /\ result = NoResponse <=> ophase # "done"

\* The shape of a returned OrchestrationResult (design section 8): simple
\* mode has one iteration and no plan or critique; adversarial mode has
\* both, its final response is the last refinement or else the plan, and
\* iterations = 1 + the number of refinements, which is exactly
\* max_refinement_iterations when refinement is enabled and 0 otherwise.
ResultShape ==
    ophase = "done" =>
      LET refs == result.refinement_responses
          want == IF config.enable_refinement /\ config.max_refinement_iterations > 0
                  THEN config.max_refinement_iterations ELSE 0
      IN  /\ result.iterations = 1 + Len(refs)
          /\ config.mode = "simple" =>
               /\ result.plan_response = NoResponse
               /\ result.critique_response = NoResponse
               /\ result.iterations = 1
          /\ config.mode = "adversarial" =>
               /\ result.critique_response # NoResponse
               /\ Len(refs) = want
               /\ result.final_response =
                    IF refs = <<>> THEN initialPlan ELSE refs[Len(refs)]

\* Each refinement pass builds on the newest draft: the request of pass k
\* carries the response of pass k-1 (the plan for the first pass) as its
\* assistant message, and the one critique, never regenerated, as the text
\* to act on.  The loop threads the draft through the reassigned local
\* plan_response, which is easy to get wrong.
RefinementBuildsOnLatestDraft ==
    ophase = "refine" =>
      LET n     == Len(request.messages)
          draft == IF refinements = <<>> THEN initialPlan
                   ELSE refinements[Len(refinements)]
      IN  /\ rreq.messages[n + 1].content = <<"response", draft.id>>
          /\ rreq.messages[n + 2].content = <<"refine", critiqueResp.id>>

\* The adversarial reply's "initial_plan" is the plan the planner
\* produced, as the key create_adversarial_summary gives it says (and the
\* design's "plan_response").  The loop's plan_response = refinement
\* overwrites it, so a client is shown the last refinement under that name.
SummaryReportsInitialPlan ==
    ophase = "done" /\ config.mode = "adversarial" =>
      ChatResponseBody(result, config.mode).adversarial["initial_plan"]
        = Content(initialPlan)

=============================================================================
