------------------------------ MODULE Routing ------------------------------
(***************************************************************************)
(* The RoutingEngine of src/tokenhub/routing.py: select_model,            *)
(* _estimate_context_size, execute_with_routing and _escalate_request.    *)
(*                                                                         *)
(* One routing call is ExecuteWithRouting (selection, pinning the model,  *)
(* looking up the provider, issuing chat_completion) followed by the      *)
(* provider answering or raising; a raise either propagates or triggers   *)
(* the single escalation hop.  The catalog (ModelRegistry._models, in     *)
(* insertion order) and the directory (the provider names registered in   *)
(* ProviderRegistry._providers) are variables so that the modules that    *)
(* compose this one can change them between the steps of a call.         *)
(***************************************************************************)
EXTENDS Integers, Sequences, SequencesExt

CONSTANTS
    Catalogs,    \* catalogs the registry may hold when calls arrive
    Directories, \* sets of provider names that may be registered
    Requests,    \* ChatRequests a caller may pass
    Policies,    \* RoutingPolicy values a caller may pass
    NoModel,     \* request.model = None, and select_model returning None
    NoLimit,     \* an Optional[...] policy or request field left as None
    RespChars    \* lengths (in characters) a provider's reply may have

VARIABLES
    catalog,     \* ModelRegistry._models.values(): a sequence of model records
    directory,   \* ProviderRegistry._providers: the set of registered names
    rphase,      \* "idle", "calling" (chat_completion in flight), "returned"
    rreq,        \* the ChatRequest as it is handed to the provider
    rpol,        \* the RoutingPolicy of the call
    rid,         \* identity the caller gives the response of this call
    selected,    \* what select_model returned (the failed_model of escalation)
    target,      \* the model whose provider chat_completion is invoked
    attempt,     \* 1: the first chat_completion, 2: the escalated one
    outcome,     \* "ok" or the error the call ended with
    rresp        \* the ChatResponse of the last successful call

routingVars == <<catalog, directory, rphase, rreq, rpol, rid, selected,
                 target, attempt, outcome, rresp>>

Outcomes == {"ok", "ModelNotFound", "ProviderNotFound",
             "ProviderCallFailed", "EscalationExhausted"}

-----------------------------------------------------------------------------
(* Helpers                                                                 *)

\* Python truthiness of an Optional number: None and 0 are both false.
Truthy(x) == x # NoLimit /\ x # 0

\* Slip: reverse=True dropped, so the lightest model comes first.
TopByWeightAscending(s) ==
    LET w == Min({s[i].weight : i \in DOMAIN s})
    IN  s[SelectInSeq(s, LAMBDA m : m.weight = w)]

\* candidates.sort(key=weight, reverse=True)[0]: a stable sort, so the
\* first model of maximal weight in catalog order.
TopByWeight(s) ==
    LET w == Max({s[i].weight : i \in DOMAIN s})
    IN  s[SelectInSeq(s, LAMBDA m : m.weight = w)]

\* candidates.sort(key=cost)[0]: the first model of minimal cost.
Cheapest(s) ==
    LET c == Min({s[i].cost : i \in DOMAIN s})
    IN  s[SelectInSeq(s, LAMBDA m : m.cost = c)]

\* _estimate_context_size: characters // 4, plus max_tokens when truthy.
EstimateContextSize(req) ==
    LET chars == FoldLeft(LAMBDA acc, msg : acc + msg.chars, 0, req.messages)
    IN  chars \div 4 + (IF Truthy(req.max_tokens) THEN req.max_tokens ELSE 0)

\* max(policy.min_context_size or 0, estimated_context)
RequiredContext(req, pol) ==
    LET floor == IF Truthy(pol.min_context_size) THEN pol.min_context_size ELSE 0
        est   == EstimateContextSize(req)
    IN  IF floor >= est THEN floor ELSE est

\* The cost filter, skipped when max_cost_per_1k_tokens is falsy.
WithinCost(m, pol) ==
    ~Truthy(pol.max_cost_per_1k_tokens) \/ m.cost <= pol.max_cost_per_1k_tokens

\* The context and cost filters of select_model, in catalog order.
Candidates(req, pol) ==
    SelectSeq(catalog, LAMBDA m : /\ m.context_size >= RequiredContext(req, pol)
                                  /\ WithinCost(m, pol))

SelectModel(req, pol) ==
    LET c == Candidates(req, pol)
    IN  IF c = <<>> THEN NoModel
        ELSE IF pol.prefer_higher_weight THEN TopByWeight(c) ELSE Cheapest(c)

\* Slip: m.weight >= failed.weight admits models of equal weight.
EscalationCandidatesWeightGe(failed, pol) ==
    SelectSeq(catalog, LAMBDA m : /\ \/ m.weight >= failed.weight
                                     \/ m.context_size > failed.context_size
                                  /\ m.name # failed.name
                                  /\ WithinCost(m, pol))

\* The candidates of _escalate_request: strictly higher weight or larger
\* context than the failed model, not the failed model, within cost.
EscalationCandidates(failed, pol) ==
    SelectSeq(catalog, LAMBDA m : /\ \/ m.weight > failed.weight
                                     \/ m.context_size > failed.context_size
                                  /\ m.name # failed.name
                                  /\ WithinCost(m, pol))

\* Slip: sorted(..., key=weight)[::-1], which also reverses the order of
\* models of equal weight.
RECURSIVE SortByWeightAscending(_)
SortByWeightAscending(s) ==
    IF s = <<>> THEN <<>>
    ELSE LET w == Min({s[i].weight : i \in DOMAIN s})
         IN  SelectSeq(s, LAMBDA m : m.weight = w)
             \o SortByWeightAscending(SelectSeq(s, LAMBDA m : m.weight # w))

SortByWeightReversed(s) == Reverse(SortByWeightAscending(s))

\* sorted(models, key=lambda m: m.weight, reverse=True): heaviest first;
\* the sort is stable, so models of equal weight keep registry order.
RECURSIVE SortByWeight(_)
SortByWeight(s) ==
    IF s = <<>> THEN <<>>
    ELSE LET w == Max({s[i].weight : i \in DOMAIN s})
         IN  SelectSeq(s, LAMBDA m : m.weight = w)
             \o SortByWeight(SelectSeq(s, LAMBDA m : m.weight # w))

\* ModelRegistry.get_models_by_context_size: models of at least
\* min_context, heaviest first.
GetModelsByContextSize(minContext) ==
    SortByWeight(SelectSeq(catalog, LAMBDA m : m.context_size >= minContext))

\* ModelRegistry.get_models_by_max_cost: models costing at most max_cost,
\* heaviest first.
GetModelsByMaxCost(maxCost) ==
    SortByWeight(SelectSeq(catalog, LAMBDA m : m.cost <= maxCost))

-----------------------------------------------------------------------------
(* Actions                                                                 *)

\* The call ends with error e, before or instead of a provider invocation.
Raise(e) ==
    /\ rphase' = "returned"
    /\ outcome' = e
    /\ UNCHANGED rresp

\* Slip: the "if not provider" check is missing and the call goes out
\* whatever get_provider returned.
ExecuteWithRoutingNoProviderCheck(req, pol, id) ==
    /\ rphase # "calling"
    /\ LET m    == SelectModel(req, pol)
           sent == IF req.model = NoModel THEN [req EXCEPT !.model = m.name]
                   ELSE req
       IN  /\ rpol' = pol /\ rid' = id /\ selected' = m /\ attempt' = 1
           /\ \/ /\ m = NoModel /\ rreq' = req /\ target' = NoModel
                 /\ Raise("ModelNotFound")
              \/ /\ m # NoModel /\ rreq' = sent /\ target' = m
                 /\ rphase' = "calling"
                 /\ UNCHANGED <<outcome, rresp>>
    /\ UNCHANGED <<catalog, directory>>

\* execute_with_routing up to and including the call of chat_completion.
ExecuteWithRouting(req, pol, id) ==
    /\ rphase # "calling"
    /\ LET m    == SelectModel(req, pol)
           sent == IF req.model = NoModel THEN [req EXCEPT !.model = m.name]
                   ELSE req
       IN  /\ rpol' = pol
           /\ rid' = id
           /\ selected' = m
           /\ attempt' = 1
           /\ \/ /\ m = NoModel
                 /\ rreq' = req
                 /\ target' = NoModel
                 /\ Raise("ModelNotFound")
              \/ /\ m # NoModel
                 /\ rreq' = sent
                 /\ m.provider \notin directory
                 /\ target' = NoModel
                 /\ Raise("ProviderNotFound")
              \/ /\ m # NoModel
                 /\ rreq' = sent
                 /\ m.provider \in directory
                 /\ target' = m
                 /\ rphase' = "calling"
                 /\ UNCHANGED <<outcome, rresp>>
    /\ UNCHANGED <<catalog, directory>>

\* The provider's chat_completion returns; the mock adapter's reply names
\* request.model, which routing has always set by now.
ChatCompletionSucceeds ==
    /\ rphase = "calling"
    /\ \E n \in RespChars :
          rresp' = [id |-> rid, model |-> rreq.model, chars |-> n]
    /\ rphase' = "returned"
    /\ outcome' = "ok"
    /\ UNCHANGED <<catalog, directory, rreq, rpol, rid, selected, target, attempt>>

\* _escalate_request after the first chat_completion raised.
EscalateRequest ==
    LET c == EscalationCandidates(selected, rpol)
    IN  \/ /\ c = <<>>
           /\ Raise("EscalationExhausted")
           /\ UNCHANGED <<rreq, target, attempt>>
        \/ /\ c # <<>>
           /\ LET e == TopByWeight(c)
              IN  /\ rreq' = [rreq EXCEPT !.model = e.name]
                  /\ \/ /\ e.provider \notin directory
                        /\ Raise("ProviderNotFound")
                        /\ UNCHANGED <<target, attempt>>
                     \/ /\ e.provider \in directory
                        /\ target' = e
                        /\ attempt' = 2
                        /\ UNCHANGED <<rphase, outcome, rresp>>

\* Slip: the except clause escalates without consulting allow_escalation.
ChatCompletionFailsAlwaysEscalates ==
    /\ rphase = "calling"
    /\ \/ /\ attempt = 2
          /\ Raise("ProviderCallFailed")
          /\ UNCHANGED <<rreq, target, attempt>>
       \/ /\ attempt = 1
          /\ EscalateRequest
    /\ UNCHANGED <<catalog, directory, rpol, rid, selected>>

\* chat_completion raises: the escalated call's error propagates uncaught,
\* the first call's error is re-raised or escalated per allow_escalation.
ChatCompletionFails ==
    /\ rphase = "calling"
    /\ \/ /\ attempt = 2
          /\ Raise("ProviderCallFailed")
          /\ UNCHANGED <<rreq, target, attempt>>
       \/ /\ attempt = 1
          /\ ~rpol.allow_escalation
          /\ Raise("ProviderCallFailed")
          /\ UNCHANGED <<rreq, target, attempt>>
       \/ /\ attempt = 1
          /\ rpol.allow_escalation
          /\ EscalateRequest
    /\ UNCHANGED <<catalog, directory, rpol, rid, selected>>

\* The provider invoked by the call in flight answers, one way or the other.
ProviderReturns == ChatCompletionSucceeds \/ ChatCompletionFails

-----------------------------------------------------------------------------
(* The engine on its own: one call against a catalog and directory fixed  *)
(* for the run.  RoutingEngine keeps no state between calls, so a later   *)
(* call starts from a state of the same kind and behaves the same way;    *)
(* a behaviour therefore ends when its call has returned.                 *)

Init ==
    /\ catalog \in Catalogs
    /\ directory \in Directories
    /\ rphase = "idle"
    /\ rreq = CHOOSE r \in Requests : TRUE
    /\ rpol = CHOOSE p \in Policies : TRUE
    /\ rid = 0
    /\ selected = NoModel
    /\ target = NoModel
    /\ attempt = 1
    /\ outcome = "ok"
    /\ rresp = [id |-> 0, model |-> NoModel, chars |-> 0]

Next ==
    \/ /\ rphase = "idle"
       /\ \E req \in Requests, pol \in Policies : ExecuteWithRouting(req, pol, 0)
    \/ ChatCompletionSucceeds
    \/ ChatCompletionFails

\* A chat_completion runs to completion: it returns or raises (the code
\* sets no timeout, so this is an assumption on the provider).
Spec == Init /\ [][Next]_routingVars /\ WF_routingVars(ProviderReturns)

-----------------------------------------------------------------------------
(* Properties.  The reference definitions below are written from the      *)
(* selection and escalation rules of the design (section 4.1), apart from *)
(* the operators above that translate the code.                           *)

ModelOrNone == {NoModel} \cup UNION {{c[i] : i \in DOMAIN c} : c \in Catalogs}

TypeOK ==
    /\ rphase \in {"idle", "calling", "returned"}
    /\ selected \in ModelOrNone
    /\ target \in ModelOrNone
    /\ attempt \in {1, 2}
    /\ outcome \in Outcomes
    /\ rpol \in Policies
    /\ rreq.model \in {NoModel} \cup {m.name : m \in ModelOrNone \ {NoModel}}
    /\ rphase = "calling" => target # NoModel /\ target.provider \in directory

InCatalog(m) == \E i \in DOMAIN catalog : catalog[i] = m

\* "if set": a ceiling of None is the only unconstrained one in the design.
CeilingOK(m, pol) ==
    pol.max_cost_per_1k_tokens = NoLimit \/ m.cost <= pol.max_cost_per_1k_tokens

FloorOK(m, req, pol) ==
    /\ m.context_size >= EstimateContextSize(req)
    /\ pol.min_context_size # NoLimit => m.context_size >= pol.min_context_size

PolicyFits(req, pol) ==
    {m \in ModelOrNone \ {NoModel} : InCatalog(m) /\ FloorOK(m, req, pol)
                                                  /\ CeilingOK(m, pol)}

\* Reference for a registry query: the models of the catalog passing the
\* filter, each once, heaviest first, and of two models of equal weight
\* the one registered first comes first.
QueryAnswer(r, Keep(_)) ==
    /\ {r[i] : i \in DOMAIN r} = {catalog[i] : i \in {j \in DOMAIN catalog : Keep(catalog[j])}}
    /\ Len(r) = Cardinality({j \in DOMAIN catalog : Keep(catalog[j])})
    /\ \A i, j \in DOMAIN r : i < j =>
          \/ r[i].weight > r[j].weight
          \/ /\ r[i].weight = r[j].weight
             /\ \E a, b \in DOMAIN catalog : a < b /\ catalog[a] = r[i] /\ catalog[b] = r[j]

\* get_models_by_context_size and get_models_by_max_cost list exactly the
\* models passing their filter, heaviest first, ties in registration
\* order, for every threshold at or around the catalog's values.
RegistryQueriesCorrect ==
    /\ \A k \in {m.context_size : m \in ModelOrNone \ {NoModel}} \cup {0, 100000} :
          QueryAnswer(GetModelsByContextSize(k), LAMBDA m : m.context_size >= k)
    /\ \A k \in {m.cost : m \in ModelOrNone \ {NoModel}} \cup {0} :
          QueryAnswer(GetModelsByMaxCost(k), LAMBDA m : m.cost <= k)

\* Selection correctness (design section 8): whenever select_model has
\* picked a model, it satisfies the context floor and the cost ceiling, and
\* it is the best of all catalog models that do: maximal weight when
\* prefer_higher_weight, else minimal cost; if select_model found nothing,
\* no catalog model fits.
SelectionCorrect ==
    rphase # "idle" =>
      LET fits == PolicyFits(rreq, rpol)
      IN  /\ selected = NoModel <=> fits = {}
          /\ selected # NoModel =>
               /\ selected \in fits
               /\ \A m \in fits :
                    IF rpol.prefer_higher_weight THEN selected.weight >= m.weight
                    ELSE selected.cost <= m.cost

\* Escalation monotonicity: the model of the second chat_completion is not
\* the one that failed, strictly exceeds it in weight or context size, is
\* within the ceiling, and no other such catalog model has a larger weight.
EscalationCorrect ==
    attempt = 2 =>
      LET higher(m) == /\ m.name # selected.name
                       /\ \/ m.weight > selected.weight
                          \/ m.context_size > selected.context_size
                       /\ CeilingOK(m, rpol)
      IN  /\ higher(target)
          /\ InCatalog(target)
          /\ \A m \in ModelOrNone \ {NoModel} :
                InCatalog(m) /\ higher(m) => target.weight >= m.weight

\* The call as its caller sees it (RoutingCall): the provider invocations
\* made so far, the policy's allow_escalation, and the result once returned.
RC == INSTANCE RoutingCall WITH
        cphase       <- rphase,
        invocations  <- IF rphase = "idle" \/ target = NoModel THEN 0 ELSE attempt,
        retryAllowed <- rpol.allow_escalation,
        result       <- IF rphase # "returned" THEN "none"
                        ELSE IF outcome = "ok" THEN "ok" ELSE "error"

\* execute_with_routing implements RoutingCall: at most two provider
\* invocations, the second only after the first raised and only when
\* allow_escalation holds, one result per call, and the call returns as
\* long as providers do.
ImplementsRoutingCall == RC!Spec

(* Statements of the design that the code does not keep; each is checked  *)
(* by a run that expects a violation.                                      *)

\* Cost filter correctness (design section 8): a model whose provider is
\* invoked costs no more than the policy's ceiling whenever one is set.
\* select_model and _escalate_request test the ceiling for truthiness, so
\* a ceiling of 0.0 is ignored.
CostCeilingHonoured ==
    rphase = "calling" => CeilingOK(target, rpol)

\* Every model invoked has room for the request: the context floor that
\* select_model enforces also holds for the escalated model, which
\* _escalate_request never checks.
InvokedModelFitsContext ==
    rphase = "calling" => FloorOK(target, rreq, rpol)

=============================================================================
