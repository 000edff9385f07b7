------------------------------ MODULE Server ------------------------------
(***************************************************************************)
(* One TokenHubAPI process serving a /v1/chat request and admin requests  *)
(* at the same time.  Flask runs each request on its own thread and      *)
(* nothing locks ModelRegistry._models or ProviderRegistry._providers, so *)
(* the admin handlers of Service may run between the steps of the        *)
(* routing call of Routing: after select_model and before                 *)
(* _escalate_request reads the registry again.  The chat request is one  *)
(* simple-mode call, which is one routing call, followed by the rest of  *)
(* the handler: log_metric, whose INSERT may raise, and the reply.  The  *)
(* process may restart (a new run of main) at any step: the chat request *)
(* in flight dies with it, the metrics table stays, and the new process  *)
(* may receive a new chat request.                                        *)
(***************************************************************************)
EXTENDS Integers, Sequences, SequencesExt

CONSTANTS
    Catalogs, Directories, Requests, NoModel, NoLimit, RespChars,
    Threads, Defaults, ModelUpdates, ProviderNames, ProviderTypes,
    KnownTypes, SaveCanFail, MaxRestarts, ApiKeys, Password, NoRow

VARIABLES
    catalog, directory,
    rphase, rreq, rpol, rid, selected, target, attempt, outcome, rresp,
    vault, vsalt, vkey, dbModels, dbVault, pc, pending, snap, restarts,
    ackedModels, ackedProviders, everRegistered, keysSent,
    logged,        \* the chat handler of the current process returned from log_metric
    replies,       \* request id -> the status it was answered with, or NoAnswer
    metrics        \* rows of the metrics table, in id order

\* RoutingPolicy(): the policy of every /v1/chat call, which passes none
\* (execute(chat_request, config) with policy=None).
DefaultPolicy ==
    [max_cost_per_1k_tokens |-> NoLimit, min_context_size |-> NoLimit,
     prefer_higher_weight   |-> TRUE,    allow_escalation |-> TRUE]
Policies == {DefaultPolicy}

R == INSTANCE Routing
S == INSTANCE Service

callVars == <<rphase, rreq, rpol, rid, selected, target, attempt, outcome, rresp>>
adminVars == <<vault, vsalt, vkey, dbModels, dbVault, pc, pending, snap,
               restarts, ackedModels, ackedProviders, everRegistered, keysSent>>
handlerVars == <<logged, replies, metrics>>
vars == <<catalog, directory, callVars, adminVars, handlerVars>>

\* No HTTP status yet.
NoAnswer == 0

\* Chat request ids: the request of the k-th process has id k.
RequestIds == 0..MaxRestarts

\* The call variables of a process with no chat request, in the order of
\* callVars.
NoCall ==
    <<"idle", CHOOSE r \in Requests : TRUE, DefaultPolicy, 0,
      NoModel, NoModel, 1, "ok", [id |-> 0, model |-> NoModel, chars |-> 0]>>

\* callVars' = NoCall, variable by variable.
ResetCall ==
    /\ rphase' = NoCall[1] /\ rreq' = NoCall[2] /\ rpol' = NoCall[3]
    /\ rid' = NoCall[4] /\ selected' = NoCall[5] /\ target' = NoCall[6]
    /\ attempt' = NoCall[7] /\ outcome' = NoCall[8] /\ rresp' = NoCall[9]

\* A fresh process (Service) on a new database, with no chat request yet.
Init ==
    /\ S!Init
    /\ rphase = NoCall[1] /\ rreq = NoCall[2] /\ rpol = NoCall[3]
    /\ rid = NoCall[4] /\ selected = NoCall[5] /\ target = NoCall[6]
    /\ attempt = NoCall[7] /\ outcome = NoCall[8] /\ rresp = NoCall[9]
    /\ logged = FALSE
    /\ replies = [id \in RequestIds |-> NoAnswer]
    /\ metrics = <<>>

\* The chat thread: the request arrives (the process's only one), then
\* its provider answers.
ChatStep ==
    /\ \/ /\ rphase = "idle"
          /\ replies[restarts] = NoAnswer
          /\ \E req \in Requests :
                R!ExecuteWithRouting(req, DefaultPolicy, restarts)
       \/ R!ProviderReturns
    /\ UNCHANGED <<adminVars, handlerVars>>

\* log_metric('chat_completion', {model, ...}): one INSERT, committed.
LogMetricRow(row) == Append(metrics, row)

\* Slip: a failing log_metric is caught and ignored, as if it had logged.
LogMetricSwallowsError ==
    /\ rphase = "returned" /\ outcome = "ok"
    /\ replies[rid] = NoAnswer /\ ~logged
    /\ \E ok \in S!SaveOutcomes :
          /\ metrics' = IF ok THEN LogMetricRow([id |-> rid, model |-> rresp.model])
                        ELSE metrics
          /\ logged' = TRUE
          /\ UNCHANGED replies
    /\ UNCHANGED <<catalog, directory, callVars, adminVars>>

\* After execute returned, the handler logs the completion: log_metric
\* commits its row, or raises and the except clause answers 500.
LogMetric ==
    /\ rphase = "returned" /\ outcome = "ok"
    /\ replies[rid] = NoAnswer /\ ~logged
    /\ \E ok \in S!SaveOutcomes :
          \/ /\ ok
             /\ metrics' = LogMetricRow([id |-> rid, model |-> rresp.model])
             /\ logged' = TRUE
             /\ UNCHANGED replies
          \/ /\ ~ok
             /\ replies' = [replies EXCEPT ![rid] = 500]
             /\ UNCHANGED <<metrics, logged>>
    /\ UNCHANGED <<catalog, directory, callVars, adminVars>>

\* The handler answers: 200 with the body once log_metric has returned,
\* or 500 from the except clause when execute raised.
Reply ==
    /\ rphase = "returned" /\ replies[rid] = NoAnswer
    /\ \/ outcome # "ok" /\ replies' = [replies EXCEPT ![rid] = 500]
       \/ logged /\ replies' = [replies EXCEPT ![rid] = 200]
    /\ UNCHANGED <<catalog, directory, callVars, adminVars, logged, metrics>>

\* An admin thread runs one step of a handler of Service.
AdminStep ==
    /\ S!AdminNext
    /\ UNCHANGED <<callVars, handlerVars>>

\* The process is restarted (main runs again): Service's Restart, and the
\* chat request in flight is gone without an answer; the metrics table
\* stays.
Crash ==
    /\ S!Restart
    /\ ResetCall
    /\ logged' = FALSE
    /\ UNCHANGED <<replies, metrics>>

Next == ChatStep \/ LogMetric \/ Reply \/ AdminStep \/ Crash

\* No fairness: the properties checked of this module are safety properties.
Spec == Init /\ [][Next]_vars

-----------------------------------------------------------------------------
(* Properties                                                              *)

TypeOK ==
    /\ S!TypeOK
    /\ rphase \in {"idle", "calling", "returned"}
    /\ attempt \in {1, 2}
    /\ outcome \in R!Outcomes
    /\ rphase = "calling" => target.provider \in directory
    /\ replies \in [RequestIds -> {NoAnswer, 200, 500}]
    /\ metrics \in Seq([id : RequestIds, model : STRING])
    /\ logged => rphase = "returned" /\ outcome = "ok"

\* The metrics table agrees with what chat clients were told: a request
\* answered 200 has its chat_completion row and one answered 500 has none,
\* through log_metric failures and restarts (a request a restart cut off
\* has no answer, whatever the table holds).
LoggedIffAnswered ==
    \A id \in RequestIds :
        replies[id] # NoAnswer =>
            (replies[id] = 200 <=> \E i \in DOMAIN metrics : metrics[i].id = id)

\* Escalation monotonicity (design section 8) against the registry as it
\* is when _escalate_request runs: the escalated model strictly exceeds
\* the failed model in weight or context size.  The code compares with
\* the record select_model returned, which an admin may have replaced in
\* the meantime; the design assumes a consistent snapshot for the call.
EscalationMonotoneNow ==
    [][attempt = 1 /\ attempt' = 2 =>
         \A i \in DOMAIN catalog :
            catalog[i].name = selected.name =>
               \/ target'.weight > catalog[i].weight
               \/ target'.context_size > catalog[i].context_size]_vars

=============================================================================
