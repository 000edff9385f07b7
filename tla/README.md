# TLA+ models of tokenhub

Model-checked specifications of the routing and orchestration core of
tokenhub and of the API process's admin handlers, registries and persistence (`src/tokenhub/`), with the inventory of the whole system and the
plan for the parts not yet modelled.

## 1. Inventory

### Components, their state and their operations

| Component | Source | State it keeps | Operations that change state |
|---|---|---|---|
| Routing Engine | `routing.py` | none of its own; reads the catalog and directory; `default_policy` | `select_model`, `_estimate_context_size`, `execute_with_routing` (writes `request.model`), `_escalate_request` (overwrites `request.model`) |
| Orchestration Engine | `orchestration.py` | none across calls; per call the locals `plan_response`, `critique_response`, `refinement_responses`, `final_response`, `i` | `execute`, `_execute_simple`, `_execute_adversarial`; `create_adversarial_summary` is a pure projection |
| Provider adapters | `providers.py` | `api_key`, `config`, mock `models` | `chat_completion` (a network call in real adapters; may raise), `validate_api_key`, `get_available_models` |
| Model Registry (catalog) | `models.py` | `_models`: name -> ModelMetadata, in insertion order, seeded with two defaults | `register_model`, `remove_model`, `import_models`; reads `list_models`, `get_model`, `export_models` |
| Provider Registry (directory) | `registry.py` | `_providers`: name -> adapter; `_provider_classes`; a vault | `add_provider` (resolves a key from argument, vault or env, stores it in the vault, instantiates), `remove_provider` (also deletes the vault key), `register_provider_class` |
| Secure Vault | `vault.py` | `salt`, derived `key`, `_data`: key -> ciphertext | `store`, `delete`, `clear`, `import_encrypted`; `export_encrypted` returns the live dict |
| Persistence | `persistence.py` | SQLite tables `vault_data`, `models`, `metrics` | `save_vault_data` (delete + insert, one transaction), `save_models` (insert or replace, never delete), `log_metric`; loads |
| REST API and startup | `api.py`, `main.py` | the objects above | `/v1/chat`, `POST /admin/providers`, `POST /admin/models`, `GET /admin/providers`, `/metrics`, `/health`; `_load_persisted_data` at start |

### How they interact

A `/v1/chat` request builds a `ChatRequest` and an `OrchestrationConfig` and
calls `OrchestrationEngine.execute`, which calls
`RoutingEngine.execute_with_routing` once (simple mode) or 2 + n times
(adversarial mode: plan, critique, n refinement passes), strictly in
sequence. Each routing call reads the catalog (`ModelRegistry.list_models`),
picks a model, looks up its provider in the directory
(`ProviderRegistry.get_provider`) and invokes `chat_completion`; on a raise
it may escalate once. The admin handlers change the catalog and the directory
(and through `add_provider` the vault) and persist them; startup reloads the
vault and the models. Flask serves requests on several threads, so admin
handlers and chat requests share the registries without any lock.

### What is hard

* Failure: any provider call may raise; the one-hop escalation and the
  abort-on-error of orchestration are the only recovery.
* Boundaries: Python truthiness on optional numbers (`0.0` ceiling), loop
  bounds.
* Reassigned locals: `plan_response` is both the draft threaded through the
  loop and the value reported as the plan.
* Concurrency: admin writes racing chat requests over the shared catalog
  and directory; the vault exported while it is written.
* Restart: what is persisted (vault, models) and what is not (providers).

### Properties that make each component correct

* Routing: the selected model satisfies the context floor and the cost
  ceiling and is the best by weight or cost; escalation happens at most once,
  only when allowed, to a strictly higher-tier model within cost. A pinned
  `request.model` is kept on purpose (design section 4.1) and is not
  treated as a fault.
* Orchestration: the result has the documented shape (iterations,
  refinement count, final response, plan and critique present); each pass
  refines the newest draft with the one critique; an error in any step ends
  the call with nothing returned.
* Registries, vault, persistence: a model or provider key answered 200 is
  persisted and back after a restart; a provider added can still be reached
  after a restart; a failed admin call leaves no half-applied state;
  concurrent updates of one model are not lost.

The hazards, each at the line where it bites, are listed in `PROJECT.json`.

## 2. Plan

1. `Routing` (done): one routing call, catalog and directory as variables.
2. `Orchestration` (done): composes `Routing` through `INSTANCE`; one
   execute call, each step a routing call.
3. `Service` (done): the admin handlers on concurrent threads, the vault,
   SQLite saves that may fail, and restarts.
4. `RoutingCall` and the refinement (done): the abstract contract of one
   routing call, which `Routing` is checked to implement through
   `INSTANCE ... WITH`.
5. `Server` (done): `Service`'s admin handlers interleaved with the steps
   of a chat request's routing call.
6. `create_adversarial_summary` and the `/v1/chat` reply body (done):
   operators of `Orchestration`.
7. The vault's encryption (done): `VaultCodec`, used by `Service` for
   `store`, `retrieve` and the import on restart.
8. The rest of the chat handler and process restarts in `Server` (done):
   `log_metric`, the reply, a restart killing the request in flight; the
   registry queries as operators of `Routing` (done).
9. Next: a chat request in adversarial mode inside `Server` (admin steps
   between orchestration steps, which needs a smaller `Orchestration`
   instance to stay within TLC's reach); `add_provider`'s key lookup from the vault and the
   environment (unreachable from the API, which always passes a key).

## 3. Modules and runs

### Routing (`Routing.tla`, `MCRouting.tla`)

State: `catalog` (the registry's models in insertion order), `directory`
(registered provider names), and the call in flight: `rphase`, `rreq`
(the request as handed to the provider, with `model` set as the code sets
it), `rpol`, `selected` (what `select_model` returned), `target` (the model
whose provider is invoked), `attempt`, `outcome`, `rresp`.

Actions: `ExecuteWithRouting` (selection, pinning, provider lookup, the
first `chat_completion`), `ChatCompletionSucceeds`, `ChatCompletionFails`
(re-raise, or `EscalateRequest`: candidates, exhaustion, provider lookup,
second call). Sorting is modelled by what a stable sort's first element is:
the first model, in catalog order, of extreme key. The registry queries
`get_models_by_context_size` and `get_models_by_max_cost`, which no
handler calls, are operators over `catalog` built on `SortByWeight`, a
stable descending sort written recursively (heaviest group first, each
group in catalog order).

Bounds (`MCRouting.tla`): three models, m1 and m2 shaped after the
registry's defaults (cost 0.002/0.03, context 4096/8192, weight 50/100) and
m3 on a second provider (cost 0.005, context 2048, weight 100), so weights
tie, the heavier m3 is the smaller one and the heaviest is the costliest;
every ordering of every non-empty subset as catalog (15); three directories;
requests of 5, 4096 and 6000 estimated tokens, with or without max_tokens,
unpinned or pinned to m1 or m3; 16 policies. Each behaviour is one call;
`RoutingEngine` is stateless so later calls repeat the same behaviours, and
the run sets `CHECK_DEADLOCK FALSE` because a behaviour ends when its call
has returned.

Runs:
* `routing` (pass): `SelectionCorrect`, `EscalationCorrect`, `TypeOK`,
  `ImplementsRoutingCall`, and
  `RegistryQueriesCorrect` (both queries, for every threshold at or around
  the models' values, against a reference: each passing model once,
  heaviest first, equal weights in registration order; the catalogs in
  which m2 and m3 tie at weight 100 are what make the tie order matter).

The refinement: `RoutingCall.tla` is the contract of one call with no
models in it: `cphase`, `invocations`, `retryAllowed`, `result`, and the
actions `Begin` (fail at once or invoke a first provider), `Answer`,
`GiveUp`, `Retry` (only once, only when allowed), with weak fairness on
responding. `Routing` maps onto it through `RC == INSTANCE RoutingCall
WITH ...`: `cphase` is `rphase`; `invocations` is 0 before a provider was
reached and `attempt` after; `retryAllowed` is the policy's
`allow_escalation`; `result` is `"ok"` or `"error"` once returned.
`ImplementsRoutingCall == RC!Spec` is checked as a `PROPERTY`, liveness
included.
* `routing_zero_ceiling` (violation of `CostCeilingHonoured`): a 0.0
  ceiling is ignored (`routing.py:78`, `:190`) and m1 is called.
* `routing_escalation_context` (violation of `InvokedModelFitsContext`):
  a 4096-token request on m1 fails and is escalated to m3 (context 2048).

### Orchestration (`Orchestration.tla`, `MCOrchestration.tla`)

`R == INSTANCE Routing` shares the routing variables. State: `ophase` (the
step whose routing call is in flight), the caller's `request`, `config`,
`policy`, the locals `planResp`, `critiqueResp`, `refinements`, `iter`, the
`result`, and a history variable `initialPlan`. Each step action consumes
the routing result and starts the next routing call in one step, as the
synchronous code does: `Execute`, `SimpleDone`, `PlanDone`, `CritiqueDone`,
`RefinementDone`, `StepFailed` (any routing error aborts), `RoutingStep`.
Message contents are abstracted to tags (`<<"response", id>>`) and lengths,
so the estimated context of derived requests grows as in the code (the
instruction texts are 118 and 63 characters).

Bounds: the full catalog and one without the big model; default policy and
a cheap-first, no-escalation policy; a short and a 4096-token question;
replies of 40 or 20000 characters; both modes, planner pinned or not,
critic pinned or not, refinement on or off, 0..2 passes (two passes are
needed to tell the newest draft from the original plan).

Runs:
* `orchestration` (pass): `TypeOK`, `ResultShape`,
  `RefinementBuildsOnLatestDraft` (the request of each pass carries the
  previous pass's response, read from `plan_response` as the loop
  reassigns it at `orchestration.py:178` and reads it at `:159`).
* `orchestration_initial_plan` (violation of `SummaryReportsInitialPlan`):
  after one refinement, the `initial_plan` of the reply body is the
  refinement.

The reply body is modelled by two operators. `AdversarialSummary` is
`create_adversarial_summary`: a key is present only when the result has
that field. `ChatResponseBody` is the handler's `response_data`. Contents
are abstracted to response identities.

### Service (`Service.tla`, `MCService.tla`)

State: `catalog` (`ModelRegistry._models` in insertion order), `directory`
(`ProviderRegistry._providers`), `vault` (provider names whose key is in
`SecureVault._data`: provider name -> ciphertext), `vsalt` and `vkey`
(`SecureVault.salt` and `.key`), `dbModels` (rows of the `models` table in
rowid order), `dbVault` (the saved vault row, salt and data, or `NoRow`),
per admin thread `pc`,
`pending` and `snap` (the copy `export_models` returned), `restarts`, and the
history variables `ackedModels`, `ackedProviders` (what was answered 200),
`everRegistered` and `keysSent` (the api_keys sent for each provider).

Actions: `AddModelRegister` (`register_model` and `export_models`),
`AddModelSave` (`save_models` of that copy: commit and 200, or raise and
500), `AddProvider` (`add_provider`: key encrypted and stored, a key
`_encrypt` cannot encrypt raising first with nothing changed; type looked
up, an unknown type raises before registration and before `_save_vault`;
then the live vault saved (`VaultRow`) or the save raises), `Restart` (a
fresh process: default models plus `import_models` of the rows; a new vault
with a fresh salt, replaced by `import_encrypted` of the saved row, which
derives the key again from the saved salt; no provider). `SaveModels`
models `INSERT OR REPLACE`: a replaced row moves to the end of rowid order,
rows are never deleted. `InitDatabase` is `_init_database` on a new file
(empty tables); `LoadModels` reads the rows in rowid order, the order a
table scan of `models` gives.

`VaultCodec` models `_encrypt` and `_decrypt` by what they do to the text:
a character is its code point and its UTF-8 width; `_encrypt` pads to a
multiple of 16 counted in characters, encodes, and CBC `finalize` raises
unless the bytes make whole blocks (`Encryptable`); `_decrypt` strips as
many bytes as the last byte says and decodes. PBKDF2 is a one-to-one
function of (password, salt) and a ciphertext carries the key it was made
under; decryption under another key gives a text that is not the key.

Bounds: two admin threads (symmetric), the two default models, two updates
of the first default (weights 60 and 70, so two threads can race on one
name) and one new model; providers `pa`, `pb`; types `mock` and an unknown
one; api_keys of 16 ASCII characters (two whole blocks after padding) and
of 5 characters with one two-byte character (which `_encrypt` cannot
encrypt); saves may fail; one restart (a second restart reloads the same
database). 77,725 distinct states, under a minute.

Runs:
* `service` (pass): `TypeOK`, `AckedModelsSurviveRestart`,
  `AckedKeysPersisted`, `KeysReadable` (every key in the vault decrypts,
  under the vault's current key, to a key sent for that provider; after a
  restart this needs `import_encrypted` to derive the key from the saved
  salt, `vault.py:116`).
* `service_providers_restart` (violation of `ProvidersSurviveRestart`): a
  provider added with 200 is gone after a restart (`api.py:56`).
* `service_lost_update` (violation of `RestartRestoresCatalog`, saves never
  fail): two threads update m1; the one whose copy is older saves last, and
  the restart brings back the older weight (`api.py:75`).
* `service_unknown_type` (violation of `VaultKeysBelongToProviders`): an
  unknown `provider_type` leaves its key in the vault, and the next
  successful provider save persists it (`registry.py:70`).

### Server (`Server.tla`, `MCServer.tla`)

`R == INSTANCE Routing` and `S == INSTANCE Service` share `catalog` and
`directory`. `ChatStep` is the `/v1/chat` thread, one simple-mode request
per process (id = the process's number), which is one routing call:
`ExecuteWithRouting` or `ProviderReturns`. The rest of the handler is
`LogMetric` (`log_metric`'s INSERT commits, or raises and the handler
answers 500) and `Reply` (200 after the log, 500 when execute raised).
`AdminStep` is any admin handler step of `Service`. `Crash` is a new run
of `main`: `Service`'s `Restart`, the chat request in flight gone without
an answer, the `metrics` table kept. Extra state: `logged`, `replies`
(request id -> status) and `metrics` (the table's rows). The chat call
runs under `DefaultPolicy`, `RoutingPolicy()`: `/v1/chat` passes no
policy (`api.py:114`), so the engine's default applies (`routing.py:41`).
No fairness: the properties are safety properties.

Bounds (`MCServer.cfg`): the two defaults on `pa`; one admin thread that
may add `pa` or upgrade m1 in place to weight 120 and context 16384 (above
m2 in both); saves and `log_metric` may fail; one restart, so a second
chat request; one small request. The violation run below has `pb`, an
unknown type, an in-place upgrade of m2 (weight 130, context 16384) and
m3 on `pb` (weight 110, context 2048), and needs no restart.

Runs:
* `server` (pass): `TypeOK` (a provider is only called when registered),
  `LoggedIffAnswered` (a request answered 200 has its metrics row and one
  answered 500 has none, through log failures and restarts; a `Crash`
  that kept the cut-off call's `logged` would let the next request
  answer 200 with no row).
* `server_stale_escalation` (violation of `EscalationMonotoneNow`): pa
  is added, the default policy selects m2, the admin adds pb and m3 and
  upgrades m2, m2's provider raises, and escalation goes to m3 (above the
  stale m2's weight 100), which is below the upgraded m2 in both weight
  and context. `_escalate_request`
  compares against the stale record (`api.py:215`, `routing.py:186`). The
  design assumes mutations are synchronized; the API does not do it.

### Fairness

Only `Routing` states a liveness property (`ImplementsRoutingCall`, whose
contract says a call returns). The engine runs to completion with no
suspension point; its only wait is the provider's answer, and
`chat_completion` has no timeout in the code, so weak fairness on
`ProviderReturns` is an assumption about the provider (listed as a
hazard). `Orchestration`, `Service` and `Server` check safety only and
assume no fairness: admin requests and restarts need not come.

## 4. Not modelled

* AES, PBKDF2, the random IV and base64 in the vault: abstracted in
  `VaultCodec` to a one-to-one key and ciphertexts tagged with their key.
* A non-ASCII api_key (`vault.py:54`): padding is counted in characters
  and the encoded bytes miss a whole block, so the store raises and the
  handler answers 500; the model includes such a key, which never stores,
  but no run states that every key is storable.
* Prometheus counters (`api.py:116`-`119`, `:143`): when `log_metric` fails
  after a completed chat, `REQUEST_COUNT` counts the request both as a
  success and as an error; the counters are not modelled, only the
  metrics table is.
* `get_metrics`: called by no handler; it only reads.
* A change of `TOKENHUB_ADMIN_PASSWORD` between runs (`main.py:12`): the
  model keeps one password, so `KeysReadable` is not exercised against it;
  the hazard is listed.
* The vault export racing a store (`vault.py:105`): `json.dumps` runs in
  the C encoder while holding the GIL, so another thread's `store` cannot
  run in the middle of it; one save is one step.
* Catalog order after a restart (`persistence.py:126`): REPLACE moves an
  updated model to the end of rowid order. Tie order therefore changes
  across a restart, but the design leaves tie order unspecified, so no
  property is stated.
* `remove_model`, `remove_provider`, `register_provider_class`: no handler
  calls them.
* Authentication (401) and missing fields (400): they return before any
  state changes.
* JSON layout and authentication checks: formatting that no property is
  about.
* `temperature` and `tokens_used`: passed through, never branched on.
* The unknown-mode branch of `execute`: unreachable, since the API's
  `OrchestrationMode(value)` raises first.
