# API Chaos Agent: TLA+ models and proofs

API Chaos Agent parses API descriptions, derives chaos scenarios from them,
runs the scenarios against a target over HTTP, and reports what broke. The
backend is a FastAPI application on one asyncio event loop
(`src/backend/src/api_chaos_agent`); a React frontend calls it. This directory
holds TLA+ modules of the parts where concurrency, failure and order matter,
TLC configurations that check them, and TLAPS proofs for any size.

Paths below are relative to `src/backend/src/api_chaos_agent` unless they
start with `src/`.

## 1. Inventory

| Component | State | Operations | Hard part | What makes it correct |
|---|---|---|---|---|
| Execution engine (`services/execution_engine.py`) | semaphore, shared `AsyncClient`, per-scenario verdicts, counters | `execute` serial or parallel, `_send_with_retry`, `_burst_requests`, `close` | every request, retry, burst batch and close interleaves at each await; the client is shared and closed by whoever ends | permits are conserved, verdicts say what happened, no scenario harms another, `execute` returns |
| Distributed engine (`services/distributed_engine.py`) | worker registry, statuses, heartbeats, counters, plans | register, deregister, heartbeat, list, plan by three strategies, execute | overlapping executions, silent and returning workers, tasks that end after their worker changed | no task twice on a worker, no scenario dealt twice or lost, no worker stuck RUNNING |
| Store (`services/store.py`, `services/sqlite_store.py`) | four collections, insertion order, timestamps; SQLite tables | save, get, list, clear | expiry, eviction and re-save in long sequences; shutdown and crash | within the limit, what is past its TTL is swept at every save and get, nothing lost early, rows persist |
| Execution service, routers (`services/execution_service.py`, `routers/`) | none of their own | generate, execute, report | load, await, save across requests | a result is about the ids that were asked for |
| LLM router (`services/llm_router.py`) | circuit breaker, response cache, HTTP client | `route`, `batch_route` with cloud, local and rule fallback | breaker read before and written after an await; cached fallbacks | open means no call, no stale answers |
| Rate limiter (`core/rate_limit.py`) | token bucket per client, last cleanup | dispatch | cleanup between look-up and use, more clients than buckets | no more than a bucket refilled at the rate lets through, and a bucket for each one dropped by number |
| Plugins (`services/plugin_framework.py`, `plugin_registry.py`) | records, instances, status, event log | load, enable, disable, execute | state changes during an awaited plugin | a disabled plugin does not run or come back |
| Tenants (`services/tenant_service.py`), plans (`core/feature_gates.py`) | tenants, members, invites, two tables of quotas | create, upgrade, suspend, invite, accept | quota checks against plan changes, half-done accepts | quotas hold, an invite is used once |
| License (`core/license.py`) | file, cached verdict, environment | read, install, remove, trial | cache against file, torn and unreadable files, two clocks | no paid feature without a valid license |
| Config reloader (`core/config_reloader.py`) | watcher thread, file hash, callbacks | start, stop, check and reload | thread against writer, failed parse, a second watcher | the settings are those of the file last read, and the callbacks know them |
| CI/CD (`services/cicd_service.py`) | pipelines, runs | create, trigger, complete | out-of-order completions | the last run's status is the newest run's |
| WebSocket hub, lifespan (`main.py`) | connection list, lock | connect, disconnect, broadcast, shutdown | - (nothing broadcasts) | - |
| Schema parsers (`services/schema_parser.py`, `services/grpc_graphql_parser.py`), Postman adapter (`services/postman_adapter.py`) | none | parse, import, export | documents that do not resolve, formats that hold less than others | what is parsed has the models' shape, an export and import keeps the endpoints |
| Scenario generator (`services/scenario_generator.py`) | none | generate per endpoint | a model's reply that is half good | every endpoint gets every kind of scenario |
| Reports, exports, analytics (`services/report_generator.py`, `report_exporter.py`, `analytics_service.py`) | reports per tenant | generate, export, compare, summarise | duplicates, empty runs, keys built by another component | counts add up and are kept through comparison and export |
| Audit log (`core/audit.py`) | bounded list | log, query | nothing records into it | - |
| Security, errors, logging, versioning, key store, sanitizer | none | request filters, wrappers | - | - |
| Frontend API client (`src/frontend/src/services/api.ts`) | abort controllers by id | request with retries, cancel | a retry of what was done, reused ids | cancel reaches the current request |

Interactions. Routers call the services through the dependencies of
`core/deps.py`. A request handler loads documents from the store, awaits the
execution engine (or the LLM router), and saves the result. The distributed
engine builds one `ExecutionEngine` per worker task. The rate limiter and the
security middleware stand before all of it. The lifespan handler of `main.py`
clears the store at shutdown. PROJECT.json lists the components with their
status, and under "hazards" the places where each can go wrong.

## 2. Modules

A step of a model is what the event loop runs between two suspension points.
Operators named after a bug ("Fault variant" in their comment) are not used by
any specification: they are plausible wrong versions of the definition below
them, kept to show that the properties tell them apart.

### ExecutionEngine, ExecutionContract

`ExecutionEngine` models one `execute()` call. `workload` is its input: mode,
target health, and per scenario its type and the entries of its config.
`phase` and `pc` say where `execute` and each `_execute_single` are. `req`,
`attempts`, `code` and `conn` follow `_send_with_retry` for each request a
scenario may send (`Slots`); `permits` is the semaphore. `created`, `open` and
`current` model the clients: `self._client` may name a client that is closed,
and `close()` forgets whatever it names after its await. Actions: `Start`,
`StartUnknown`, `StartZeroRate`, `StartNextBatch`, `FinishBurst`,
`FinishClose` (`_execute_single` and `_burst_requests`); `BeginAttempt`,
`Respond`, `TimeOut`, `FailAndRetry`, `FailForGood`, `BackoffElapsed`
(`_send_with_retry`, `_do_request`); `Aggregate`, `Return` (`execute`).

`ExecutionContract` is what a caller relies on: every scenario settles once,
nothing changes after the return, and the two counters split the scenarios.
`ExecutionEngine` refines it by `Contract == INSTANCE ExecutionContract`.

Abstracted: URLs, bodies and tampering of a request (a request is its index),
response payloads other than the status code, elapsed times. A sleep that
holds nothing is folded into the step after it.

### DistributedEngine

`status`, `region`, `fresh`, `task`, `completed` and `failed` are the
registry's entry for each worker (`fresh`: the last heartbeat is within the
timeout; `Lapse` makes it old). The k-th worker to register is worker k, so the
registry's dict order is the order of the numbers; an id is never used again,
as the code's uuids are not. `call`, `scenarios`, `plan` and `run` follow each
`execute_distributed()`: `Execute` is the code up to `gather()`, `EndTask` a
worker task's end, `Return` the gather's. `Plan`, `Share`, `Dealt`,
`RegionDealt` and `Rank` compute what the three strategies give each worker.
`lapses` is a history variable: how often each worker was marked OFFLINE in the
middle of a task. A task's execution is one interval, since `ExecutionEngine`
covers it. `execute_distributed()` has no caller that cancels it, so there is
no cancellation.

### Store, StoreContract

`Store` models one collection. `doc`, `stamped`, `age` and `older` are the
`_ExpiryOrderedDict`: values, keys of `_timestamps`, time since the timestamp
and insertion order (a relation: `<<i, j>>` when i is before j). With
`backend = "sqlite"` only `doc` is used, the committed rows. `MemorySave` is
`__setitem__` (expire, assign, stamp, evict), `Get` evicts everything expired,
`Shutdown` is the lifespan's `clear()`, `Crash` loses the memory only.
`List(offset, limit)` copies a page and evicts nothing: what is past its TTL
is in it until the next save or get. `Place` is a document's position in the
dict and `Pages` the pages a client may ask for. `call` is what the last step
was asked and answered; `sinceSave` is a history variable. No store method
suspends while another runs (the lock is never contended), so each is one
step.

`StoreContract` is the interface the backends share: a get answers the last
document saved under the id, or nothing, and a list documents that are there.
The code's docs call the memory store's eviction LRU. The code evicts the
front of the dict, and neither a get nor a save under a known id moves a key:
`NothingLostEarly` states that first-insertion order, and the run
`store_eviction` shows that it is not LRU.

Not in the model: `stats` and iteration (they change nothing), and how ids are
made, which `TestPipeline` has (`SchemaSaved`).

### LLMRouter

One instance of the router, as `route()` and `batch_route()` use it. A call in
progress has a slot: `stage` says at which await it is, `ask` and `answer` what
came in and what goes out. `threads` are the requests that hold a thread of
the executor; `wait_for` gives up on a request and its thread stays held
(`CloudTimesOut`, then `ThreadEnds`). `breaker`, `failures`, `sinceFailure` are
the `CircuitBreaker`; reading its state is what half-opens it, so
`BreakerState` is an operator and `AskCloud` writes what it read. `cache` and
`cacheAge` are the disk cache; `computedAge` is a history variable: the time
since an answer to each ask was last computed. `Step` collects what the event
loop does of itself, the only part with fairness. A prompt is the set of the
keywords and type names it contains; the text of a model is one value.

`routers/scenarios.py:29` builds a new router for each generate request, so in
the application failures are counted within one request only. The module
models the class, as its tests and its interface use it.

### SchemaParser, PostmanAdapter, ScenarioGenerator, ReportService, TestPipeline

The first four are operators: an OpenAPI, proto or GraphQL document to
endpoints; endpoints to a Postman collection and back; an endpoint and a
model's reply to scenarios; results to a report, its comparison, summary and
export. `TestPipeline` composes them with the store: `schemas`, `scenarios`,
`executions`, `reports` are the four collections (a full one drops its oldest,
`Expire` drops what is too old), `request` follows the handlers with an await
(`StartGenerate`, `GenerateEndpoint` per model call, `EndGenerate`;
`StartExecution`, `EndExecution`). Upload, report and analytics handlers are
one step. What a target answers is chosen per scenario type; how an execution
comes about is `ExecutionEngine`'s. `batches` is a history variable: what each
generate request returned. A client may ask to run any list of ids; which ones
are tried is the parameter `IdLists`. `SchemaSaved` differs by backend
(`Persistent`): the memory store derives a schema's id from title and version,
so that another upload of the same replaces it, SQLite always makes a new one.

A path is the list of what stands between its slashes: "/users/" is
`<<"", "users", "">>`. The exporter keeps its non-empty segments (`Segments`)
and the importer joins them (`PathOf`), so superfluous slashes are lost;
`Tidy` paths have none. A request body has the entries given, isRef, required
and content: one that is a reference, or has no content, is parsed as an empty
JSON body (`BareBody`), one that is not given as none (`NoBody`).

Documents are records that hold what the parsers look at, not text.
Abstracted: the values a scenario sends, remediation texts, HTML and
Markdown layout, dates as days.

`Selection` has the operations on lists these modules use where the code has a
comprehension with a condition or a `sum()`: `Pick`, `Filter`, `Count`,
`SumOf`, and `IsList`. `Filter` is `SelectSeq` written with a function that the
provers can unfold. `IsDocument` and `IsProtocolFile` say what is true of every
document that was read from JSON, YAML or a proto file: what is a list there is
a list, and a document the resolver accepts has no dangling reference.

### FeatureGates, TenantService, LicenseManager, Entitlements

`FeatureGates` holds the tables as they are in `core/feature_gates.py` and
`models/tenant.py`; only `max_team_members` is a constant (`TeamSize`), so that
small teams can be checked and all sizes proved. The code writes the quotas of
the plans down twice, so the model does: `PlanQuotas` in `FeatureGates`,
`TenantQuotas` in `TenantService`, which has one action per request that
changes something; its methods wait for nothing. `ceiling` is a history
variable: what a team may grow to, which is what the plan allows or, after a
downgrade, what is left of the team; `spent` the invitations that brought
somebody in.

`LicenseManager` has the files of the places that are searched in order, the
remembered license `info` and the time since it was checked. There are two
clocks: `now` is `datetime.now()`, which decides on expiry and may be set to
any time (`SetClock`), `sinceCheck` is measured on `time.monotonic()`; `Tick`
moves both. A file holds a key, nothing, a text cut short (`Torn`: an
`InstallLicense` whose write fails may leave one) or something that cannot be
read at all (`Unreadable`: the request fails). `fit` is a history variable:
for each key, the time since it was last installed or read and had not
expired. `InForce` is what `get_license_info` would answer now. `Entitlements`
has the properties of the three.

### PluginManager, CiCdService, RateLimiter, ConfigReloader, ApiClient, Operations

- `PluginManager`: `records[n]` are the `FaultPlugin` objects a name has had,
  since a call of `execute` holds on to the one it found; `instances[n]` says
  with which record the instance in `_instances` came. `StartExecute` ends at
  the await, `ExecuteSucceeds` and `ExecuteFails` write to the record the call
  began with. `started` and `failed` of a record are history.
- `CiCdService`: pipelines and the statuses of their runs, one action per
  request. `RunStatuses` leaves out "pending", which the code never assigns.
  `overtaken` is history: the pipelines of which an older run ended last.
- `RateLimiter`: token buckets in parts of a token, one part a tick.
  `Dispatch` looks the bucket up, runs the cleanup, then charges the bucket it
  looked up, in or out of the table. `fair` and `forgiven` are history: the
  bucket of the client if no cleanup had ever dropped it, and a whole bucket
  for each time it was dropped for the number of buckets.
- `ConfigReloader`: the file changes at any moment (`WriteFile`); a watcher
  hashes (`ComputeHash`), compares and stores the hash (`CheckAndReload`),
  takes the settings (`TakeSettings`), reads the file again and merges it into
  those it took (`LoadConfig`), swaps (`Swap`) and calls back
  (`Notify`). `Start`, `Stop`, `StopReturns` let two watchers live at a time.
- `ApiClient`: the calls of `request()` in `src/frontend/src/services/api.ts`
  between their awaits, and the table of abort controllers. `began` and
  `stray` are history variables.

### Compositions without shared state

`Operations` composes `Entitlements` and these five, seven parts that share no
variable. Checking all interleavings of independent parts would multiply their
states and show nothing more, so a variable `focus`, chosen at the start, says
which part moves. This is no restriction for state predicates of one part, and
every property checked there is one. The proofs (section 4) use invariants that
do not mention `focus` to guard anything.

`MCTestPipeline` has a `focus` as well, between two kinds of behaviour of the
one pipeline: `RequestsNext` takes many documents, replies and targets and two
requests at a time, with few saves; `AnalyticsNext` one document and one
request at a time, with more saves and days.

### Proof modules and MC modules

`ExecutionEngineProofs`, `DistributedEngineProofs`, `StoreProofs`,
`LLMRouterProofs`, `PipelineProofs`, `EntitlementsProofs`, `OperationsProofs`
hold the theorems; `CommonLemmas` the facts that several need: about counting
and first elements, induction, and what selecting from, flattening and summing
a list gives. `MC*` modules give values to constants; `MCTestPipeline` also has
the two kinds of behaviour.

## 3. Runs

| Run | Instance | Shows |
|---|---|---|
| `engine` | 2 scenarios, concurrency 2 (a burst beside another scenario waits for a permit), one retry, bursts of up to 3; every pair of kinds worth pairing, both modes, healthy and failing target | all invariants, `ImplementsContract`, `Termination` |
| `engine_parallel_healthy` | 3 scenarios, concurrency 3, parallel mode, healthy target | **violated**: a scenario that ends closes the client of the others |
| `distributed` | 2 workers, 2 regions, 2 overlapping calls, of 3 scenarios or of 1 | registry, planning and drop properties, `Returns` |
| `distributed_failover` | 2 workers, 2 calls | **violated**: a dropped task's scenarios are never reassigned |
| `store` | 4 ids, 2 documents, limit 3, TTL of one tick, both backends; ids and documents are symmetric | bounds, sweeping, loss, `ImplementsContract` |
| `store_persistence` | 2 ids | **violated**: an orderly shutdown deletes SQLite's rows |
| `store_eviction` | 3 ids, limit 2 | **violated**: the document just read or saved again is evicted |
| `llm_router` | 2 calls, 1 prompt at each complexity, no key or both, 1 thread, threshold 3, reset time 2, TTL 1 | breaker, cache, fallback, and that every call is answered |
| `pipeline` | 2 uploads of 3 documents, 4 further requests in 2 slots, collections of 24, 2 replies, 2 targets, 2 days; and 1 document, 6 further requests one at a time, 2 targets, 3 days | coverage, executions, reports, comparisons, analytics, export |
| `report_comparison` | 1 upload, 5 further requests | **violated**: findings of two endpoints are taken for one |
| `operations` | 1 tenant, 4 ids, teams of 1, 2 and 3; 3 keys, 2 places others write to, check interval 2, time up to 3, 4 deployments; 2 plugins, 3 records, 2 calls; 2 pipelines with 3 runs; 2 clients, 1 bucket, 3 requests a minute; 2 watchers, 3 changes of the file; 3 calls, 1 id, 1 retry | the seven parts, one by one |
| `cicd_last_run` | as `operations` | **violated**: an older run that ends late hides the newest one |

What the properties say and why they are not shallow:

- `PermitsConserved`, `BurstPaced`: permits plus requests in flight is the
  limit on every path (answer, timeout, retry, last failure), and a burst's
  batches never overlap.
- `VerdictJustified`: COMPLETED, TIMEOUT and FAILED each follow from what the
  request went through, including exactly `1 + max_retries` attempts.
- `OneOpenClient`, `HealthyCompletes`: in a serial run or a run of bursts
  nobody's client is closed under it, none is lost, and the
  engine adds no failure of its own. In the other parallel calls this is false;
  `engine_parallel_healthy` shows how. What still holds there is
  `LossesBounded`: whatever the scenarios do to each other's client, the clients
  nobody will close are no more than the scenarios that closed one, and any
  other is closed when `execute` returns.
- `RunningIsBusy`, `OneTaskAtATime`, `DroppedOnlyWhenBusy`, `TasksCounted`:
  the status of a worker and the tasks really on it agree over overlapping
  calls. A worker that was marked OFFLINE in a task is IDLE at its next
  heartbeat and gets a second task beside the first: `OneTaskAtATime` allows
  one more for each time that happened (`lapses`), and none besides.
- `PlanPartitions`: each strategy gives each scenario to exactly one worker.
- `SweptOnUse`: after a save or a get nothing in the memory store is past its
  TTL, and what a get answers is what is held. A list sweeps nothing, so it
  can show documents past their TTL, those that expired since.
- `NothingLostEarly`: what is lost before its time is lost to a new id in a
  full dict and is the id that entered first, however often it was read or
  saved since. `JustUsedStays` is what an LRU eviction would do, and is
  violated. `StampsMatch` and `Bounded` keep the two structures together.
- `OpenRefuses` is about the failures that came in, not about the breaker's
  field: late successes and failures of calls in flight close, open and
  half-open it in between, and no new call may pass before its time.
- `AnswersFit` ties an answer to the moment it was computed: a fallback cached
  under the model's key is not served longer than the TTL, whoever wrote it
  last. `EveryRouteAnswers` holds although all threads may be lost for ever.
- `EveryEndpointCovered`, `ExecutionsAnswer`: a model's bad reply costs no
  endpoint its scenarios; an execution answers exactly the ids it was asked
  for, duplicates included, whatever the store forgot during the await.
- `ReportsAccount`, `AnalyticsBalance`: a report's totals, rates, findings and
  rows of the export add up; every finding of the later of two reports is new
  or a change of severity (rise, fall or none), told by two different
  functions of the code; a summary's severities and the trends of each period,
  over reports of several days, add up to its vulnerabilities.
- `SpecsSurvive` sends a spec through Postman and back, and through a parse
  without the resolver. The segments of every path survive, and the path itself
  where it has no superfluous slash.
- `TeamsSound`: over downgrades, invitations of an old plan and half-done
  accepts. `ceiling` follows the team down: after a downgrade a team may
  shrink and not grow back, whatever invitations it had out. `PlansAgree`
  compares three tables, two of them of quotas, and two functions named
  check_quota, after any change of plan.
- `LicenseTrusted` bounds how long a license outlives its expiry or its file,
  in time on the monotonic clock, while the wall clock is set forward and
  back, files are cut short and others cannot be read.
- `RateBounded`: a bucket that the cleanup drops as stale in the middle of its
  own request costs one request, once, however often it happens; one that is
  dropped by number costs a whole bucket each time, which `forgiven` counts.
- `RunsSettle` says what is true of the status a pipeline shows, late
  completions of older runs included: then, and only then, it may be another
  run's. That it should be the last run's is `LastRunShown`, violated.
- `PluginsAgree`, `ConfigFollows`, `LatestWins`: each relates what a part shows
  to what really happened (kept in history), over late answers, torn reads and
  reused ids. `ConfigFollows` speaks of one watcher, `LatestWins` of what
  cancelling must not reach; section 5 says what the code does beyond.

Bounds. Two scenarios, calls or workers are enough for every conflict the code
can have between two parties; a third adds none, since conflicts are over one
client, one permit or one worker. Three slots give a burst a full and a short
batch. Four ids over a limit of three let a full dict meet a known, an expired
and a new id. `TTL = 1` makes 0, at the limit and past it distinct. A threshold
of 3 for two calls needs a call that comes back while another is under way. A
batch of the pipeline has 10 to 30 scenarios and a collection 24: it holds one
batch, less than one, or parts of two. Four saves are two generate requests
that overlap two executions, or one of each and two reports. Six are enough for
a batch executed twice and both results reported on, and for two reports of
different days in the analytics (generate, execute, report, report, store,
store); three days are three daily, two weekly and one monthly entry of a
calendar with two days a week and four a month (`DaysOf`). Four ids let a team
fill up, shrink by a downgrade and meet an invitation of before. A time of 3
with an interval of 2 lets the trial key, which expires at 1, outlive its
expiry by the interval; that clock is set back as well, so time on the
monotonic clock has no bound. Three records for two plugins replace one in the
middle of a call. Three writes give the watcher a good file, a torn one and
another good one, or the same again. `MaxBuckets = 1` with two clients makes
the cleanup drop by number too, once for each client (`MaxForgiven` is one
bucket). `MaxIds`, `MaxTime`, `MaxRecords`, `MaxRuns`, `MaxWrites`,
`MaxUploads`, `MaxSaves`, `FewSaves`, `MaxDay`, `FewDays`, `MaxForgiven`,
`MaxStarts`, `MaxWorkers` are bounds of the models, not of the code; all are
guards. For the safety properties that are proved (section 4) the sizes do not
matter.

Fairness. `ExecutionEngine` assumes weak fairness of each scenario and request:
the loop runs every ready coroutine, sleeps end, and httpx's timeout ends every
attempt. There is no fairness of any particular outcome. `DistributedEngine`
assumes that tasks end (`Termination` of `ExecutionEngine`) and that the loop
resumes a finished gather. Nobody must register, beat or call. `LLMRouter`
assumes weak fairness of `Step` for each call: the loop runs its tasks, and
httpx and `wait_for` have timeouts; nothing is assumed of an SDK thread. The
other modules have no liveness property and state no fairness.
`CHECK_DEADLOCK FALSE` stands where the system may be at rest or the model's
bounds are used up: `distributed`, `pipeline`, `operations`, and the violated
runs of the same modules.

## 4. Proofs

All theorems hold for every value of the constants that satisfies the named
assumptions (`EngineConstants`, `DistributedConstants`, `StoreConstants`,
`RouterConstants`, `PipelineConstants`, `TeamSizes`, `TenantConstants`,
`LicenseConstants`, `PluginConstants`, `CiCdConstants`, `RateConstants`,
`ConfigConstants`, `ClientConstants`: field constraints of the configuration
models, and that the given sets are of the stated kind). TLC evaluates them in
the passing runs.

- `ExecutionEngineProofs`. `CoreInv` is inductive: types, `RequestInv` (a
  scenario's launched requests are a prefix; requests are under way only while
  it is sending; attempts begun match the state), `VerdictInv` (a verdict is
  pending exactly until the scenario leaves "sending"; once `execute` has
  aggregated, all are done and the counters are the sizes of the two sets) and
  `PermitsConserved`. `TypeOK` alone is not inductive: that a retry stays
  within `1 + max_retries` needs `RequestInv`. `TypeCorrect`,
  `PermitConservation`, `Refinement` and `VerdictsJustified` follow from it;
  `BurstsArePaced` as well, since a batch is launched only when nothing of the
  burst is under way and then has at most `BatchSize` requests. `ClientInv`
  adds what is true of the client when scenarios cannot harm each other: at
  most one is past "pending" and not done in a serial run, and a close is under
  way only when nothing is in flight. It gives `ClientSafety` and
  `HealthyCompletion`. `FewLost` has an invariant of its own, for every call:
  the open clients nobody will close are injected into the scenarios whose
  close() is over.
- `DistributedEngineProofs`. `FleetInv` is inductive: types, worker ids not
  handed out yet occur nowhere, calls not started have no task,
  `RunningIsBusy`, `OneTaskAtATime`, and that the tasks on a worker are a
  finite set (`TasksFinite`), so that adding or ending one counts by one
  (`FewTasks`). For planning, `Numbering` (counting predecessors in a finite
  strict order numbers it 0, 1, ... without gaps) is applied to workers by load
  and to regions by their first worker, which makes `idx % len` pick exactly
  one (`SharedOnce`); theorem `Partition` follows. `CountersInv` (a worker not
  in the fleet has zero counters, and one in the fleet those of the tasks ended
  on it) gives `EndedTasksCounted`; that a new worker starts with none rests on
  `FleetInv`.
- `StoreProofs`. `StoreInv` is inductive: types, `StampsMatch`, the dict's
  order is a strict total order of its keys, `Bounded`, the timestamps are
  those of the last saves, `SweptOnUse`. `FirstFew` (no more than n elements
  have fewer than n after them) bounds what eviction leaves; `EvictedIsOldest`
  gives `LostInOrder`; `Refinement` maps `content` to `doc`.
- `LLMRouterProofs`. `RouterInv` is inductive: types, `BreakerCounts` (the
  breaker is closed exactly below the threshold, and half open only when the
  last failure is old enough), `CacheSound` (an entry fits its key, and its age
  is the time since it was computed) and `StagesFit` (a call waits for a model
  of its complexity). `BreakerGuards` needs the second, since `OpenRefuses`
  speaks of failures and the code's guard of the breaker; `AnswersAreFit` needs
  the others.
- `PipelineProofs`. `PipelineInv` is inductive: the collections and the
  analytics hold documents of the parser, the generator, the engine and the
  report generator (`CollectionsOK`), requests in progress the lists of their
  handlers (`RequestsOK`); each scenario that is stored or was loaded was
  generated under its id, in one of the calls (`Provenance`); what a generate
  call has made so far covers the endpoints it has done so far (`Coverage`).
  `EveryEndpointCovered` alone is not inductive, since it speaks only of calls
  that have returned; `ExecutionsAnswer` needs `Provenance` of what the request
  loaded before its await, when the store may have forgotten it since.
  `PipelineTypes`, `PipelineCovers` and `PipelineAnswers` follow. The other
  three say of every stored document what the operators compute, so they rest
  on `CollectionsOK` and on lemmas about lists. `PipelineReports`: the findings
  are the vulnerable results, each once, in the order of their severities
  (`FindingsAre`), so the five counts are a partition of them (`SeveritySum`).
  `PipelineAnalytics`: the details of a comparison are the findings whose keys
  the other report has not (`KeysLeft`), the others are the changes
  (`ChangesOK`), and the two make up the report (`CompareOK`); the periods of a
  trend partition all findings (`TrendsOK`); no report has more findings than
  scenarios (`PassRateOK`). `PipelineSpecs`: a parameter, a body and a path
  come back from a Postman item as they went (`NamesReturn`, `BodyReturns`,
  `PathReturns`: a path's segments, and a tidy path itself); where no component
  and no body is a reference itself, following references to their end is
  following one (`ResolvingOK`). `PipelineConstants` asks that what is uploaded
  satisfies `IsDocument`, that a model's reply has a list of items, and that a
  collection holds at least one document.
- `EntitlementsProofs`, about the behaviours of `Operations`. `TenantInv`:
  types, the quota is that of the plan, no id is used before it is given out,
  the owner is the oldest member, a team fits `ceiling`, an accepted invitation
  is spent once and a member's invitation is accepted. `TeamsSound` alone is
  not inductive: that no two members come by one invitation needs the bound on
  ids. `LicenseInv` adds `RememberedSound`: what is remembered is signed, and
  its key was fit no longer ago than the last check. `QuotasAgree` compares the
  tables once and for all.
- `OperationsProofs`. One invariant per remaining part. `PluginInv`: a call
  under way points to a record there is and is counted in it, which is what
  keeps started = executed + failed + under way through a reload. `CiCdInv`:
  types and `RunsSettle`, inductive with `overtaken`. `RateInv` adds to the
  bound that a bucket unused for a time has been filling for that time
  (`Charged`): it is why dropping a stale bucket costs nothing, provided that a
  bucket is stale no sooner than it takes to fill and gain one more token
  (`RateConstants`; an hour against a minute); a drop by number is paid for by
  `forgiven` (`Allowed` is `fair` plus `forgiven`). `ConfigInv`
  (`WatcherAgrees`) says for each stage of the one watcher what hash, settings
  and callbacks have seen. `ClientInv`: the controller of an id is that of the
  newest call with it.

Lists. What `Pick`, `FlattenSeq`, `SumOf` and `Resolving` compute for lists of
any length is proved by induction over a set of numbers (`Induction`,
`BoundedInduction`, from the least element that `LeastExists` gives) and by
showing that the recursive function exists (`RecursionExists`). The library's
induction theorems, which take an operator as a parameter, cannot be cited with
the provers used here, and neither can `SelectSeq`, whose definition they do
not unfold.

Only model-checked: `Termination`, `Returns` and `EveryRouteAnswers`, since
liveness under fairness is out of the prover's reach, and what the violated
runs show. Every other property of a passing run is stated by a theorem.

## 5. Where code and documents disagree

Shown by a run:

1. Parallel scenarios share a client that each closes when it ends
   (`services/execution_engine.py:151-153`): against a healthy target
   scenarios can end FAILED (`engine_parallel_healthy`).
2. "Automatic failover and task reassignment"
   (`services/distributed_engine.py:11`): a task that is refused or fails is
   not planned again (`distributed_failover`).
3. "Configure `STORE_BACKEND=sqlite` for persistence"
   (`src/docs/configuration.md:99`): shutdown clears the tables
   (`main.py:117`; `store_persistence`).
4. "LRU eviction when capacity is exceeded" (`services/store.py:77`): the
   eviction is first in, first out (`services/store.py:40-43`;
   `store_eviction`).
5. "Findings present in comparison but not baseline"
   (`models/analytics.py:55`): findings are compared by type alone, since a
   finding leaves its endpoint empty (`services/report_generator.py:74`;
   `report_comparison`).
6. "Last run status" (`models/cicd.py:79`): a late completion of an older run
   overwrites it (`services/cicd_service.py:230-232`; `cicd_last_run`).

Read off the code while modelling it, and in the models, but not shown by a run:

7. "Number of successfully completed scenarios" (`models/report.py:91-93`): a
   burst whose requests all fail is COMPLETED
   (`services/execution_engine.py:131-132, 210-211`; `BurstVulnerable`,
   `Justified`).
8. "TTL-based automatic expiry" (`services/store.py:76`): `list_*` hands out
   documents past their TTL (`services/store.py:120-122, 134-136, 148-150,
   162-164`; `List`).
9. "ID of currently assigned task" (`models/distributed.py:55`): a worker that
   was OFFLINE in a task gets a second one, and the field forgets one of the two
   (`services/distributed_engine.py:60-66`; `Heartbeat`).
10. "60 requests/minute per client" and "10 requests above the rate limit"
    (`src/docs/security.md:118-119`): a bucket holds a minute's requests, so
    within a minute a client can use it up and its refill, and the setting for
    bursts is read nowhere (`core/rate_limit.py:53-57`; `GetBucket`).
11. "Whether security posture improved" (`models/analytics.py:69`): risk scores
    are cut off at 100 and equal ones count as better
    (`services/analytics_service.py:209, 112`; `RiskScore`, `CompareReports`).
12. "Whether the invite has been accepted" (`models/tenant.py:126`): it is
    marked so before a full team refuses the member, and stays so
    (`services/tenant_service.py:177`; `AcceptInvite`).
13. "Watches the config file for changes" (`core/config_reloader.py:3`): the
    hash is stored before the file is read again and parsed
    (`core/config_reloader.py:75`), so a file that comes back to a content that
    failed to load is not loaded (`CheckAndReload`).
14. "thread safety and immutability guarantees" (`core/config_reloader.py:5`):
    a watcher that `stop()` did not wait out merges into settings it took
    before, and may swap and call back after the next watcher has
    (`core/config_reloader.py:129-130`; `StopReturns`, `TakeSettings`).

The models also keep the following, which a reader of the code may not expect.
None of them breaks a property above; each is in the definition named.

- LLM router: `Finish` caches the rule engine's fallback under the model's key.
  The generator asks with medium complexity, so the cloud models and their
  breaker are not used by it; the fallback's JSON has neither type nor severity
  and becomes one scenario with the defaults (`LLMScenarios`). One invalid item
  of a reply discards all of it.
- Pipeline: a generate request may return ids its own batch has already
  evicted (`EndGenerate`); `store_report` is called by no router
  (`StoreReport`); a timed out scenario counts as passed (`BuildSummary`); the
  average execution time is an average of vulnerability rates
  (`AvgExecutionTime`); a severity change is told against the baseline's last
  finding of the key (`SeverityChanges`); the CSV export marks every row of a
  scenario that was run twice (`CsvRows`).
- Parsers: a proto method with a package-qualified message is not seen
  (`ExtractMethods`); a GraphQL list is nullable as its elements are
  (`ExtractField`). No route uses the Postman adapter, and a collection whose
  URLs are strings is not imported. The adapter drops a trailing slash
  (`Segments`).
- Tenants: a downgrade leaves the team too large (`UpdatePlan`); a suspended
  tenant may do everything (`SuspendTenant`); a member can be made a second
  owner (`UpdateMemberRole`); the tenant's check_quota refuses an unknown
  resource, the plan's allows it (`WithinQuota`, `WithinPlan`). No route is
  guarded by the gates' decorators.
- License: a remembered license is in force for up to an hour past its expiry
  (`Remembered`); removing it leaves the file the environment names, and a file
  that cannot be deleted leaves the remembered license in force
  (`RemoveLicense`). A key without an expiry is good for ever (`Never`), and a
  wall clock that is set back makes an expired key good again (`SetClock`).
- Plugins: a late failure sets a disabled plugin to error (`ExecuteFails`); a
  manifest of the same name keeps the old instance under the new record, so that
  calls run the code of an earlier load (`LoadFromDirectory`); a
  failure is no event of the registry, and the routers use the manager
  directly.
- Pipelines of other systems: nothing disables one; two providers have no
  generator; a run can be completed twice (`CompleteRun`).
- Rate limiter: the request whose bucket its own cleanup drops is free,
  and a client whose bucket is dropped for the number of buckets starts with a
  full one (`Dispatch`).
- Configuration: a removed key keeps its value (`Merge`). The application makes
  no reloader, and importers of `config.settings` would not see a swap.
- API client: an error that says "HTTP 4" is sent again at once
  (`SendAgain`); an ended call removes a newer call's controller (`Ends`,
  recorded in `stray`); the execution page cancels with an id no call has.

## 6. Not modelled

- WebSocket hub: `broadcast_progress` is called by nothing, so the list of
  connections is only appended to and removed from under its lock.
- Audit log: nothing records into it.
- Key store and sanitizer: wrappers over the OS keyring, a file and regular
  expressions, without state of their own.
- Security headers, error mapping, logging, version headers, dependency
  wiring: stateless filters.
- Frontend pages, components and type guards: presentation over `ApiClient`;
  file uploads, which do not go through `request()`.
- `src/backend/scripts`: reports about the repository itself.
- `stats` and iteration of the stores; the parsing of text into
  documents (JSON, YAML, regular expressions) where the models take the parsed
  document; HTML and Markdown rendering.

What could follow: cancellation of `execute_distributed()` once something
calls and cancels it (`RunningIsBusy` is the property it would break); the hub
once something broadcasts.
