# A TLA+ model of the Microservice Resilience Platform

The platform (`src/app/`) is a FastAPI service that monitors other services: it probes them over HTTP behind
circuit breakers, caches results in Redis, limits its own clients' requests with token buckets in Redis, keeps
the monitored services in PostgreSQL, and tells the world what it finds by Prometheus metrics, a Celery event
backend and a WebSocket stream. It runs as several replicas. This directory models the parts of it whose state
several coroutines, replicas or failures can get at, checks them with TLC on small instances and proves the most
important of their properties with TLAPS for every instance.

Line numbers below, and in the comments of the modules, are those of `src/app/`.

## 1. Inventory

| Component | State | Operations | Interacts with |
|---|---|---|---|
| Circuit breaker, `circuit_breaker.py` | one snapshot (state, failure count, opened_at) per service, in the memory of each process | `before_request`, `record_success`, `record_failure`, `trip`, `snapshot`; all synchronous | called by the health checker and by the trip endpoint |
| Health checker, `health.py` | none of its own; local variables held across awaits | `check`: look up, read cache, ask the breaker, probe, record, write cache, report metrics, publish | breaker, cache, metrics, event publisher |
| Result cache, `cache.py` | a Redis key with a TTL per service, shared by all replicas | `get`, `set` | health checker |
| Manual trip, `main.py:470-490` | none | `trip_circuit_breaker` | breaker, metrics, event publisher; concurrent with checks |
| Metrics, `metrics.py` | counters and gauges of each process | `record_*` | written by everyone |
| Rate limiter, `rate_limiter.py` | a token bucket per client and scope in Redis, shared by all replicas | `check` (one Lua script) | Redis and its clock |
| Rate limiting of requests, `main.py:130-346` | decisions and a flag on the request | middleware, endpoint dependencies, failure policy, response headers | rate limiter, error handlers |
| Status stream, `websocket.py`, `main.py:549-578` | a live set of connections per process | `connect`, `disconnect`, `broadcast`, the handler of `/ws/status` | database, event publisher |
| Event publishing, `events.py` | none | `publish`: Celery, then broadcast | status stream; awaited by every state change |
| Registration and inventory, `main.py:359-456`, `storage.py`, `db_models.py` | the table of services; counter and gauge of each process | `register_service`, `create`, `list`, `_record_service_inventory` | database, metrics, event publisher |
| Alert webhook, `main.py:493-546` | none; Alertmanager sends a group again until it is accepted | logs and broadcasts each alert of a group | status stream |
| Request pipeline, `main.py:130-258, 375-402`, `logging_config.py` | a context variable per request, HTTP and rate limit metrics | correlation IDs, labels by route, client identifiers, metrics, error handlers | wraps rate limiting and every handler |
| Lifecycle and readiness, `main.py:60-123, 411-434` | the resources of a process | startup, shutdown, lazily opened clients, `/ready` | database, Redis, Celery |
| Configuration, `config.py` | none that changes | `get_settings` | startup |
| Tracing, `tracing.py` | what is instrumented | `configure_tracing`, `instrument_sqlalchemy_engine` | import of the application, making of the engine |
| URL safety, `url_security.py` | none | checks of a URL and the addresses it resolves to | the probe |
| Log format, schema, Celery worker, deployment | none that changes | | |

What is hard in it, and what makes each component correct:

* **Breaker and checker.** Everything is one thread, but `check` awaits again and again. The breaker a verdict is
  recorded on need not be the breaker that let the probe through: meanwhile it may have been tripped, opened,
  closed or lost with its process. Correct means that a breaker is always in a state that makes sense, that
  nobody is stranded behind a HALF_OPEN breaker, that an open circuit stays open until its recovery timeout unless
  a probe that was under way says otherwise, that no opening goes uncounted, and that the gauge
  raises no alert for a breaker that never opened.
* **Rate limiter.** Fractions, rounding, key expiry and a wall clock that may be set back. Correct means that a
  client never gets more than capacity and refill allow, in any stretch of time, and that it is told the truth
  about when to come back. Around it, failures of Redis before or after the script took effect, and two checks for
  one request: a handler must not run unpaid, and the headers must be those of the scope that decided.
* **Status stream.** `broadcast` iterates over the live set and awaits in between. Correct means that a client
  does not miss what happened between its snapshot and its first event, that nobody who is there is dropped, that
  one client that is gone does not cost another its message, and that a group of alerts is accepted in the end
  although a broadcast that raises ends the loop over its alerts.
* **Registration.** A commit whose answer is lost, a publication that fails after the state changed, two
  inventories recorded in the wrong order. Correct means that answers and counters tell the truth.
* **Request pipeline.** Requests interleave at every await and end in any of three layers, each of which counts on
  its own. Correct means that no request logs or answers with the correlation ID of another, that every request is
  counted once and under its own route, and that the metrics of the layers agree.
* **Lifecycle.** The process starts in an environment and with packages it does not choose, some of its clients
  are opened only by a request, dependencies come and go between the checks of one `/ready`, and it is stopped and
  killed. Correct means that `/ready` says what was so, that shutdown leaves nothing open unless a close raised,
  that nothing is traced without a provider and an application to trace it for, and that a process whose
  environment is sound gets ready in the end.

`PROJECT.json` lists each of these hazards at the line where it bites, with the properties that cover it, or the
reason why none does.

## 2. Modules

| Module | What it is |
|---|---|
| `CircuitBreaker` | the methods of `CircuitBreakerManager` as operators on snapshots |
| `HealthCheck` | `HealthChecker.check` and `trip_circuit_breaker` of all replicas, with breakers, result cache and breaker metrics; EXTENDS `CircuitBreaker` |
| `BreakerContract` | what a breaker promises, with no counts, caches or metrics: the abstract specification `HealthCheck` implements |
| `HealthCheckProofs`, `HealthCheckRefinement` | theorems about `HealthCheck`; the refinement proof |
| `TokenBucket` | the Lua script and what `check` makes of its answer, as operators on buckets |
| `RateLimiting` | middleware, dependencies, failures, Redis and its clock; EXTENDS `TokenBucket` |
| `RateLimitingProofs`, `RateLimitingAdvice` | theorems about `RateLimiting`: what is given; what clients are told |
| `RequestPipeline` | correlation IDs, labels and metrics around it; EXTENDS `RateLimiting`, whose steps its own are |
| `RequestPipelineProofs` | theorems about `RequestPipeline`; EXTENDS `RateLimitingAdvice` |
| `StatusStream` | sockets, broadcasts, and the registrations and groups of alerts that are broadcast, on one replica |
| `Registration` | registrations on all replicas over the table they share |
| `Lifecycle` | settings, tracing, startup, shutdown and `/ready` of one process |
| `StatusStreamProofs`, `RegistrationProofs`, `LifecycleProofs` | theorems about these |
| `MCHealthCheck`, `MCRateLimiting`, `MCRequestPipeline`, `MCStatusStream`, `MCRegistration`, `MCLifecycle` | instances for TLC: values of the function-valued constants, and symmetry |

An operator named `X_Something` just before `X` is a mutant of `X`, a mistake the code might contain; `PROJECT.json`
names the property that catches it. No specification uses one.

**Steps.** A coroutine runs alone from one await to the next, so an action is what a request does between two
awaits, and `pc` names the await it is suspended at. Where a request changes shared state elsewhere (Redis, the
database) *and* goes on in the process when the answer arrives, these are two actions, because the answer takes
time; where the process does nothing that others can see with the answer but go on, they are one.

### 2.1 HealthCheck

State: `breaker`, `gauge` and `open_total` by cell (a service as one replica sees it), `cache` by service, and for
each request `pc`, its `target`, the state it was let through in (`seen`, `circuit_snapshot.state` in the code)
and its `result`. The actions follow `check` line by line:

| Code | Action |
|---|---|
| `repository.get`, for both endpoints | `Arrive`, then `LookupFails`, `LookupCheck` or `TripBreaker` |
| `cache.get` (`health.py:44`) | `CacheRead` (hit or miss), `CacheFails` |
| `before_request` (`health.py:52`) | `Reject`, `Admit`; `RecordDisabled` for a disabled service, whose failure is recorded without an await |
| the end of `_probe`, lines 55-60 | `ProbeReturns`, or `ProbeRaises` for an exception `_probe` does not catch |
| `cache.set` (line 62) | `StoreResult`, `StoreFails` (the key may be written all the same) |
| `record_health_check` (line 63) | `Report` |
| `publish` (line 64) | `Respond` |
| a replica is killed and started again | `Restart`: breakers, metrics and requests are lost, the cache is not |

`opens` and `orphaned` are history variables: how often a breaker really opened, and the cells whose half-open
probe ended without a verdict. Abstracted: what is probed and how (an answer, an error or an exception), latency
and text of results, `last_failure_at`, which nothing reads, and metrics that are only added to.

### 2.2 RateLimiting

The script keeps fractional tokens. `TokenBucket` scales them: one token is `WindowMs` credit and each millisecond
adds `limit` credit, so that all numbers are integers, and what the script rounds (`ceil`, `floor`) is rounded in
the same places. Requests take the awaits `global`, `endpoint` and `handler` in turn. Redis may fail a check
before or after running the script; a request let through because the first check failed carries a flag
(`unavailable`) that makes the endpoint's dependency let it pass unasked (`AfterGlobal`, `main.py:293`). Endpoints
in `WithBody` parse a body before any dependency runs, and a malformed one is refused there (`BodyRefused`). Keys
expire (`Expire`) or are lost with Redis (`Lose`), time passes (`Tick`), and the clock of the Redis host may be set
back (`StepBack`). Clients are the identifiers `_rate_limit_client_id` tells apart; `RequestPipeline` says how it
derives them. What a bucket gave before it was lost does not count for `GrantsBounded`: after the loss it is full
again, whatever the code does. `since`, `promised`, `full_at`, `paid` and `elapsed` are history.

### 2.3 StatusStream

A socket is registered by `connect`, lists the services, sends its snapshot and waits. A registration is
committed, accepted by the event backend and broadcast; the broadcast sends to one socket at a time. A Python set
that changed size makes the iterator raise, and one whose members were replaced by as many others may show it any
of those it has not visited: `Iterate` has a disjunct for each. Only `RuntimeError` is caught in `broadcast` and
only `WebSocketDisconnect` in the handler; `SendErrors` says which of them a send to a client that is gone raises.
A socket raises `WebSocketDisconnect` once (`raised`): Starlette then takes it for closed, and every later send is
a `RuntimeError`. A handler that waits for text and gets something else, or is ended otherwise, leaves its socket
registered (`ReceiveFails`), for the next broadcast to find.

The webhook broadcasts the entries of its payload one after another, skipping those that are no dicts
(`Remaining`); a broadcast that raises ends the request, and Alertmanager sends the group again (`ReceiveAlerts`
from `raised`). `sending` holds the broadcast under way, with the audience it began with; `settled` is history: the
messages whose broadcast found the set as it was when it began.

Not modelled: after a change of the set that makes Python rebuild its table, the iterator may come to a socket
twice.

### 2.4 Registration

`create` awaits the commit, which succeeds, conflicts, or fails before or after it took effect; the handler then
counts, reads the inventory, records it and publishes. `Restart` records the inventory as `lifespan` does.

### 2.5 RequestPipeline

`correlation_id_middleware` is outermost, then `rate_limit_middleware`, then the router. Each step of a request is
a step of `RateLimiting` conjoined with what the other layers do in it (`Start`, `CheckAnswered`, `CheckFails`,
`Handled`, `Send`), and `Finish` is the outer layer's own: it takes the response or the exception, counts it under
`RoutePath`, sets the header and resets the context variable. `context[q]` is the value the task of `q` sees, which
is what its log lines carry. Methods and paths are `Targets`, and `Matches` says of each whether the routes, in
their order, match it fully, but for the method, or not at all; from this follow the route the router would choose,
whether the request is exempt and which limit it is subject to. A scope names its
route (`main.py:298`), so no two routes share one. The peer and `X-Forwarded-For` give the client.
Status 200 stands for every response a handler or an error handler makes of an `AppError` or of a body that was
refused; 500 is an exception
that leaves the middlewares.

The documentation has every response carry `X-Correlation-ID` (`README.md:195-196`); the response
`unhandled_error_handler` makes of such an exception does not, nor does the line it logs (`main.py:175-183,
395-402`), because that handler runs outside all middlewares. `Finish` models it so, and `IdsNotMixed` excludes
it.

### 2.6 Lifecycle

`Import`, `Build`, `ConnectDatabase` and `Started` are the stages of a start: the settings are read and tracing is
configured when the module is imported, `build_state` makes the engine and the HTTP client, `repository.init`
needs the database, the inventory is recorded whether it can be read or not. Each stage fails for its own reasons:
an environment `get_settings` refuses, a LOG_LEVEL that is none, a URL that is missing, a database URL no engine can
be made of, a database that is not there or fails at the first connection. Nothing looks at the other URLs before
they are needed, so that a process with a malformed one starts, and its checks raise (`Unusable`). `OpenClient` is the
lazily opened Redis client of the cache or of the limiter. `Shutdown` waits for the requests under way, and
`CloseNext` closes one resource after another; `CloseFails` ends that. `Kill` and `Restart` are the platform's.
A request to `/ready` (`Ask`) makes its three checks one by one (`Check`) while `Flip` makes dependencies come and
go; `wasUp` and `wasDown` remember what could have been seen since it arrived. A check may also raise although what
it asks is up, since any exception counts (`main.py:429-433`); `raised` remembers those, and `MaxFaults` bounds them.
Variables are told apart by what the settings and what is made of them tell apart (a URL is unset, empty, malformed
or good); packages are the ones `tracing.py` imports. `traced` holds the trace provider besides what is
instrumented, since the provider is set before FastAPI's package is asked for and stays if that is missing.

## 3. Runs

`PROJECT.json` gives every run its properties. Runs whose requests are one-shot switch deadlock checking off,
because the system modelled really ends; rate limiting goes on forever and is checked for deadlock, as its places
for requests are used again.

| Run | Instance | What it shows |
|---|---|---|
| `health_concurrent` | 1 replica, 1 service, threshold 2, recovery 1; 3 checks and 1 trip at once, 1 restart, time to 2 | all breaker properties and the contract under concurrency |
| `health_replicas` | 2 replicas, 2 services (one cached, one disabled and uncached), 2 checks and 1 trip, 2 at once, time to 1, under `FairSpec` | the contract where replicas share the cache only, and on the path of a disabled service; every request is answered |
| `find_open_until_recovery`, `find_open_total` | 2 checks, 1 trip, no restart | findings 1, 2 |
| `find_gauge` | 2 checks, 1 trip, one at a time, no restart | findings 3, 6 |
| `limit_buckets` | 1 client, 1 request at a time, global and endpoint limit 1, window of 1 second of 2 clock units; 5 units, clock set back once | two buckets beyond the life of their keys, lost or expired; refuse on failure |
| `limit_open` | the pipeline: 2 requests at a time and 3 in all, 3 targets (exempt and unmatched, limited, matched but for the method), global limit 2, endpoint limit 1 | headers, IDs, labels and metrics over all layers; let through on failure, and past the endpoint's check too |
| `stream_broadcasts` | 2 sockets, 1 registration, 1 group of two alerts with an entry that is no dict, under `FairSpec` | two broadcasts at once while sockets come and go, and the group sent again after errors |
| `find_delivery` | 2 sockets, 1 registration | finding 4 |
| `register_faulty` | 2 replicas, 3 requests, 2 names, 1 restart, everything may fail | answers and counters tell the truth |
| `find_inventory` | 1 replica, 2 requests, 2 names, nothing fails | finding 5 |
| `lifecycle` | 14 environments, 7 sets of packages, 1 request to `/ready` at a time, dependencies change twice, 1 check fails on its own, 2 stops or kills, under `FairSpec` | starts, readiness, shutdown and tracing |

**Properties.** `BreakerCoherent`, `HalfOpenHasProber`, `OpenTotalNeverUndercounts`, `AlertsAreReal` (the gauge says
OPEN only of a breaker that has opened),
`QuietOpenHolds` (an OPEN breaker no probe is out for stays OPEN until its timeout), `ImplementsContract`,
`EveryRequestAnswered`; `GrantsBounded`, `AdviceHolds`, `HandlerIsPaidFor`, `OutagesLetThrough`,
`HeadersFitResponse`; `IdsNotMixed`,
`MetricsAgree`, `LabelledByRoute`; `NoGap`, `LiveAreRegistered`, `UndisturbedReachesAll`, `EveryGroupAccepted`;
`AnswersAreTrue`, `NeverOvercounts`; `ReadinessWasTrue`, `ClosedInOrder`, `NothingTracedAlone`, `EventuallyReady`. Each
is explained where it is defined.

**Bounds.** Each named bound (`MaxTime`, `MaxInFlight`, `MaxRestarts`, `MaxStepBacks`, `MaxRequests`, `MaxFlips`,
`MaxFaults`, `MaxStops`) guards one thing. They are chosen so that the interesting thing happens at least once:

* Threshold 2 and three checks let a failure be counted, a second open the breaker, and a third arrive on the open
  one; with recovery 1 and time to 2 it can half-open, fail, and recover again.
* One restart puts a late verdict on a breaker that was reset; the request itself is lost with its process.
* A bucket's key lives for two windows, 4 units, so 5 units see it expire. With limit 1 a window of 2 units makes
  half tokens, and a second of 2 units half seconds to round. One step back, to any earlier time, shows all three kinds of key: newer than
  the clock, expired, and to expire later than expected. For the pipeline time does not matter: none passes.
* Three requests of which two run at once let one be refused by either scope between two that are not, and one
  finish between any two awaits of another. The one client is the peer's; the branch of `ClientId` for a trusted
  proxy is modelled, but with a single client the run cannot tell it apart.
* Two sockets suffice for the set to change size, and to change members without changing size, during a
  broadcast; two broadcasts suffice for one to drop what the other iterates over; two alerts suffice for one to be
  broadcast by a request whose other one raises.
* Three registrations of two names on two replicas give a conflict next to a success on either replica.
* Two changes of dependencies let one go and come back within a request to `/ready`, or two swap; one fault
  ends a start, or makes an answer 503 with everything up; two stops let a
  process be stopped, killed while it stops, and started once more.

What the bounds might hide in the properties proved (section 5) the proofs do not.

**Symmetry** is used for sets whose members nothing distinguishes (checks, trips, requests of registrations and of
the pipeline, names, replicas of `Registration`), and only in runs of invariants and action properties,
of which `ImplementsContract` is one; no run with a liveness property uses it. `target`, `replica`, `name` and
`client` of a request that has not arrived are arbitrary and read by nothing.

**Fairness.** In `HealthCheck`, `FairSpec` asks for weak fairness of the next step of each request (`Serve(q)`), no
matter which outcome it has: the event loop runs every coroutine that is ready, and each await ends, since Redis,
the database and the event backend answer or fail and the probe has a timeout (`health.py:99-107`). It does not ask
that anything succeeds, that time passes or that anyone trips a breaker. In `StatusStream` it asks that the event
backend answers or fails, that each send ends, and that Alertmanager sends a group again after an error, as it does
for a webhook that answers 500; nothing is assumed of the clients. But they are finitely many sockets, each used
once, so that the set is left alone in the end: clients that reconnect forever could keep it changing, and a group
could be sent again forever. In `Lifecycle` it asks that startup and shutdown go on, that the platform replaces a
process that ended and asks for readiness again and again (`k8s/deployment.yaml` declares both), and that each check
of `/ready` ends; not that a check passes, that dependencies come up or that anyone opens a Redis client, kills or
stops the process. `EventuallyReady` assumes of a behaviour that its dependencies stay up in the end; that checks
stop failing on their own is `MaxFaults`.

## 4. Findings

Each is a run in which TLC finds a documented statement violated by what the code does. For each the proofs say
when the statement does hold, which is what a reader of the documentation may count on.

1. `find_open_until_recovery`. An open circuit is to reject requests before recovery
   (`tests/test_circuit_breaker.py:35`). `record_success` replaces whatever snapshot it finds, so that a probe let
   through earlier closes a circuit opened since, even by hand. What does hold is `QuietOpenHolds`,
   and the statement itself as long as no two requests are served for one breaker at once (`OneAtATimeStaysOpen`).
2. `find_open_total`. `circuit_breaker_open_total` is described as the number of times a breaker entered OPEN
   (`metrics.py:56`). The transition is reported from the state read before the probe (`health.py:59`), so that a
   failure that finds the breaker open already may be counted again. What does hold is that none is missed,
   and that the counter is exact as long as no two requests are served for one breaker at once (`OneAtATimeIsExact`).
3. `find_gauge`. `circuit_breaker_state` is described as the current state (`metrics.py:109`), and an alert fires
   on it (`README.md:183`). It is written after the result was cached and not at all if that fails, or if the
   probe raises, so that it can stay wrong with nothing under way to correct it. Requests need not overlap for that, and in this run
   they do not. It is right at rest if requests do not
   overlap and none ends that way (`GaugeFollowsReports`).
4. `find_delivery`. `broadcast` is to send to every active WebSocket (`websocket.py:19`). A socket that comes or
   goes while it awaits a send ends it with a `RuntimeError` from the set iterator, outside its `try`: the other
   sockets get nothing, and the request that published gets an error. Everyone gets the event if no socket is
   registered or removed meanwhile and sends raise only `RuntimeError` (`UndisturbedIsDelivered`).
5. `find_inventory`. `monitored_services` is described as the current number of monitored services
   (`metrics.py:41`). Two overlapping registrations may record their inventories in the wrong order.
   It is current at rest with one replica, registrations one at a time and no failures (`OneAtATimeIsCurrent`).
6. `find_gauge` again. The gauge is described as `CLOSED=0, HALF_OPEN=1, OPEN=2` (`metrics.py:109`, and
   `metrics.py:188` has the 1). It never is 1: `before_request` makes a breaker HALF_OPEN without telling the gauge
   (`health.py:52`), which is set only after a verdict, and a verdict leaves CLOSED or OPEN. A breaker whose half-open
   probe raised stays HALF_OPEN, and the gauge says OPEN. `HalfOpenIsNeverShown` is the theorem; what does hold is
   that an OPEN on the gauge means that the breaker opened (`AlertsAreReal`).

## 5. Proofs

All theorems hold for every value of the constants that satisfies the ASSUMEs of the modules, which TLC evaluates on
every run: thresholds and recovery timeouts are positive, as `ServiceCreate` demands (`models.py`), limits and
windows are positive, as `check` demands (`rate_limiter.py:128`), sets that must not be empty or must not overlap do
not, and in `RequestPipeline` routes, targets and requests are finite, so that they can be counted.

**HealthCheckProofs.** The inductive invariant `IInv` is the conjunction of the invariants checked by TLC and
`SeenAdmits`: what a probe remembers as the state it was let through in is never OPEN. Without it
`OpenTotalNeverUndercounts` is not inductive: a failure that opens the breaker is counted because the state it is
reported from is not OPEN, and that state is the remembered one. `HalfOpenHasProber` and `BreakerCoherent` need each
other and the types. There is one lemma per action (`AdmitIInv`, `ProbeReturnsIInv`, ...), on top of lemmas about
what the breaker operations return (`RecordFailureIsCoherent`, ...) and of `QuietStep` and `SetBreakerStep`, which
deal with the steps that leave the breakers alone and with those that write one. `Inductive` yields `TypeCorrect`,
`BreakersStayCoherent`, `HalfOpenIsProbed` and `OpeningsAreCounted`. `AlertsStayReal` needs that a verdict on its
way to the gauge says OPEN only of a breaker that opened (`ReportsCaused`), and
`HalfOpenIsNeverShown` that none says HALF_OPEN. `QuietOpenStaysOpen` is the action property.

Two more sections are about requests that do not overlap: at no time are two served for the same cell (`OneAtATime`,
an assumption on behaviours, under which restarts and failures still happen). Then the state a probe was let through
in is that of the breaker until its verdict is recorded (`SeenIsCurrent`), and `OneAtATimeIsExact` and
`OneAtATimeStaysOpen` follow. `GaugeFollowsReports` also assumes that no step is one by which a check loses its
report (`ReportsReach`); its invariant `GaugeFollows` says that the gauge is right, or a check is under way that
will set it.

**HealthCheckRefinement.** `ContractKept`: every behaviour of `HealthCheck` is one of `BreakerContract` under the
mapping given there (mode: the breaker's state; until: opened_at and the recovery timeout; outstanding: the checks
that await a probe). Each action is mapped to an action of the contract or a stutter under `IInv`; coherence is what
makes the guards agree, since it excludes an OPEN breaker without `opened_at`. `OpenIsLeftAlone` is derived from the
contract and from nothing else of `HealthCheck`: an OPEN breaker lets no probe out before its deadline, and its
deadline only moves to later times.

**RateLimitingProofs.** `GrantsBounded` is not inductive: it says nothing of what is left in the bucket.
`GivenAndLeft` says that the tokens given since an instant *and* the credit left are together within the bound; a
check moves a token from one to the other, a millisecond raises bound and credit alike (`CreditTick`), a step back
of the clock never raises credit (`CreditStepBack`), and a key expires only when its bucket would be full
(`CreditExpire`), for which `BucketsFresh` relates each key's expiry to its last update. `HandlersArePaidFor` is
proved by an invariant of its own that says what a request at each await has paid. `OutagesStayLetThrough` (by
`LetThroughInv`) says that a request whose first check met an outage is never asked for the endpoint's tokens. Together with `TypeCorrect` they
cover both policies (`FailOpen`) and any number of concurrent requests. `WindowGrants` says what `GrantsBounded`
means for a client: never more than twice the limit in a stretch of one window, wherever it begins.

**RateLimitingAdvice.** `AdviceIsTrue`: `AdviceHolds` speaks of the clock at which a client comes back, so the
invariant (`Kept`) looks ahead: at `clock + Wait` the bucket has a token's credit, and at `full_at` it is full.
`RetryCovers` and `ResetCovers` show that what the script rounds to seconds covers what it rounds from, and
`CheckedGains` and `CreditGains` that neither a check that refuses nor time takes credit away. `HeadersFit`:
`ToldAndPaid` relates, at each await, the decisions a request was given to what it has paid. `RetryIsTight` and
`ResetIsTight` are the other half of the advice: a client that comes back a second before Retry-After says is
refused, even if nobody else came, and a second before X-RateLimit-Reset the bucket is not full.

**RequestPipelineProofs.** `PipelineLimits`: every behaviour of the pipeline is one of `RateLimiting`, since each of
its steps is one or leaves its variables alone; so all theorems about `RateLimiting` hold of the pipeline, as
`PipelinePaidFor` and `PipelineKeepsLimits` do. `IdsStayApart` is proved by `OwnId`, one conjunct per stage of a
request. `MetricsStayAgreed` is about sums of counters. `Total` is therefore the number of single counts, the
cardinality of a set of pairs of a counter and a number up to its value, so that a counter that goes up by one is a
pair that is added, and no law of sums needs an induction. The invariant is `MetricsAgree` in its three parts and
what they lack to be inductive: a request has a status when it is done, and a kind by its target (`StatusFits`); a
scope decides at most once on a request, so that its decisions and the requests it has yet to decide on
(`Undecided`) are no more than the arrivals (`DecisionsFit`, which bounds the counters for `PipelineTypeCorrect`);
and `LabelledByRoute` as a balance, the responses counted under a label and the requests under way that will be
being the arrivals with that label (`LabelsBalance`).

**StatusStreamProofs.** The invariant adds to `TypeOK` and `LiveAreRegistered` that sockets known to the manager or
to a broadcast were started and those found disconnected are gone (`SocketsStarted`), that a broadcast has told
everyone it came to but the socket it is at (`BroadcastsTell`), and `NoGap` for the snapshot about to be sent as
well (`GapFree`). `Told` is what links broadcast and snapshot: what a step settles is known to everyone who is
there. From it follow `LiveStayRegistered`, `SnapshotAndEventsMeet` and `UndisturbedReach`. `UndisturbedIsDelivered`
assumes of a behaviour that the set is what it was whenever an event is being broadcast (`Undisturbed`).

**RegistrationProofs.** `AnswersStayTrue` needs that each row belongs to the request that inserted it (`RowsOwned`)
and that an answer is not taken back (`AnswersFinal`). `CountersNeverOvercount` compares a counter with the number
of requests of that process whose creation was counted (`Counted`), by the library's facts about cardinalities.
`OneAtATimeIsCurrent` is by `RecordFits`: what a registration listed is still the table when it is recorded.

**LifecycleProofs.** `ClosingFits` and `ClosedAreNotHeld` say how far a shutdown has come and that what it closed
stays closed, since nothing is opened behind it; `SawTheTruth` says that every check made is in `ok` or has
a reason to be missing there: what it asked was down, its URL is of no use, or it raised on its own. `TracedFits`
gives what is traced at each stage of a start, from which `TracedTogether` follows.

**Only model-checked.** `EveryRequestAnswered`, `EveryGroupAccepted` and `EventuallyReady`: liveness under fairness
is beyond the provers used, as is ENABLED. Every invariant and action property of a passing run is a theorem. No
module uses a RECURSIVE operator.

## 6. Assumptions and limits

* The floating-point arithmetic of the script is taken to be exact.
* The clock of a breaker (`datetime.now`) only goes forward; that of Redis may be set back.
* What ends a send to a client that has stopped reading is up to the server; it is taken to end.
* A replica handles requests on one event loop, as the Dockerfile starts it.
* Not modelled: URL safety, which is pure functions of strings and DNS answers; a target they refuse is one of the
  failures of a probe. The Celery worker, which logs the event it is given and keeps no state. The schema, except
  for the unique name. The format of log lines and spans, and counters and histograms that are only added to. The
  deployment manifests, except for what fairness takes from them.

## 7. Plan

Done: 1 `CircuitBreaker`, `HealthCheck` and `BreakerContract`; 2 `TokenBucket` and `RateLimiting`; 3 `StatusStream`
with registrations and groups of alerts; 4 `Registration`; 5 `RequestPipeline`; 6 `Lifecycle`; all with proofs. To
do:

7. A clock of the breakers that is set back (`circuit_breaker.py:25`): `QuietOpenHolds` speaks of the clock and
   should stay; `BreakerCoherent` has to compare with the latest time the clock has shown.
8. Liveness of recovery: a breaker whose service has recovered closes if it is checked again and again.
