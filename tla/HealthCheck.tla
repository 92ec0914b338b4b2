---------------------------- MODULE HealthCheck ----------------------------
(***************************************************************************)
(* Health checks and manual trips: HealthChecker.check (app/health.py) and *)
(* trip_circuit_breaker (app/main.py), with the circuit breakers and the   *)
(* metrics of every replica and the result cache the replicas share.       *)
(*                                                                         *)
(* A request is a coroutine on the event loop of one replica.  Between two *)
(* awaits it runs alone, so one action is what it does from one await to   *)
(* the next; pc names the await it is suspended at.  What Redis does to a  *)
(* key and what the coroutine does on its answer are two steps.  A cell is *)
(* a service as one replica sees it: breakers and metrics live in the      *)
(* memory of the process, one per cell, and are lost when it restarts.     *)
(***************************************************************************)
EXTENDS CircuitBreaker, FiniteSets

CONSTANTS
    Replicas,       \* processes running the application
    Checks,         \* requests GET /health/{service_id}
    Trips,          \* requests POST /circuit-breaker/{service_id}/trip
    CacheTtl,       \* ServiceRecord.cache_ttl_seconds, by service
    Enabled,        \* ServiceRecord.enabled, by service
    MaxTime,        \* bound on the clock
    MaxInFlight,    \* bound on the requests served at once
    MaxRestarts     \* bound on the restarts of replicas

ASSUME HealthAssumption ==
    /\ Checks \cap Trips = {}
    /\ Replicas # {} /\ Services # {}
    /\ CacheTtl \in [Services -> Nat]
    /\ Enabled \in [Services -> BOOLEAN]
    /\ MaxTime \in Nat /\ MaxInFlight \in Nat /\ MaxRestarts \in Nat

Requests == Checks \cup Trips
Cells == Replicas \X Services
ReplicaOf(c) == c[1]
ServiceOf(c) == c[2]

\* HealthCheckResult, without the fields nothing depends on.
HealthCheckResult == [healthy: BOOLEAN, circuit_state: CircuitState]
NoVerdict == [healthy |-> FALSE, circuit_state |-> "CLOSED"]

\* A Redis key with the time from which it no longer exists.
CacheEntry == [result: HealthCheckResult, expires_at: Nat]

VARIABLES
    now,            \* the clock, in seconds
    breaker,        \* CircuitBreakerManager._states, by cell
    cache,          \* the Redis key health:{service_id}, by service
    gauge,          \* metric circuit_breaker_state, by cell
    open_total,     \* metric circuit_breaker_open_total, by cell
    pc,             \* where a request is suspended
    target,         \* the cell a request is about
    seen,           \* circuit_snapshot.state, the state a probe was let through in
    result,         \* the result a check stores, reports and publishes
    restarts,       \* how many restarts there have been
    opens,          \* history: how often the breaker of a cell went to OPEN
    orphaned        \* history: cells whose half-open probe left no verdict

breakerVars == <<breaker, open_total, opens, orphaned>>
requestVars == <<pc, target, seen, result>>
vars == <<now, breakerVars, cache, gauge, requestVars, restarts>>

Suspended == {"lookup", "cache_get", "admit", "probe", "cache_set", "stored", "publish"}
InFlight == {q \in Requests : pc[q] \in Suspended}

\* The label was never set since the replica started.
Unset == "UNSET"

TypeOK ==
    /\ now \in Nat
    /\ breaker \in [Cells -> CircuitBreakerSnapshot]
    /\ cache \in [Services -> CacheEntry]
    /\ gauge \in [Cells -> CircuitState \cup {Unset}]
    /\ open_total \in [Cells -> Nat]
    /\ pc \in [Requests -> Suspended \cup {"idle", "done"}]
    /\ \A q \in Trips : pc[q] \in {"idle", "lookup", "publish", "done"}
    /\ target \in [Requests -> Cells]
    /\ seen \in [Requests -> CircuitState]
    /\ result \in [Requests -> HealthCheckResult]
    /\ restarts \in Nat
    /\ opens \in [Cells -> Nat]
    /\ orphaned \in SUBSET Cells

Init ==
    /\ now = 0
    /\ breaker = [c \in Cells |-> DefaultSnapshot]
    /\ cache = [s \in Services |-> [result |-> NoVerdict, expires_at |-> 0]]
    /\ gauge = [c \in Cells |-> Unset]
    /\ open_total = [c \in Cells |-> 0]
    /\ pc = [q \in Requests |-> "idle"]
    /\ target = [q \in Requests |-> CHOOSE c \in Cells : TRUE]
    /\ seen = [q \in Requests |-> "CLOSED"]
    /\ result = [q \in Requests |-> NoVerdict]
    /\ restarts = 0
    /\ opens = [c \in Cells |-> 0]
    /\ orphaned = {}

-----------------------------------------------------------------------------
(***************************************************************************)
(* What the synchronous stretches are made of.                             *)
(***************************************************************************)

\* q runs from one await to the next.
Resume(q, from, to) ==
    /\ pc[q] = from
    /\ pc' = [pc EXCEPT ![q] = to]

\* record_circuit_transition adds one to circuit_breaker_open_total.
CountsOpening(from_state, to_state) ==
    from_state # to_state /\ to_state = "OPEN"

\* The breaker of c becomes after, a transition the metrics are told was made
\* from from_state; before is what the breaker really held.
SetBreaker(c, before, after, from_state) ==
    /\ breaker' = [breaker EXCEPT ![c] = after]
    /\ open_total' = [open_total EXCEPT ![c] =
                        @ + IF CountsOpening(from_state, after.state) THEN 1 ELSE 0]
    /\ opens' = [opens EXCEPT ![c] =
                        @ + IF before.state # "OPEN" /\ after.state = "OPEN" THEN 1 ELSE 0]
    /\ orphaned' = orphaned \ {c}

\* Mutant of Verdict: a failure of a half-open probe is not recorded.
Verdict_SkipsHalfOpen(c, b, healthy) ==
    IF healthy THEN record_success
    ELSE IF b.state = "HALF_OPEN" THEN b
    ELSE record_failure(b, ServiceOf(c), now)

\* The breaker of c once the verdict of a probe is recorded on b.
Verdict(c, b, healthy) ==
    IF healthy THEN record_success
               ELSE record_failure(b, ServiceOf(c), now)

\* HealthCache.set awaits nothing, and stores nothing, for a TTL of zero: the
\* check then goes on to the metrics and to the publication at once.
Uncached(c) == CacheTtl[ServiceOf(c)] <= 0

\* Mutant of Keep: a result that is not healthy says OPEN.
Keep_ByHealth(q, c, healthy) ==
    result' = [result EXCEPT ![q] =
                 [healthy |-> healthy, circuit_state |-> IF healthy THEN "CLOSED" ELSE "OPEN"]]

\* model_copy: the result carries the state the verdict left the breaker in.
Keep(q, c, healthy) ==
    result' = [result EXCEPT ![q] =
                 [healthy |-> healthy, circuit_state |-> breaker'[c].state]]

\* From the verdict on to the next await.
AfterVerdict(q, c, from) ==
    /\ Resume(q, from, IF Uncached(c) THEN "publish" ELSE "cache_set")
    /\ gauge' = IF Uncached(c) THEN [gauge EXCEPT ![c] = result'[q].circuit_state]
                               ELSE gauge

-----------------------------------------------------------------------------
(***************************************************************************)
(* HealthChecker.check.                                                    *)
(***************************************************************************)

\* The router calls get_health or trip_circuit_breaker; both first await
\* repository.get, which changes nothing.
Arrive(q, c) ==
    /\ Cardinality(InFlight) < MaxInFlight
    /\ Resume(q, "idle", "lookup")
    /\ target' = [target EXCEPT ![q] = c]
    /\ UNCHANGED <<now, breakerVars, cache, gauge, seen, result, restarts>>

\* repository.get finds no such service, or raises.
LookupFails(q) ==
    /\ Resume(q, "lookup", "done")
    /\ UNCHANGED <<now, breakerVars, cache, gauge, target, seen, result, restarts>>

\* Mutant of LookupCheck: a trip is served as a check.
LookupCheck_AnyRequest(q) ==
    /\ Resume(q, "lookup", "cache_get")
    /\ UNCHANGED <<now, breakerVars, cache, gauge, target, seen, result, restarts>>

\* A check goes on to the result cache.
LookupCheck(q) ==
    /\ q \in Checks
    /\ Resume(q, "lookup", "cache_get")
    /\ UNCHANGED <<now, breakerVars, cache, gauge, target, seen, result, restarts>>

\* Mutant of CacheRead: the gauge is set from a cached result as well.
CacheRead_Reports(q) ==
    LET entry == cache[ServiceOf(target[q])] IN
    /\ \/ /\ now < entry.expires_at
          /\ Resume(q, "cache_get", "stored")
          /\ result' = [result EXCEPT ![q] = entry.result]
       \/ /\ now >= entry.expires_at
          /\ Resume(q, "cache_get", "admit")
          /\ UNCHANGED result
    /\ UNCHANGED <<now, breakerVars, cache, gauge, target, seen, restarts>>

\* Redis answers the GET: on a hit the result is returned as it is, with no
\* word to the breaker, the metrics or the event stream.
CacheRead(q) ==
    LET entry == cache[ServiceOf(target[q])] IN
    /\ \/ /\ now < entry.expires_at
          /\ Resume(q, "cache_get", "done")
          /\ result' = [result EXCEPT ![q] = entry.result]
       \/ /\ now >= entry.expires_at
          /\ Resume(q, "cache_get", "admit")
          /\ UNCHANGED result
    /\ UNCHANGED <<now, breakerVars, cache, gauge, target, seen, restarts>>

\* Redis is down, or what it holds does not validate.
CacheFails(q) ==
    /\ Resume(q, "cache_get", "done")
    /\ UNCHANGED <<now, breakerVars, cache, gauge, target, seen, result, restarts>>

\* Mutant of Rejects: a caller of an open breaker waits.
Rejects_Waits(q) == FALSE

\* before_request raises CircuitBreakerOpenError.
Rejects(q) ==
    ~MayProbe(breaker[target[q]], ServiceOf(target[q]), now)

Reject(q) ==
    /\ Rejects(q)
    /\ Resume(q, "admit", "done")
    /\ UNCHANGED <<now, breakerVars, cache, gauge, target, seen, result, restarts>>

\* before_request lets the check through; _probe suspends on the validation of
\* the target.  The metrics are not told of the transition to HALF_OPEN.
Admit(q) ==
    LET c == target[q]
        b == before_request(breaker[c]) IN
    /\ Enabled[ServiceOf(c)]
    /\ MayProbe(breaker[c], ServiceOf(c), now)
    /\ Resume(q, "admit", "probe")
    /\ breaker' = [breaker EXCEPT ![c] = b]
    /\ seen' = [seen EXCEPT ![q] = b.state]
    /\ orphaned' = IF breaker[c].state = "OPEN" THEN orphaned \ {c} ELSE orphaned
    /\ UNCHANGED <<now, open_total, opens, cache, gauge, target, result, restarts>>

\* A disabled service is not contacted: _probe returns an unhealthy result
\* without suspending, so the failure is recorded in the step that let it in.
RecordDisabled(q) ==
    LET c == target[q]
        b == before_request(breaker[c]) IN
    /\ ~Enabled[ServiceOf(c)]
    /\ MayProbe(breaker[c], ServiceOf(c), now)
    /\ SetBreaker(c, b, Verdict(c, b, FALSE), b.state)
    /\ seen' = [seen EXCEPT ![q] = b.state]
    /\ Keep(q, c, FALSE)
    /\ AfterVerdict(q, c, "admit")
    /\ UNCHANGED <<now, cache, target, restarts>>

\* Mutant of FromState: the transition is reported from the state left behind.
FromState_Late(q) == Verdict(target[q], breaker[target[q]], FALSE).state

\* The state the transition is reported from: the one before the probe, not
\* the one the verdict is recorded on.
FromState(q) == seen[q]

\* The probe is answered, refused or timed out, and its verdict is recorded on
\* whatever the breaker has become meanwhile.
ProbeReturns(q, healthy) ==
    LET c == target[q] IN
    /\ SetBreaker(c, breaker[c], Verdict(c, breaker[c], healthy), FromState(q))
    /\ Keep(q, c, healthy)
    /\ AfterVerdict(q, c, "probe")
    /\ UNCHANGED <<now, cache, target, seen, restarts>>

\* The cell whose breaker stays HALF_OPEN when its half-open probe q leaves.
Orphans(q) ==
    {c \in {target[q]} : breaker[c].state = "HALF_OPEN" /\ seen[q] = "HALF_OPEN"}

\* An exception other than UnsafeUrlError and httpx.HTTPError leaves check, and
\* the breaker is told nothing.
ProbeRaises(q) ==
    /\ Resume(q, "probe", "done")
    /\ orphaned' = orphaned \cup Orphans(q)
    /\ UNCHANGED <<now, breaker, open_total, opens, cache, gauge, target, seen, result, restarts>>

\* Redis executes the SETEX.
Store(q) ==
    LET s == ServiceOf(target[q]) IN
    cache' = [cache EXCEPT ![s] = [result |-> result[q], expires_at |-> now + CacheTtl[s]]]

StoreResult(q) ==
    /\ Resume(q, "cache_set", "stored")
    /\ Store(q)
    /\ UNCHANGED <<now, breakerVars, gauge, target, seen, result, restarts>>

\* cache.set raises: the verdict stays recorded, the metrics and the event
\* stream never hear of it.  The key may be written all the same.
StoreFails(q) ==
    /\ Resume(q, "cache_set", "done")
    /\ Store(q) \/ UNCHANGED cache
    /\ UNCHANGED <<now, breakerVars, gauge, target, seen, result, restarts>>

\* record_health_check: the gauge gets the state the result carries.
Report(q) ==
    /\ Resume(q, "stored", "publish")
    /\ gauge' = [gauge EXCEPT ![target[q]] = result[q].circuit_state]
    /\ UNCHANGED <<now, breakerVars, cache, target, seen, result, restarts>>

\* The event is published, or publish raises: the caller gets the result or an
\* error, and nothing is undone.
Respond(q) ==
    /\ Resume(q, "publish", "done")
    /\ UNCHANGED <<now, breakerVars, cache, gauge, target, seen, result, restarts>>

-----------------------------------------------------------------------------
(***************************************************************************)
(* trip_circuit_breaker, restarts, time.                                   *)
(***************************************************************************)

\* previous_state, read just before the trip.
TripFrom(c) == breaker[c].state

TripBreaker(q) ==
    LET c == target[q] IN
    /\ q \in Trips
    /\ Resume(q, "lookup", "publish")
    /\ SetBreaker(c, breaker[c], trip(now), TripFrom(c))
    /\ gauge' = [gauge EXCEPT ![c] = "OPEN"]
    /\ UNCHANGED <<now, cache, target, seen, result, restarts>>

Survives(q, r) == pc[q] \notin Suspended \/ ReplicaOf(target[q]) # r

\* A replica is killed and started again: breakers, metrics and the requests it
\* was serving are gone, what Redis holds is not.
Restart(r) ==
    LET Reset(f, v) == [c \in Cells |-> IF ReplicaOf(c) = r THEN v ELSE f[c]] IN
    /\ restarts < MaxRestarts
    /\ restarts' = restarts + 1
    /\ breaker' = Reset(breaker, DefaultSnapshot)
    /\ gauge' = Reset(gauge, Unset)
    /\ open_total' = Reset(open_total, 0)
    /\ opens' = Reset(opens, 0)
    /\ orphaned' = {c \in orphaned : ReplicaOf(c) # r}
    /\ pc' = [q \in Requests |-> IF Survives(q, r) THEN pc[q] ELSE "done"]
    /\ UNCHANGED <<now, cache, target, seen, result>>

Tick ==
    /\ now < MaxTime
    /\ now' = now + 1
    /\ UNCHANGED <<breakerVars, cache, gauge, requestVars, restarts>>

-----------------------------------------------------------------------------
\* A step of q that the event loop and the services behind it make.
Serve(q) ==
    \/ LookupFails(q) \/ LookupCheck(q) \/ TripBreaker(q)
    \/ CacheRead(q) \/ CacheFails(q)
    \/ Reject(q) \/ Admit(q) \/ RecordDisabled(q)
    \/ \E healthy \in BOOLEAN : ProbeReturns(q, healthy)
    \/ ProbeRaises(q)
    \/ StoreResult(q) \/ StoreFails(q)
    \/ Report(q) \/ Respond(q)

Next ==
    \/ \E q \in Requests :
        \/ \E c \in Cells : Arrive(q, c)
        \/ Serve(q)
    \/ \E r \in Replicas : Restart(r)
    \/ Tick

Spec == Init /\ [][Next]_vars

\* The event loop runs every ready coroutine, and each await of a request ends,
\* in an answer, an error or a timeout.
FairSpec == Spec /\ \A q \in Requests : WF_vars(Serve(q))

-----------------------------------------------------------------------------
(***************************************************************************)
(* Properties.                                                             *)
(***************************************************************************)

Probing(q, c) == pc[q] = "probe" /\ target[q] = c

\* The snapshot of every breaker makes sense at every instant, whatever order
\* late verdicts, trips and restarts come in: a CLOSED one is below its failure
\* threshold, a HALF_OPEN one has been open for its whole recovery timeout, and
\* an OPEN one knows since when (circuit_breaker.py:19-71; the fallback
\* `opened_at or now` of line 24 is never needed).
BreakerCoherent ==
    \A c \in Cells : Coherent(breaker[c], ServiceOf(c), now)

\* No breaker is left HALF_OPEN with nobody about to decide: a probe let through
\* in that state is still out, unless one ended in an exception check does not
\* classify (circuit_breaker.py:25-28, health.py:52-58, 105).
HalfOpenHasProber ==
    \A c \in Cells : breaker[c].state = "HALF_OPEN" =>
        \/ c \in orphaned
        \/ \E q \in Checks : Probing(q, c) /\ seen[q] = "HALF_OPEN"

\* Although the transition is reported from a state read before the probe was
\* sent, circuit_breaker_open_total never misses an opening of the breaker
\* (health.py:59, main.py:479-481, metrics.py:172-180).
OpenTotalNeverUndercounts ==
    \A c \in Cells : opens[c] <= open_total[c]

\* circuit_breaker_state says OPEN, and so raises the alert CircuitBreakerOpen
\* (README.md:183), only at a replica whose own breaker has opened since the
\* process started: although other replicas write the cached results it returns,
\* and the gauge is written awaits after the verdict (health.py:44-50, 59-63,
\* main.py:479-481).
AlertsAreReal ==
    \A c \in Cells : gauge[c] = "OPEN" => opens[c] > 0

BlockedUntilRecovery(c) ==
    /\ breaker[c].state = "OPEN"
    /\ now < breaker[c].opened_at + RecoveryTimeout[ServiceOf(c)]

\* An OPEN breaker that no probe is out for stays OPEN until its recovery
\* timeout, short of a restart of its replica (circuit_breaker.py:23-29).
QuietOpenStep ==
    \A c \in Cells :
        (/\ BlockedUntilRecovery(c)
         /\ \A q \in Checks : ~Probing(q, c)
         /\ restarts' = restarts)
        => breaker'[c].state = "OPEN"
QuietOpenHolds == [][QuietOpenStep]_vars

\* The breakers of all replicas as BreakerContract sees them.
Mode == [c \in Cells |-> breaker[c].state]
Until == [c \in Cells |->
            IF breaker[c].opened_at = Never THEN 0
            ELSE breaker[c].opened_at + RecoveryTimeout[ServiceOf(c)]]
Outstanding == [c \in Cells |-> {q \in Checks : Probing(q, c)}]

Contract == INSTANCE BreakerContract WITH
    Probes <- Checks,
    Recovery <- [c \in Cells |-> RecoveryTimeout[ServiceOf(c)]],
    mode <- Mode,
    until <- Until,
    outstanding <- Outstanding

\* Every step of the replicas is a step of the breaker contract, or leaves it
\* alone (circuit_breaker.py:19-71 as health.py:52-58 and main.py:480 use it).
ImplementsContract == Contract!Spec

\* An open circuit rejects requests before recovery, and so is OPEN until then
\* (tests/test_circuit_breaker.py:35).  Not so with concurrent requests, for
\* which the code keeps QuietOpenHolds only.
OpenUntilRecovery ==
    [][\A c \in Cells :
        BlockedUntilRecovery(c) /\ restarts' = restarts => breaker'[c].state = "OPEN"]_vars

\* "Number of times a service circuit breaker entered OPEN state."
\* (metrics.py:56).  Not so with concurrent requests, for which the code keeps
\* OpenTotalNeverUndercounts only.
OpenTotalIsExact ==
    \A c \in Cells : open_total[c] = opens[c]

\* "Current circuit breaker state. CLOSED=0, HALF_OPEN=1, OPEN=2."
\* (metrics.py:109): once no request is out for a cell, its gauge, where it was
\* ever set, is the state of its breaker.  Not so when a check ends without its
\* report, as one does whose half-open probe raises.
GaugeMatchesAtRest ==
    \A c \in Cells :
        (gauge[c] # Unset /\ \A q \in InFlight : target[q] # c)
        => gauge[c] = breaker[c].state

\* Every request that arrives is answered: no path through check or the trip
\* handler waits for anything but its own awaits (health.py:41-81,
\* main.py:475-490).
EveryRequestAnswered ==
    \A q \in Requests : pc[q] = "lookup" ~> pc[q] = "done"
=============================================================================
