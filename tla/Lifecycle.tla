----------------------------- MODULE Lifecycle ------------------------------
(***************************************************************************)
(* The life of one application process: its settings (app/config.py), the  *)
(* tracing set up when app/main.py is imported (app/tracing.py), build_state *)
(* and lifespan (app/main.py) with the resources they open and close, and  *)
(* GET /ready, which asks one dependency after the other.  Dependencies    *)
(* come and go, and the process is stopped, killed and started again.      *)
(***************************************************************************)
EXTENDS Naturals, Sequences

CONSTANTS
    Environments,   \* the environments of the process: its variables
    Installations,  \* the sets of OpenTelemetry packages that may be installed
    Probes,         \* concurrent requests to /ready
    MaxFlips,       \* bound: changes of the dependencies
    MaxFaults,      \* bound: checks that fail although the dependency is up
    MaxStops        \* bound: times the process is stopped or killed

Dependencies == {"postgres", "redis", "celery_broker"}
Packages == {"sdk", "fastapi", "clients", "celery", "sqlalchemy"}
Urls == {"DATABASE_URL", "REDIS_URL", "CELERY_BROKER_URL"}
Flags == {"OTEL_ENABLED", "RATE_LIMIT_ENABLED"}

\* What the values of variables are told apart by.
Environment ==
    [url : [Urls -> {"unset", "empty", "malformed", "good"}],
     flag : [Flags -> {"unset", "true", "other"}],
     ENVIRONMENT : {"unset", "known", "unknown"}, LOG_LEVEL : {"unset", "known", "unknown"},
     numbers : {"unset", "positive", "not positive", "no number"}]

ASSUME LifecycleAssumption ==
    /\ Environments \subseteq Environment
    /\ Installations \subseteq SUBSET Packages
    /\ MaxFlips \in Nat /\ MaxFaults \in Nat /\ MaxStops \in Nat

VARIABLES
    env,        \* the environment the process is started in
    installed,  \* the packages installed
    phase,      \* how far the process has come
    traced,     \* the trace provider, and what is instrumented: FastAPI, HTTP and Redis
                \* clients, Celery, the engine
    held,       \* the resources that are open
    closing,    \* how many resources lifespan has closed
    up,         \* the dependencies the process reaches
    flips,      \* changes of up
    faults,     \* checks that failed although the dependency was up
    stops,      \* times the process was stopped or killed
    probe       \* the requests to /ready

processVars == <<phase, traced, held, closing>>
surroundings == <<env, installed, up, flips>>
world == <<surroundings, faults>>
vars == <<world, processVars, stops, probe>>

-----------------------------------------------------------------------------
(***************************************************************************)
(* Settings and tracing.                                                   *)
(***************************************************************************)

\* get_settings raises for an unknown ENVIRONMENT and for numbers that are none
\* or not positive.
Readable(e) == e.ENVIRONMENT # "unknown" /\ e.numbers \in {"unset", "positive"}

\* Settings: an empty URL is None, an unset flag has its default.  Nothing looks
\* at what a URL or LOG_LEVEL says.
Settings(e) ==
    [url |-> {u \in Urls : e.url[u] \in {"malformed", "good"}},
     otel_enabled |-> e.flag["OTEL_ENABLED"] = "true",
     rate_limit_enabled |-> e.flag["RATE_LIMIT_ENABLED"] \in {"unset", "true"}]

\* The URLs an engine or a client can be made of.
Wellformed(e) == {u \in Urls : e.url[u] = "good"}

\* A process can start and get ready in this environment.
Sound(e) == Readable(e) /\ e.LOG_LEVEL # "unknown" /\ Wellformed(e) = Urls

\* _configure_trace_provider registers a provider.
HasProvider(settings) == settings.otel_enabled /\ "sdk" \in installed

\* Mutant of Configured: the trace provider alone is enough.
Configured_ByProvider(settings) == HasProvider(settings)

\* _tracing_configured, after configure_tracing.
Configured(settings) == HasProvider(settings) /\ "fastapi" \in installed

\* configure_tracing instruments FastAPI first, and then what it has packages for;
\* without the package for FastAPI the provider stays, for nothing.
Instrumented(settings) ==
    {part \in {"provider"} : HasProvider(settings)}
    \cup {part \in installed \cap {"fastapi", "clients", "celery"} : Configured(settings)}

\* instrument_sqlalchemy_engine.
EngineTraced(settings) ==
    IF Configured(settings) /\ "sqlalchemy" \in installed THEN {"engine"} ELSE {}

-----------------------------------------------------------------------------
(***************************************************************************)
(* /ready.                                                                 *)
(***************************************************************************)

\* The checks of /ready, in their order.
CheckOrder == <<"postgres", "redis", "celery_broker">>

\* The variable with the URL of a dependency.
UrlOf(d) == CASE d = "postgres" -> "DATABASE_URL"
              [] d = "redis" -> "REDIS_URL"
              [] d = "celery_broker" -> "CELERY_BROKER_URL"

\* Dependencies no check can pass for: their clients, made of the URL when they
\* are needed, raise.
Unusable == {d \in Dependencies : UrlOf(d) \notin Wellformed(env)}

\* A request to /ready: the check under way (0: no request), those that passed,
\* and the status of the response.
\* History: what was up, and what was down, at some time since it arrived, and
\* the checks that failed for reasons of their own.
Asked(i, ok, status, wasUp, wasDown, raised) ==
    [at |-> i, ok |-> ok, status |-> status,
     wasUp |-> wasUp, wasDown |-> wasDown, raised |-> raised]

NoProbe == Asked(0, {}, 0, {}, {}, {})

Pending(r) == probe[r].at \in 1 .. Len(CheckOrder)

TypeOK ==
    /\ env \in Environments /\ installed \in Installations
    /\ phase \in {"import", "build", "init", "inventory", "serving", "close", "stopped", "failed"}
    /\ traced \subseteq {"provider", "fastapi", "clients", "celery", "engine"}
    /\ held \subseteq {"repository", "http_client", "rate_limiter", "cache"}
    /\ closing \in 0 .. 5
    /\ up \subseteq Dependencies
    /\ flips \in 0 .. MaxFlips /\ faults \in 0 .. MaxFaults /\ stops \in 0 .. MaxStops
    /\ probe \in [Probes -> [at : 0 .. Len(CheckOrder) + 1, ok : SUBSET Dependencies,
                             status : {0, 200, 503},
                             wasUp : SUBSET Dependencies, wasDown : SUBSET Dependencies,
                             raised : SUBSET Dependencies]]
    /\ (\E r \in Probes : Pending(r)) => phase = "serving"

Init ==
    /\ env \in Environments /\ installed \in Installations
    /\ phase = "import" /\ traced = {} /\ held = {} /\ closing = 0
    /\ up \in SUBSET Dependencies
    /\ flips = 0 /\ faults = 0 /\ stops = 0
    /\ probe = [r \in Probes |-> NoProbe]

Enter(from, to) == phase = from /\ phase' = to

\* A check raises although what it asks is up: the pool of connections may be
\* exhausted, or an answer late.
MayRaise(raises) ==
    /\ raises => faults < MaxFaults
    /\ faults' = IF raises THEN faults + 1 ELSE faults

-----------------------------------------------------------------------------
(***************************************************************************)
(* Startup and shutdown.                                                   *)
(***************************************************************************)

\* app/main.py is imported: settings are read, tracing is configured.
Import ==
    /\ Enter("import", IF Readable(env) THEN "build" ELSE "failed")
    /\ traced' = IF Readable(env) THEN Instrumented(Settings(env)) ELSE {}
    /\ UNCHANGED <<held, closing, world, stops, probe>>

\* lifespan sets the level of the log, and build_state makes the engine and, with
\* all URLs there, the HTTP client.  An unknown level and a URL no engine can be
\* made of raise; the other URLs are not looked at before they are needed.
Build ==
    LET url == Settings(env).url
        engine == env.LOG_LEVEL # "unknown" /\ "DATABASE_URL" \in url \cap Wellformed(env)
        state == engine /\ url = Urls IN
    /\ Enter("build", IF state THEN "init" ELSE "failed")
    /\ held' = {r \in {"repository"} : engine} \cup {r \in {"http_client"} : state}
    /\ traced' = IF engine THEN traced \cup EngineTraced(Settings(env)) ELSE traced
    /\ UNCHANGED <<closing, world, stops, probe>>

\* repository.init opens a connection; when that fails the startup does.
ConnectDatabase(raises) ==
    /\ MayRaise(raises)
    /\ Enter("init", IF "postgres" \in up /\ ~raises THEN "inventory" ELSE "failed")
    /\ UNCHANGED <<traced, held, closing, surroundings, stops, probe>>

\* _record_service_inventory, whether the list can be read or not.
Started ==
    /\ Enter("inventory", "serving")
    /\ UNCHANGED <<traced, held, closing, world, stops, probe>>

\* A request opens the Redis client of the cache or, where rate limiting is
\* enabled, of the limiter, unless it is open.
OpenClient(c) ==
    /\ phase = "serving"
    /\ "REDIS_URL" \in Wellformed(env)
    /\ c = "rate_limiter" => Settings(env).rate_limit_enabled
    /\ held' = held \cup {c}
    /\ UNCHANGED <<phase, traced, closing, world, stops, probe>>

\* Mutant of Shutdown: the server does not wait.
Shutdown_Hurried ==
    /\ Enter("serving", "close")
    /\ stops < MaxStops /\ stops' = stops + 1
    /\ UNCHANGED <<traced, held, closing, world, probe>>

\* The server has waited for the requests under way and ends the lifespan.
Shutdown ==
    /\ \A r \in Probes : ~Pending(r)
    /\ Enter("serving", "close")
    /\ stops < MaxStops /\ stops' = stops + 1
    /\ UNCHANGED <<traced, held, closing, world, probe>>

\* What lifespan closes, in its order.
CloseOrder == <<"events", "http_client", "rate_limiter", "cache", "repository">>

\* Mutant of Closed: a client that was opened late is not closed.
Closed_Eager(resource) == {resource} \ {"cache", "rate_limiter"}

\* What the close of a resource releases: its client, if it was opened.
Closed(resource) == {resource}

\* The next resource is closed.
CloseNext ==
    /\ Enter("close", IF closing + 1 = Len(CloseOrder) THEN "stopped" ELSE "close")
    /\ closing' = closing + 1
    /\ held' = held \ Closed(CloseOrder[closing + 1])
    /\ UNCHANGED <<traced, world, stops, probe>>

\* A close raises and ends the finally clause; the one of the events, and of what
\* was never opened, does nothing.
CloseFails ==
    /\ Enter("close", "failed")
    /\ CloseOrder[closing + 1] \in held
    /\ UNCHANGED <<traced, held, closing, world, stops, probe>>

\* The process is killed.
Kill ==
    /\ phase \notin {"stopped", "failed"}
    /\ stops < MaxStops /\ stops' = stops + 1
    /\ phase' = "failed" /\ held' = {} /\ closing' = 0
    /\ probe' = [r \in Probes |-> NoProbe]
    /\ UNCHANGED <<traced, world>>

\* A process that ended is replaced by a new one.
Restart ==
    /\ phase \in {"stopped", "failed"}
    /\ phase' = "import" /\ traced' = {} /\ held' = {} /\ closing' = 0
    /\ UNCHANGED <<world, stops, probe>>

-----------------------------------------------------------------------------

\* A dependency comes or goes, seen by the requests under way.
Flip(d) ==
    /\ flips < MaxFlips /\ flips' = flips + 1
    /\ up' = IF d \in up THEN up \ {d} ELSE up \cup {d}
    /\ probe' = [r \in Probes |-> LET p == probe[r] IN
        IF ~Pending(r) THEN p
        ELSE Asked(p.at, p.ok, p.status, p.wasUp \cup up', p.wasDown \cup (Dependencies \ up'),
                   p.raised)]
    /\ UNCHANGED <<env, installed, faults, processVars, stops>>

\* A request to /ready arrives.
Ask(r) ==
    /\ phase = "serving" /\ ~Pending(r)
    /\ probe' = [probe EXCEPT ![r] = Asked(1, {}, 0, up, Dependencies \ up, {})]
    /\ UNCHANGED <<world, processVars, stops>>

\* Mutant of Pinged: the second check asks the database again.
Pinged_Database(d) == IF d = "redis" THEN "postgres" ELSE d

\* The dependency a check asks.
Pinged(d) == d

\* Mutant of EnsuredBy: ping uses the client another request has opened.
EnsuredBy_Others(d) == {}

\* cache.ping opens the Redis client of the cache.
EnsuredBy(d) == {c \in {"cache"} : d = "redis" /\ d \notin Unusable}

\* _check_dependency: the check returns, or raises and the dependency is
\* unavailable.  After the last one the request is answered.
Check(r, raises) ==
    LET p == probe[r]
        d == CheckOrder[p.at]
        passes == /\ Pinged(d) \in up /\ d \notin Unusable /\ ~raises
                  /\ d = "redis" => "cache" \in held'
        ok == IF passes THEN p.ok \cup {d} ELSE p.ok
        answer == IF ok = Dependencies THEN 200 ELSE 503 IN
    /\ Pending(r) /\ MayRaise(raises)
    /\ held' = held \cup EnsuredBy(d)
    /\ probe' = [probe EXCEPT ![r] =
        Asked(p.at + 1, ok, IF p.at = Len(CheckOrder) THEN answer ELSE 0, p.wasUp, p.wasDown,
              IF raises THEN p.raised \cup {d} ELSE p.raised)]
    /\ UNCHANGED <<surroundings, phase, traced, closing, stops>>

Next ==
    \/ Import \/ Build \/ Started
    \/ \E raises \in BOOLEAN : ConnectDatabase(raises)
    \/ \E c \in {"cache", "rate_limiter"} : OpenClient(c)
    \/ Shutdown \/ CloseNext \/ CloseFails \/ Kill \/ Restart
    \/ \E d \in Dependencies : Flip(d)
    \/ \E r \in Probes : Ask(r) \/ \E raises \in BOOLEAN : Check(r, raises)

Spec == Init /\ [][Next]_vars

\* The process goes on, one that ended is replaced, and readiness is asked for
\* again and again.
Fairness ==
    /\ WF_vars(Import) /\ WF_vars(Build) /\ WF_vars(Started)
    /\ WF_vars(\E raises \in BOOLEAN : ConnectDatabase(raises))
    /\ WF_vars(CloseNext \/ CloseFails) /\ WF_vars(Restart)
    /\ \A r \in Probes : WF_vars(Ask(r)) /\ WF_vars(\E raises \in BOOLEAN : Check(r, raises))

FairSpec == Spec /\ Fairness

-----------------------------------------------------------------------------
(***************************************************************************)
(* Properties.                                                             *)
(***************************************************************************)

\* What /ready says of a dependency was true at some time since the request
\* arrived, unless its check raised for a reason of its own or its URL is of no
\* use, and it answers 200 only if all were up at some such time
\* (main.py:411-434).  Nothing says that they were up at the same time.
ReadinessWasTrue ==
    \A r \in Probes : LET p == probe[r] IN
        /\ p.ok \subseteq p.wasUp
        /\ p.status # 0 => Dependencies \ p.ok \subseteq p.wasDown \cup p.raised \cup Unusable
        /\ p.status = 200 => p.ok = Dependencies

\* Shutdown closes one resource after the other, those the requests opened late
\* among them: nothing before the one that raised stays open, and nothing at all
\* when none did (main.py:116-123).
ClosedInOrder ==
    /\ \A k \in 1 .. closing : CloseOrder[k] \notin held
    /\ phase = "stopped" => held = {}

\* Whatever packages are missing, nothing is instrumented without the provider
\* its spans go to and the application whose requests they belong to, and the
\* engine, which is made long after the import that configures tracing, is
\* instrumented if its package allows.  Clients, Celery and the engine are each
\* left out where their package is missing, and the provider may be there for
\* nothing (main.py:126-127, tracing.py:19-58, 69-116, database.py:15-19).
NothingTracedAlone ==
    /\ traced \ {"provider"} # {} => {"provider", "fastapi"} \subseteq traced
    /\ phase = "serving" =>
        ("engine" \in traced <=> "fastapi" \in traced /\ "sqlalchemy" \in installed)

\* A process with a sound environment gets ready once its dependencies stay up and
\* checks fail for no other reasons any more, however often it failed to start,
\* was killed or stopped before: failed starts are tried again, and a first ping
\* opens the client it needs (main.py:105-118, 411-434, cache.py:53-56).
EventuallyReady ==
    <>[](up = Dependencies) /\ Sound(env)
        => <>(\E r \in Probes : probe[r].status = 200)
=============================================================================
