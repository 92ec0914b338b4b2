---------------------------- MODULE RateLimiting ----------------------------
(***************************************************************************)
(* Application rate limiting: rate_limit_middleware and the endpoint rate  *)
(* limit dependencies (app/main.py), over the token buckets that all       *)
(* replicas share in Redis (app/rate_limiter.py).                          *)
(*                                                                         *)
(* A request that is not exempt takes a token from the global bucket of    *)
(* its client and, for an endpoint with a limit of its own, then one from  *)
(* the client's bucket for that endpoint.  Each is one awaited script.     *)
(* Redis runs scripts one at a time, whatever replica they come from, so   *)
(* it does not matter which replica serves a request.                      *)
(***************************************************************************)
EXTENDS TokenBucket

CONSTANTS
    Requests,       \* places for requests being served
    Clients,        \* identifiers _rate_limit_client_id tells apart
    Endpoints,      \* scopes of the endpoints with a limit of their own
    WithBody,       \* those of them that take a body
    Limit,          \* requests per window, by scope
    FailOpen,       \* RateLimitPolicy.fail_open
    MaxTime,        \* bound on the time that passes
    MaxStepBacks    \* bound on the times the clock of Redis is set back

Global == "global"
Exempt == "exempt"
Scopes == {Global} \cup Endpoints

ASSUME LimitAssumption ==
    /\ Clients # {}
    /\ Endpoints \cap {Global, Exempt} = {} /\ WithBody \subseteq Endpoints
    /\ Limit \in [Scopes -> Nat \ {0}]
    /\ FailOpen \in BOOLEAN
    /\ MaxTime \in Nat /\ MaxStepBacks \in Nat

Keys == Clients \X Scopes
LimitOf(k) == Limit[k[2]]

\* What a request is: exempt, limited globally only, or for a limited endpoint.
Kinds == Scopes \cup {Exempt}

NoDecision == [allowed |-> FALSE, limit |-> 0, remaining |-> 0,
               retry_after_seconds |-> 0, reset_at |-> 0]
NoResponse == [status |-> 0, headers |-> NoDecision]

VARIABLES
    clock,          \* what TIME tells, in milliseconds
    bucket,         \* the Redis key of a bucket
    pc,             \* the await a request is suspended at
    client,         \* the client of a request
    kind,           \* the kind of a request
    given,          \* the decision of the global check
    endpoint_given, \* request.state.endpoint_rate_limit_decision
    unavailable,    \* request.state.rate_limit_backend_unavailable
    response,       \* the response of a request
    stepbacks,      \* how often the clock was set back
    elapsed,        \* history: the milliseconds the clock went forward
    since,          \* history: tokens a bucket gave from a time of elapsed on,
                    \* and since it was last lost
    promised,       \* history: when a refused client may expect a token
    full_at,        \* history: the reset time last told, in milliseconds
    paid            \* history: the scopes that gave a request a token

requestVars == <<pc, client, kind, given, endpoint_given, unavailable, response, paid>>
bucketVars == <<bucket, since, promised, full_at>>
clockVars == <<clock, stepbacks, elapsed>>
vars == <<requestVars, bucketVars, clockVars>>

Times == 0 .. MaxTime
Never == -1

RequestsTyped ==
    /\ pc \in [Requests -> {"idle", "global", "endpoint", "handler", "done"}]
    /\ client \in [Requests -> Clients]
    /\ kind \in [Requests -> Kinds]
    /\ \A q \in Requests : pc[q] = "endpoint" => kind[q] \in Endpoints
    /\ given \in [Requests -> RateLimitDecision]
    /\ endpoint_given \in [Requests -> RateLimitDecision]
    /\ unavailable \in [Requests -> BOOLEAN]
    /\ response \in [Requests -> [status : {0, 200, 429, 500, 503}, headers : RateLimitDecision]]
    /\ paid \in [Requests -> SUBSET Scopes]

BucketsTyped ==
    /\ bucket \in [Keys -> Bucket]
    /\ since \in [Keys -> [Times -> Nat]]
    /\ promised \in [Keys -> Nat \cup {Never}]
    /\ full_at \in [Keys -> Nat]

ClockTyped == clock \in Nat /\ elapsed \in Times /\ stepbacks \in Nat

TypeOK == RequestsTyped /\ BucketsTyped /\ ClockTyped

Init ==
    /\ clock = 0 /\ elapsed = 0 /\ stepbacks = 0
    /\ bucket = [k \in Keys |-> NoKey]
    /\ pc = [q \in Requests |-> "idle"]
    /\ client = [q \in Requests |-> CHOOSE c \in Clients : TRUE]
    /\ kind = [q \in Requests |-> Exempt]
    /\ given = [q \in Requests |-> NoDecision]
    /\ endpoint_given = [q \in Requests |-> NoDecision]
    /\ unavailable = [q \in Requests |-> FALSE]
    /\ response = [q \in Requests |-> NoResponse]
    /\ paid = [q \in Requests |-> {}]
    /\ since = [k \in Keys |-> [t \in Times |-> 0]]
    /\ promised = [k \in Keys |-> Never]
    /\ full_at = [k \in Keys |-> 0]

-----------------------------------------------------------------------------
(***************************************************************************)
(* One check.                                                              *)
(***************************************************************************)

Decide(k) == Decision(bucket[k], LimitOf(k), clock)

\* Redis runs the script on k.
RunScript(k) ==
    LET d == Decide(k)
        retry_at == elapsed + d.retry_after_seconds * Second IN
    /\ bucket' = [bucket EXCEPT ![k] = Checked(bucket[k], LimitOf(k), clock)]
    /\ full_at' = [full_at EXCEPT ![k] = d.reset_at * Second]
    /\ since' = IF d.allowed
                THEN [since EXCEPT ![k] = [t \in Times |-> @[t] + IF t <= elapsed THEN 1 ELSE 0]]
                ELSE since
    /\ promised' = [promised EXCEPT ![k] =
                        IF d.allowed THEN Never
                        ELSE IF @ = Never THEN retry_at ELSE Least(@, retry_at)]

Resume(q, from, to) ==
    /\ pc[q] = from
    /\ pc' = [pc EXCEPT ![q] = to]

Respond(q, status, headers) ==
    response' = [response EXCEPT ![q] = [status |-> status, headers |-> headers]]

Pay(q, scope, d) ==
    paid' = [paid EXCEPT ![q] = IF d.allowed THEN @ \cup {scope} ELSE @]

\* Mutant of Headers: the global decision overwrites the headers already set.
Headers_GlobalLast(global_decision, endpoint_decision) == global_decision

\* The rate limit headers the middleware leaves on a response: those of the
\* endpoint check if there was one, else those of the global check.
Headers(global_decision, endpoint_decision) ==
    IF endpoint_decision # NoDecision THEN endpoint_decision ELSE global_decision

\* Mutant of LetsThrough: the failure policy is not looked at.
LetsThrough_Always == TRUE

\* Whether a request whose check failed is let through.
LetsThrough == FailOpen

-----------------------------------------------------------------------------
(***************************************************************************)
(* A request.                                                              *)
(***************************************************************************)

\* The middleware starts a request; an exempt one goes to its handler at once.
Arrive(q, c, k) ==
    /\ Resume(q, "idle", IF k = Exempt THEN "handler" ELSE "global")
    /\ client' = [client EXCEPT ![q] = c]
    /\ kind' = [kind EXCEPT ![q] = k]
    /\ UNCHANGED <<given, endpoint_given, unavailable, response, paid, bucketVars, clockVars>>

\* Mutant of AfterGlobal: the dependency of the route is missing.
AfterGlobal_NoDependency(q, failed) == "handler"

\* Mutant of AfterGlobal: the dependency does not look at the flag.
AfterGlobal_IgnoresOutage(q, failed) == IF kind[q] \in Endpoints THEN "endpoint" ELSE "handler"

\* The dependency of a limited route makes another check, unless the flag says
\* that the global one failed.
AfterGlobal(q, failed) ==
    IF kind[q] \in Endpoints /\ ~failed THEN "endpoint" ELSE "handler"

\* The global check is answered.
GlobalAnswered(q) ==
    LET k == <<client[q], Global>>
        d == Decide(k) IN
    /\ Resume(q, "global", IF d.allowed THEN AfterGlobal(q, unavailable[q]) ELSE "done")
    /\ RunScript(k)
    /\ given' = [given EXCEPT ![q] = d]
    /\ Pay(q, Global, d)
    /\ IF d.allowed THEN UNCHANGED response ELSE Respond(q, 429, d)
    /\ UNCHANGED <<client, kind, endpoint_given, unavailable, clockVars>>

\* The check of the endpoint is answered.  A refusal leaves the handler as a
\* RateLimitExceededError and passes through the middleware on its way out.
EndpointAnswered(q) ==
    LET k == <<client[q], kind[q]>>
        d == Decide(k) IN
    /\ Resume(q, "endpoint", IF d.allowed THEN "handler" ELSE "done")
    /\ RunScript(k)
    /\ endpoint_given' = [endpoint_given EXCEPT ![q] = d]
    /\ Pay(q, kind[q], d)
    /\ IF d.allowed THEN UNCHANGED response ELSE Respond(q, 429, Headers(given[q], d))
    /\ UNCHANGED <<client, kind, given, unavailable, clockVars>>

\* A body that is not JSON is refused (422) before the dependencies of its route
\* run; a request the flag lets through is refused by its handler, as it were.
BodyRefused(q) ==
    /\ kind[q] \in WithBody
    /\ Resume(q, "endpoint", "done")
    /\ Respond(q, 200, Headers(given[q], endpoint_given[q]))
    /\ UNCHANGED <<client, kind, given, endpoint_given, unavailable, paid, bucketVars, clockVars>>

\* Redis fails a check: before the script ran, or after, its answer lost.
\* With fail_open the request is flagged and goes on to after.
Fails(q, from, after, k) ==
    /\ Resume(q, from, IF LetsThrough THEN after ELSE "done")
    /\ RunScript(k) \/ UNCHANGED bucketVars
    /\ unavailable' = [unavailable EXCEPT ![q] = LetsThrough]
    /\ UNCHANGED <<client, kind, given, endpoint_given, paid, clockVars>>

GlobalFails(q) ==
    /\ Fails(q, "global", AfterGlobal(q, TRUE), <<client[q], Global>>)
    /\ IF LetsThrough THEN UNCHANGED response ELSE Respond(q, 503, NoDecision)

EndpointFails(q) ==
    /\ Fails(q, "endpoint", "handler", <<client[q], kind[q]>>)
    /\ IF LetsThrough THEN UNCHANGED response
       ELSE Respond(q, 503, Headers(given[q], NoDecision))

\* The handler, or the error handler for an AppError it raised, has a response.
HandlerReturns(q) ==
    /\ Resume(q, "handler", "done")
    /\ Respond(q, 200, Headers(given[q], endpoint_given[q]))
    /\ UNCHANGED <<client, kind, given, endpoint_given, unavailable, paid, bucketVars, clockVars>>

\* Any other exception passes the middleware by: the response made of it in the
\* end has no rate limit headers.
HandlerRaises(q) ==
    /\ Resume(q, "handler", "done")
    /\ Respond(q, 500, NoDecision)
    /\ UNCHANGED <<client, kind, given, endpoint_given, unavailable, paid, bucketVars, clockVars>>

\* The response is sent, and the place is free for another request.
Leave(q) ==
    /\ Resume(q, "done", "idle")
    /\ kind' = [kind EXCEPT ![q] = Exempt]
    /\ given' = [given EXCEPT ![q] = NoDecision]
    /\ endpoint_given' = [endpoint_given EXCEPT ![q] = NoDecision]
    /\ unavailable' = [unavailable EXCEPT ![q] = FALSE]
    /\ response' = [response EXCEPT ![q] = NoResponse]
    /\ paid' = [paid EXCEPT ![q] = {}]
    /\ UNCHANGED <<client, bucketVars, clockVars>>

-----------------------------------------------------------------------------
(***************************************************************************)
(* Redis and its clock.                                                    *)
(***************************************************************************)

\* Redis drops a key whose time has come.
Expire(k) ==
    /\ bucket[k] # NoKey /\ ~Exists(bucket[k], clock)
    /\ bucket' = [bucket EXCEPT ![k] = NoKey]
    /\ UNCHANGED <<requestVars, since, promised, full_at, clockVars>>

\* Redis restarts without the key, or evicts it: the next check starts from a
\* full bucket, and what was given before does not count.
Lose(k) ==
    /\ bucket[k] # NoKey
    /\ bucket' = [bucket EXCEPT ![k] = NoKey]
    /\ since' = [since EXCEPT ![k] = [t \in Times |-> 0]]
    /\ UNCHANGED <<requestVars, promised, full_at, clockVars>>

Tick ==
    /\ elapsed < MaxTime
    /\ clock' = clock + 1
    /\ elapsed' = elapsed + 1
    /\ UNCHANGED <<requestVars, bucketVars, stepbacks>>

\* The wall clock of the Redis host is set back to time.  Whoever was promised
\* a token may have to wait longer.
StepBack(time) ==
    /\ stepbacks < MaxStepBacks
    /\ clock' = time
    /\ stepbacks' = stepbacks + 1
    /\ promised' = [k \in Keys |-> Never]
    /\ UNCHANGED <<requestVars, bucket, since, full_at, elapsed>>

Next ==
    \/ \E q \in Requests :
        \/ \E c \in Clients, k \in Kinds : Arrive(q, c, k)
        \/ GlobalAnswered(q) \/ EndpointAnswered(q)
        \/ GlobalFails(q) \/ EndpointFails(q)
        \/ BodyRefused(q) \/ HandlerReturns(q) \/ HandlerRaises(q) \/ Leave(q)
    \/ \E k \in Keys : Expire(k) \/ Lose(k)
    \/ Tick
    \/ \E time \in 0 .. (clock - 1) : StepBack(time)

Spec == Init /\ [][Next]_vars

-----------------------------------------------------------------------------
(***************************************************************************)
(* Properties.                                                             *)
(***************************************************************************)

\* In every stretch of time, from any instant to now, a bucket gives at most
\* its capacity and what it gains in that stretch.  Neither the expiry of its
\* key nor a clock that is set back gives a client one token more, and a key
\* that is lost no more than one capacity from then on (rate_limiter.py:84-101).
GrantsBounded ==
    \A k \in Keys, t \in 0 .. elapsed :
        since[k][t] * WindowMs <= Full(LimitOf(k)) + LimitOf(k) * (elapsed - t)

\* A client that was refused and waits for Retry-After is not refused again by
\* that bucket, unless another request took the token, or the clock was set
\* back, be the bucket lost or not; by X-RateLimit-Reset the bucket is full (rate_limiter.py:96-99, 143-144).
AdviceHolds ==
    \A k \in Keys :
        /\ (promised[k] # Never /\ elapsed >= promised[k])
            => Allows(bucket[k], LimitOf(k), clock)
        /\ clock >= full_at[k]
            => Credit(bucket[k], LimitOf(k), clock) = Full(LimitOf(k))

ScopesOf(q) == IF kind[q] = Exempt THEN {} ELSE {Global, kind[q]}

\* A handler runs only for a request that was given a token by every scope it
\* is subject to, or, with fail_open, one for which Redis failed
\* (main.py:142-158, 276-282, 291-305).
HandlerIsPaidFor ==
    \A q \in Requests :
        pc[q] = "handler" => \/ ScopesOf(q) \subseteq paid[q]
                             \/ FailOpen /\ unavailable[q]

\* With fail_open an outage of Redis refuses nobody: a request for which one check
\* failed gets no other check, which could still refuse it or fail, takes no token
\* of its endpoint, and is answered by its handler (main.py:262-267, 291-296;
\* tests/test_api.py:225, "keeps the API available").
OutagesLetThrough ==
    \A q \in Requests : unavailable[q] =>
        response[q].status \notin {429, 503} /\ kind[q] \notin paid[q]

\* "Successful limited responses include X-RateLimit-Limit, ..." and "Rejected
\* requests return HTTP 429 [...] and Retry-After" (README.md:214-215): the
\* headers are those of the narrowest scope that decided on the request, and a
\* refusal has the refusing scope's: no tokens left, at least a second to wait.
HeadersFitResponse ==
    \A q \in Requests : pc[q] = "done" =>
        LET h == response[q].headers IN
        /\ response[q].status = 429 =>
            /\ ~h.allowed /\ h.remaining = 0 /\ h.retry_after_seconds >= 1
        /\ response[q].status = 200 =>
            /\ (paid[q] # {}) = h.allowed
            /\ kind[q] \in paid[q] => h.limit = Limit[kind[q]]
=============================================================================
