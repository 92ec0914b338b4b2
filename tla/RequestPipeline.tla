--------------------------- MODULE RequestPipeline --------------------------
(***************************************************************************)
(* An HTTP request from its arrival to its response, through the layers of *)
(* app/main.py around what RateLimiting models: the correlation ID, kept   *)
(* in a ContextVar for the log lines (app/logging_config.py) and returned  *)
(* in a header, the route by which it is labelled, and the metrics of HTTP *)
(* requests and of rate limit decisions (app/metrics.py).                  *)
(*                                                                         *)
(* correlation_id_middleware is outside rate_limit_middleware, which is    *)
(* outside the router.  Every step here is one of RateLimiting with what   *)
(* the other layers do in it; Finish is the one the outer layer adds.      *)
(***************************************************************************)
EXTENDS RateLimiting, FiniteSets

CONSTANTS
    Targets,        \* kinds of method and path
    Matches,        \* how the routes, in their order, match a target
    ExemptTargets,  \* OPTIONS, and the paths of RATE_LIMIT_EXEMPT_PATHS
    Limited,        \* the scope of a route with a limit of its own
    CallerIds,      \* correlation IDs a caller may send and that are accepted
    NoId,           \* no correlation ID
    Peers,          \* what request.client.host may be
    Forwarded,      \* what X-Forwarded-For may begin with: addresses or not
    TrustForwarded, \* RateLimitPolicy.trust_forwarded_for
    MaxRequests     \* bound on the requests that arrive

Match == {"full", "partial", "none"}
Routes == UNION {DOMAIN Matches[t] : t \in Targets}
Unmatched == 0
Labels == Routes \cup {Unmatched}

\* uuid4().
Generated(q) == <<"uuid4", q>>
Ids == CallerIds \cup {Generated(q) : q \in Requests}

ASSUME PipelineAssumption ==
    /\ \A t \in Targets : Matches[t] \in [Routes -> Match] /\ Routes \subseteq Nat \ {0}
    /\ Targets # {} /\ ExemptTargets \subseteq Targets
    /\ DOMAIN Limited \subseteq Routes /\ \A r \in DOMAIN Limited : Limited[r] \in Endpoints
    /\ Peers \subseteq Clients
    /\ NoId \notin Ids
    /\ MaxRequests \in Nat

\* A scope names its route (_enforce_endpoint_rate_limit).
ASSUME ScopeAssumption ==
    \A r, s \in DOMAIN Limited : Limited[r] = Limited[s] => r = s

ASSUME FiniteAssumption ==
    /\ IsFiniteSet(Targets) /\ IsFiniteSet(Routes)
    /\ IsFiniteSet(Requests) /\ IsFiniteSet(Endpoints)

VARIABLES
    arrived,    \* the requests that have arrived, by target
    target,     \* the target of a request
    id,         \* the correlation ID of a request
    context,    \* the ContextVar _correlation_id in the task of a request
    header,     \* X-Correlation-ID in its response
    finished,   \* whether correlation_id_middleware is through with it
    http,       \* http_requests, by label and status
    decisions   \* rate_limit_decisions and rate_limit_backend_errors, by scope

pipelineVars == <<arrived, target, id, context, header, finished, http, decisions>>
allVars == <<vars, pipelineVars>>

Statuses == {200, 429, 500, 503}
Outcomes == {"allowed", "rejected", "error"}

PipelineTypeOK ==
    /\ TypeOK
    /\ arrived \in [Targets -> 0 .. MaxRequests]
    /\ target \in [Requests -> Targets]
    /\ id \in [Requests -> Ids \cup {NoId}]
    /\ context \in [Requests -> Ids \cup {NoId}]
    /\ header \in [Requests -> Ids \cup {NoId}]
    /\ finished \in [Requests -> BOOLEAN]
    /\ http \in [Labels \X Statuses -> 0 .. MaxRequests]
    /\ decisions \in [Scopes \X Outcomes -> 0 .. MaxRequests]

\* Of no request.
SomeTarget == CHOOSE t \in Targets : TRUE

PipelineInit ==
    /\ Init
    /\ arrived = [t \in Targets |-> 0]
    /\ target = [q \in Requests |-> SomeTarget]
    /\ id = [q \in Requests |-> NoId]
    /\ context = [q \in Requests |-> NoId]
    /\ header = [q \in Requests |-> NoId]
    /\ finished = [q \in Requests |-> FALSE]
    /\ http = [c \in Labels \X Statuses |-> 0]
    /\ decisions = [c \in Scopes \X Outcomes |-> 0]

-----------------------------------------------------------------------------
(***************************************************************************)
(* What the layers make of a request.                                      *)
(***************************************************************************)

FirstMatch(t, how) ==
    LET found == {r \in Routes : Matches[t][r] = how} IN
    IF found = {} THEN Unmatched ELSE CHOOSE r \in found : \A other \in found : r <= other

\* Mutant of RoutePath: routes that match but for the method are not looked at.
RoutePath_FullOnly(t) == FirstMatch(t, "full")

\* _route_path: the route the router chose or, if the request did not get there,
\* would have chosen: the first that matches, or else matches but for the method.
RoutePath(t) ==
    IF FirstMatch(t, "full") # Unmatched THEN FirstMatch(t, "full") ELSE FirstMatch(t, "partial")

\* What rate limiting makes of it.
KindOf(t) ==
    IF t \in ExemptTargets THEN Exempt
    ELSE IF FirstMatch(t, "full") \in DOMAIN Limited THEN Limited[FirstMatch(t, "full")]
    ELSE Global

\* _rate_limit_client_id.
ClientId(peer, forwarded) ==
    IF TrustForwarded /\ forwarded \in Clients THEN forwarded ELSE peer

\* _request_correlation_id.
CorrelationId(q, sent) == IF sent \in CallerIds THEN sent ELSE Generated(q)

\* Mutant of InContext: a variable of the module instead of a ContextVar.
InContext_Global(q, value) == [p \in Requests |-> value]

\* The ContextVar, set in the task of q.
InContext(q, value) == [context EXCEPT ![q] = value]

\* The sum of the counters f over S, as the number of single counts.
Counted(f, S) == UNION {{c} \X (1 .. f[c]) : c \in S}
Total(f, S) == Cardinality(Counted(f, S))

CountDecision(scope, outcome) == decisions' = [decisions EXCEPT ![<<scope, outcome>>] = @ + 1]

Outcome(d) == IF d.allowed THEN "allowed" ELSE "rejected"

-----------------------------------------------------------------------------
(***************************************************************************)
(* The steps of a request.                                                 *)
(***************************************************************************)

\* correlation_id_middleware starts the request and hands it on.
Start(q, t, sent, peer, forwarded) ==
    /\ Total(arrived, Targets) < MaxRequests
    /\ arrived' = [arrived EXCEPT ![t] = @ + 1]
    /\ Arrive(q, ClientId(peer, forwarded), KindOf(t))
    /\ target' = [target EXCEPT ![q] = t]
    /\ id' = [id EXCEPT ![q] = CorrelationId(q, sent)]
    /\ context' = InContext(q, CorrelationId(q, sent))
    /\ UNCHANGED <<header, finished, http, decisions>>

\* A check is answered, and the decision counted.
CheckAnswered(q) ==
    /\ \/ GlobalAnswered(q) /\ CountDecision(Global, Outcome(given'[q]))
       \/ EndpointAnswered(q) /\ CountDecision(kind[q], Outcome(endpoint_given'[q]))
    /\ UNCHANGED <<arrived, target, id, context, header, finished, http>>

\* A check fails.
CheckFails(q) ==
    /\ \/ GlobalFails(q) /\ CountDecision(Global, "error")
       \/ EndpointFails(q) /\ CountDecision(kind[q], "error")
    /\ UNCHANGED <<arrived, target, id, context, header, finished, http>>

\* The handler or the router has a response (200 stands for all of them, and for
\* those of AppErrors and of bodies that are refused), or raises.
Handled(q) ==
    /\ BodyRefused(q) \/ HandlerReturns(q) \/ HandlerRaises(q)
    /\ UNCHANGED pipelineVars

\* Mutant of Counts: an exception is not counted.
Counts_Responses(status) == status # 500

\* correlation_id_middleware records what it gets back, an exception too.
Counts(status) == TRUE

\* correlation_id_middleware is called back with a response or an exception; the
\* response unhandled_error_handler makes of the latter has no correlation ID,
\* nor have the lines it logs.
Finish(q) ==
    LET status == response[q].status IN
    /\ pc[q] = "done" /\ ~finished[q]
    /\ finished' = [finished EXCEPT ![q] = TRUE]
    /\ http' = IF Counts(status)
               THEN [http EXCEPT ![<<RoutePath(target[q]), status>>] = @ + 1] ELSE http
    /\ header' = [header EXCEPT ![q] = IF status = 500 THEN NoId ELSE id[q]]
    /\ context' = InContext(q, NoId)
    /\ UNCHANGED <<vars, arrived, target, id, decisions>>

\* The response is sent.
Send(q) ==
    /\ finished[q] /\ Leave(q)
    /\ finished' = [finished EXCEPT ![q] = FALSE]
    /\ target' = [target EXCEPT ![q] = SomeTarget]
    /\ id' = [id EXCEPT ![q] = NoId]
    /\ header' = [header EXCEPT ![q] = NoId]
    /\ UNCHANGED <<arrived, context, http, decisions>>

\* Redis and its clock.
Elsewhere ==
    /\ Tick \/ \E k \in Keys : Expire(k) \/ Lose(k)
    /\ UNCHANGED pipelineVars

PipelineNext ==
    \/ \E q \in Requests :
        \/ \E t \in Targets, sent \in CallerIds \cup {NoId}, peer \in Peers, f \in Forwarded :
            Start(q, t, sent, peer, f)
        \/ CheckAnswered(q) \/ CheckFails(q) \/ Handled(q) \/ Finish(q) \/ Send(q)
    \/ Elsewhere

PipelineSpec == PipelineInit /\ [][PipelineNext]_allVars

-----------------------------------------------------------------------------
(***************************************************************************)
(* Properties.                                                             *)
(***************************************************************************)

\* Requests do not get into each other's logs: from its arrival until the outer
\* layer is through with it, what a request logs carries its own correlation ID,
\* whatever other requests do between its awaits, and so does its response
\* unless it was made of an exception (main.py:168-198, logging_config.py:57-69).
IdsNotMixed ==
    \A q \in Requests :
        /\ pc[q] # "idle" /\ ~finished[q] => context[q] = id[q] /\ id[q] # NoId
        /\ pc[q] = "idle" \/ finished[q] => context[q] = NoId
        /\ finished[q] /\ response[q].status # 500 => header[q] = id[q]

InFlight(S) == {q \in Requests : pc[q] # "idle" /\ ~finished[q] /\ response[q].status \in S}

\* The metrics of the layers agree: every request that arrived is counted once
\* or still under way; each 429 counted, or under way, is one decision counted as
\* rejected; and those of a limited endpoint, refused by either scope, are all
\* counted under its route (main.py:177, 186, 220-237, 284).
MetricsAgree ==
    LET refused == Total(decisions, Scopes \X {"rejected"}) IN
    /\ Total(arrived, Targets) = Total(http, Labels \X Statuses) + Cardinality(InFlight(Statuses \cup {0}))
    /\ refused = Total(http, Labels \X {429}) + Cardinality(InFlight({429}))
    /\ \A r \in DOMAIN Limited :
        decisions[<<Limited[r], "rejected">>]
            <= http[<<r, 429>>] + Cardinality({q \in InFlight({429}) : kind[q] = Limited[r]})

\* A request is counted under a route that matches it, be it but for the method,
\* and as unmatched only if none does, whichever layer answered and whether or
\* not the router had seen it (main.py:220-237).
LabelledByRoute ==
    \A l \in Labels :
        Total(http, {l} \X Statuses) <=
            Total(arrived, {t \in Targets : IF l = Unmatched
                                           THEN \A r \in Routes : Matches[t][r] = "none"
                                           ELSE Matches[t][l] # "none"})
=============================================================================
