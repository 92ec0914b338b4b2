----------------------- MODULE RequestPipelineProofs ------------------------
(***************************************************************************)
(* Proofs about RequestPipeline for any routes, targets, correlation IDs   *)
(* and number of concurrent requests: the layers leave what RateLimiting   *)
(* promises as it is, requests do not get each other's IDs, and the        *)
(* metrics of the layers agree.                                            *)
(***************************************************************************)
EXTENDS RequestPipeline, RateLimitingAdvice, FiniteSetTheorems

LEMMA KindTyped == ASSUME NEW t \in Targets PROVE KindOf(t) \in Kinds
BY PipelineAssumption DEF KindOf, Kinds, Scopes

LEMMA ClientTyped ==
    ASSUME NEW peer \in Peers, NEW f \in Forwarded
    PROVE  ClientId(peer, f) \in Clients
BY PipelineAssumption DEF ClientId

LEMMA IdTyped ==
    ASSUME NEW q \in Requests, NEW sent \in CallerIds \cup {NoId}
    PROVE  CorrelationId(q, sent) \in Ids /\ CorrelationId(q, sent) # NoId
BY PipelineAssumption DEF CorrelationId, Ids

\* A step of the pipeline is one of RateLimiting, or none.
LEMMA StepImplements ==
    ASSUME [PipelineNext]_allVars
    PROVE  [Next]_vars
<1>1. ASSUME NEW q \in Requests, NEW t \in Targets, NEW sent \in CallerIds \cup {NoId},
             NEW peer \in Peers, NEW f \in Forwarded, Start(q, t, sent, peer, f)
      PROVE  Next
  BY <1>1, KindTyped, ClientTyped DEF Start, Next
<1>2. ASSUME NEW q \in Requests, CheckAnswered(q) \/ CheckFails(q) \/ Handled(q) \/ Send(q)
      PROVE  Next
  BY <1>2 DEF CheckAnswered, CheckFails, Handled, Send, Next
<1>3. ASSUME NEW q \in Requests, Finish(q)
      PROVE  UNCHANGED vars
  BY <1>3 DEF Finish
<1>4. CASE Elsewhere
  BY <1>4 DEF Elsewhere, Next
<1>5. CASE UNCHANGED allVars
  BY <1>5 DEF allVars
<1> QED BY <1>1, <1>2, <1>3, <1>4, <1>5 DEF PipelineNext

\* The pipeline implements RateLimiting, whatever its metrics and correlation
\* IDs do (main.py:130-198).
THEOREM PipelineLimits == PipelineSpec => Spec
<1>1. PipelineInit => Init
  BY DEF PipelineInit
<1> QED BY <1>1, StepImplements, PTL DEF PipelineSpec, Spec

\* In the pipeline, too, a handler runs only for a request that was paid for, or
\* that Redis failed with fail_open (main.py:142-158, 276-305).
THEOREM PipelinePaidFor == PipelineSpec => []HandlerIsPaidFor
BY PipelineLimits, HandlersArePaidFor, PTL

\* What clients get and are told is the same behind the outer layers: buckets
\* keep their bound, and Retry-After, X-RateLimit-Reset and the other headers of
\* a response tell the truth (rate_limiter.py:84-101, 143-144, main.py:159-165).
THEOREM PipelineKeepsLimits ==
    PipelineSpec => [](GrantsBounded /\ AdviceHolds /\ HeadersFitResponse)
BY PipelineLimits, GrantsStayBounded, AdviceIsTrue, HeadersFit, PTL

-----------------------------------------------------------------------------
(***************************************************************************)
(* Correlation IDs.                                                        *)
(***************************************************************************)

IdsTyped ==
    /\ id \in [Requests -> Ids \cup {NoId}]
    /\ context \in [Requests -> Ids \cup {NoId}]
    /\ header \in [Requests -> Ids \cup {NoId}]
    /\ finished \in [Requests -> BOOLEAN]

\* What IdsNotMixed says of one request, and that the outer layer is through
\* with those only that are done.
OwnId(q) ==
    /\ finished[q] => pc[q] = "done"
    /\ pc[q] # "idle" /\ ~finished[q] => context[q] = id[q] /\ id[q] # NoId
    /\ pc[q] = "idle" \/ finished[q] => context[q] = NoId
    /\ finished[q] /\ response[q].status # 500 => header[q] = id[q]

IdInv == TypeOK /\ IdsTyped /\ \A q \in Requests : OwnId(q)

LEMMA InitIdInv ==
    ASSUME PipelineInit
    PROVE  IdInv
<1>1. TypeOK
  BY InitIInv DEF PipelineInit, IInv
<1>2. IdsTyped /\ \A q \in Requests : OwnId(q)
  BY DEF PipelineInit, Init, IdsTyped, OwnId
<1> QED BY <1>1, <1>2 DEF IdInv

\* A step of one request leaves the others alone.
LEMMA OthersKeepIds ==
    ASSUME IdInv, NEW q \in Requests,
           \A p \in Requests : p # q =>
                /\ pc'[p] = pc[p] /\ response'[p] = response[p] /\ id'[p] = id[p]
                /\ context'[p] = context[p] /\ header'[p] = header[p] /\ finished'[p] = finished[p],
           IdsTyped', TypeOK', OwnId(q)'
    PROVE  IdInv'
BY DEF IdInv, OwnId

\* What happens to a request between its arrival and its response.
LEMMA WithinIdInv ==
    ASSUME IdInv, TypeOK', NEW q \in Requests,
           CheckAnswered(q) \/ CheckFails(q) \/ Handled(q)
    PROVE  IdInv'
<1>1. UNCHANGED <<id, context, header, finished>>
  BY DEF CheckAnswered, CheckFails, Handled, pipelineVars
<1>2. /\ pc[q] \in {"global", "endpoint", "handler"} /\ pc'[q] # "idle"
      /\ \A p \in Requests : p # q => pc'[p] = pc[p]
  BY DEF CheckAnswered, CheckFails, Handled, GlobalAnswered, EndpointAnswered, GlobalFails,
         EndpointFails, Fails, BodyRefused, HandlerReturns, HandlerRaises, Resume, AfterGlobal, IdInv, TypeOK,
         RequestsTyped
<1>3. \A p \in Requests : p # q => response'[p] = response[p]
  <2>1. UNCHANGED response \/ \E status, headers : Respond(q, status, headers)
    BY DEF CheckAnswered, CheckFails, Handled, GlobalAnswered, EndpointAnswered, GlobalFails,
           EndpointFails, BodyRefused, HandlerReturns, HandlerRaises
  <2> QED BY <2>1 DEF Respond, IdInv, TypeOK, RequestsTyped
<1>4. OwnId(q)'
  BY <1>1, <1>2 DEF IdInv, IdsTyped, OwnId
<1> QED BY <1>1, <1>2, <1>3, <1>4, OthersKeepIds DEF IdInv, IdsTyped

LEMMA StartIdInv ==
    ASSUME IdInv, TypeOK', NEW q \in Requests, NEW t \in Targets, NEW sent \in CallerIds \cup {NoId},
           NEW peer \in Peers, NEW f \in Forwarded, Start(q, t, sent, peer, f)
    PROVE  IdInv'
<1> DEFINE own == CorrelationId(q, sent)
<1>1. own \in Ids /\ own # NoId
  BY IdTyped
<1> HIDE DEF own
<1>2. /\ id' = [id EXCEPT ![q] = own] /\ context' = [context EXCEPT ![q] = own]
      /\ UNCHANGED <<header, finished, response>>
  BY DEF Start, Arrive, InContext, own
<1>3. /\ pc[q] = "idle" /\ pc'[q] \in {"handler", "global"}
      /\ \A p \in Requests : p # q => pc'[p] = pc[p]
  BY DEF Start, Arrive, Resume, IdInv, TypeOK, RequestsTyped
<1>4. IdsTyped'
  BY <1>1, <1>2 DEF IdInv, IdsTyped
<1>5. OwnId(q)'
  BY <1>1, <1>2, <1>3 DEF IdInv, IdsTyped, OwnId
<1> QED BY <1>2, <1>3, <1>4, <1>5, OthersKeepIds DEF IdInv, IdsTyped

LEMMA FinishIdInv ==
    ASSUME IdInv, TypeOK', NEW q \in Requests, Finish(q)
    PROVE  IdInv'
<1>1. /\ pc[q] = "done" /\ UNCHANGED <<pc, response, id>>
      /\ finished' = [finished EXCEPT ![q] = TRUE]
      /\ header' = [header EXCEPT ![q] = IF response[q].status = 500 THEN NoId ELSE id[q]]
      /\ context' = [context EXCEPT ![q] = NoId]
  BY DEF Finish, InContext, vars, requestVars
<1>2. IdsTyped'
  BY <1>1 DEF IdInv, IdsTyped
<1>3. OwnId(q)'
  BY <1>1 DEF IdInv, IdsTyped, OwnId
<1> QED BY <1>1, <1>2, <1>3, OthersKeepIds DEF IdInv, IdsTyped

LEMMA SendIdInv ==
    ASSUME IdInv, TypeOK', NEW q \in Requests, Send(q)
    PROVE  IdInv'
<1>1. /\ finished[q] /\ pc' = [pc EXCEPT ![q] = "idle"]
      /\ response' = [response EXCEPT ![q] = NoResponse]
      /\ finished' = [finished EXCEPT ![q] = FALSE]
      /\ id' = [id EXCEPT ![q] = NoId] /\ header' = [header EXCEPT ![q] = NoId]
      /\ context' = context
  BY DEF Send, Leave, Resume
<1>2. IdsTyped'
  BY <1>1 DEF IdInv, IdsTyped
<1>3. pc'[q] = "idle" /\ \A p \in Requests : p # q => pc'[p] = pc[p] /\ response'[p] = response[p]
  BY <1>1 DEF IdInv, TypeOK, RequestsTyped
<1>4. OwnId(q)'
  BY <1>1, <1>3 DEF IdInv, IdsTyped, OwnId
<1> QED BY <1>1, <1>2, <1>3, <1>4, OthersKeepIds DEF IdInv, IdsTyped

LEMMA StepIdInv ==
    ASSUME IdInv, [PipelineNext]_allVars
    PROVE  IdInv'
<1>1. TypeOK'
  BY StepImplements, TypeStep DEF IdInv
<1>2. CASE Elsewhere \/ UNCHANGED allVars
  <2>1. UNCHANGED <<pc, response, id, context, header, finished>>
    BY <1>2 DEF Elsewhere, Tick, Expire, Lose, pipelineVars, allVars, vars, requestVars
  <2> QED BY <1>1, <2>1 DEF IdInv, IdsTyped, OwnId
<1> QED BY <1>1, <1>2, WithinIdInv, StartIdInv, FinishIdInv, SendIdInv DEF PipelineNext

\* Requests do not get into each other's logs or responses, however they are
\* interleaved (main.py:168-198, logging_config.py:57-69).
THEOREM IdsStayApart == PipelineSpec => []IdsNotMixed
<1>1. PipelineInit => IdInv
  BY InitIdInv
<1>2. IdInv /\ [PipelineNext]_allVars => IdInv'
  BY StepIdInv
<1>3. IdInv => IdsNotMixed
  BY DEF IdInv, OwnId, IdsNotMixed
<1> QED BY <1>1, <1>2, <1>3, PTL DEF PipelineSpec

-----------------------------------------------------------------------------
(***************************************************************************)
(* Sums of counters, as numbers of single counts.                          *)
(***************************************************************************)

\* Finitely many counters have a finite sum.
LEMMA CountedFinite ==
    ASSUME NEW S, IsFiniteSet(S), NEW f, \A c \in S : f[c] \in Nat
    PROVE  IsFiniteSet(Counted(f, S)) /\ Total(f, S) \in Nat
<1> DEFINE of == [c \in S |-> {c} \X (1 .. f[c])]
           all == {{c} \X (1 .. f[c]) : c \in S}
<1>1. of \in Surjection(S, all)
  BY DEF Surjection
<1>2. IsFiniteSet(all)
  BY <1>1, FS_Surjection
<1>3. \A c \in S : IsFiniteSet({c} \X (1 .. f[c]))
  <2> TAKE c \in S
  <2>1. IsFiniteSet({c})
    BY FS_Singleton
  <2>2. IsFiniteSet(1 .. f[c])
    BY FS_Interval
  <2> QED BY <2>1, <2>2, FS_Product
<1>4. IsFiniteSet(UNION all)
  <2> HIDE DEF of
  <2>1. \A T \in all : IsFiniteSet(T)
    BY <1>3
  <2> HIDE DEF all
  <2> QED BY <1>2, <2>1, FS_UNION
<1> QED BY <1>4, FS_CardinalityType DEF Counted, Total

LEMMA TotalOfNone ==
    ASSUME NEW S, NEW f, \A c \in S : f[c] = 0
    PROVE  Total(f, S) = 0
<1>1. Counted(f, S) = {}
  BY DEF Counted
<1> QED BY <1>1, FS_EmptySet DEF Total

\* Fewer counters have no larger sum.
LEMMA TotalOfFewer ==
    ASSUME NEW S, IsFiniteSet(S), NEW T \in SUBSET S, NEW f, \A c \in S : f[c] \in Nat
    PROVE  Total(f, T) <= Total(f, S)
<1>1. Counted(f, T) \subseteq Counted(f, S)
  BY DEF Counted
<1> QED BY <1>1, CountedFinite, FS_Subset DEF Total

\* No counter exceeds the sum.
LEMMA TotalOfOne ==
    ASSUME NEW S, IsFiniteSet(S), NEW c \in S, NEW f, \A d \in S : f[d] \in Nat
    PROVE  f[c] <= Total(f, S)
<1>1. IsFiniteSet({c}) /\ Cardinality({c}) = 1
  BY FS_Singleton
<1>2. f[c] \in Nat
  OBVIOUS
<1>3. IsFiniteSet(1 .. f[c]) /\ Cardinality(1 .. f[c]) = f[c]
  BY <1>2, FS_Interval
<1>4. Counted(f, {c}) = {c} \X (1 .. f[c])
  BY DEF Counted
<1>5. Total(f, {c}) = f[c]
  <2>1. Cardinality({c} \X (1 .. f[c])) = Cardinality({c}) * Cardinality(1 .. f[c])
    BY <1>1, <1>3, FS_Product
  <2>2. Cardinality({c} \X (1 .. f[c])) = f[c]
    BY <1>1, <1>2, <1>3, <2>1
  <2> QED BY <1>4, <2>2 DEF Total
<1> QED BY <1>5, TotalOfFewer

\* Counting one more adds one to the sums the counter is in, and to no other.
LEMMA TotalOfOneMore ==
    ASSUME NEW D, NEW f \in [D -> Nat], NEW c \in D, NEW S \in SUBSET D, IsFiniteSet(S),
           NEW g, g = [f EXCEPT ![c] = @ + 1]
    PROVE  /\ g \in [D -> Nat]
           /\ Total(g, S) = IF c \in S THEN Total(f, S) + 1 ELSE Total(f, S)
<1>1. g \in [D -> Nat] /\ g[c] = f[c] + 1 /\ \A d \in D : d # c => g[d] = f[d]
  OBVIOUS
<1>2. CASE c \in S
  <2>1. Counted(g, S) = Counted(f, S) \cup {<<c, f[c] + 1>>}
    <3>1. ASSUME NEW x \in Counted(g, S)
          PROVE  x \in Counted(f, S) \cup {<<c, f[c] + 1>>}
      <4>1. PICK d \in S : \E n \in 1 .. g[d] : x = <<d, n>>
        BY DEF Counted
      <4>2. PICK n \in 1 .. g[d] : x = <<d, n>>
        BY <4>1
      <4>3. n \in 1 .. f[d] \/ (d = c /\ n = f[c] + 1)
        BY <1>1
      <4> QED BY <4>2, <4>3 DEF Counted
    <3>2. ASSUME NEW x \in Counted(f, S) \cup {<<c, f[c] + 1>>}
          PROVE  x \in Counted(g, S)
      <4>1. PICK d \in S : \E n \in (1 .. f[d]) \cup (IF d = c THEN {f[c] + 1} ELSE {}) : x = <<d, n>>
        BY <1>2 DEF Counted
      <4>2. (1 .. f[d]) \cup (IF d = c THEN {f[c] + 1} ELSE {}) \subseteq 1 .. g[d]
        BY <1>1
      <4> QED BY <4>1, <4>2 DEF Counted
    <3> QED BY <3>1, <3>2
  <2>2. <<c, f[c] + 1>> \notin Counted(f, S)
    BY DEF Counted
  <2>3. IsFiniteSet(Counted(f, S))
    BY CountedFinite
  <2> QED BY <1>1, <1>2, <2>1, <2>2, <2>3, FS_AddElement DEF Total
<1>3. CASE c \notin S
  <2>1. Counted(g, S) = Counted(f, S)
    BY <1>1, <1>3 DEF Counted
  <2> QED BY <1>1, <1>3, <2>1 DEF Total
<1> QED BY <1>2, <1>3

\* A finite set of numbers has a least one: the prefixes of the set, ordered by
\* inclusion, have a minimal one.
LEMMA LeastExists ==
    ASSUME NEW S, IsFiniteSet(S), S \subseteq Nat, S # {}
    PROVE  \E m \in S : \A n \in S : m <= n
<1> DEFINE below == {{k \in S : k <= n} : n \in S}
<1>1. below \subseteq FiniteSubsetsOf(S) /\ below # {}
  <2>1. below \subseteq SUBSET S /\ below # {}
    OBVIOUS
  <2> HIDE DEF below
  <2> QED BY <2>1, FS_FiniteSubsetsOfFinite
<1>2. PICK T \in below : \A U \in below : <<U, T>> \notin StrictSubsetOrdering(S)
  <2> HIDE DEF below
  <2>1. IsWellFoundedOn(StrictSubsetOrdering(S), FiniteSubsetsOf(S))
    BY FS_StrictSubsetOrderingWellFounded
  <2>2. \E T \in below : \A U \in below : ~ (<<U, T>> \in StrictSubsetOrdering(S))
    BY <1>1, <2>1, WFMin
  <2> QED BY <2>2
<1>3. PICK m \in S : T = {k \in S : k <= m}
  OBVIOUS
<1>4. ASSUME NEW n \in S, n < m PROVE FALSE
  <2> DEFINE U == {k \in S : k <= n}
  <2>1. \A k \in S : k \in Nat
    OBVIOUS
  <2>2. m \in T /\ m \notin U
    BY <1>3, <1>4, <2>1
  <2>3. ASSUME NEW k \in U PROVE k \in T
    <3>1. k \in S /\ k <= n /\ k \in Nat
      BY <2>1
    <3> HIDE DEF U
    <3> QED BY <1>3, <1>4, <2>1, <3>1
  <2>4. <<U, T>> \in StrictSubsetOrdering(S)
    BY <2>2, <2>3, <1>3 DEF StrictSubsetOrdering
  <2> QED BY <1>2, <2>4
<1> QED BY <1>4

-----------------------------------------------------------------------------
(***************************************************************************)
(* Labels, scopes and numbers of requests.                                 *)
(***************************************************************************)

\* The first match is a match, if there is any.
LEMMA FirstMatchMatches ==
    ASSUME NEW t \in Targets, NEW how \in {"full", "partial"}
    PROVE  LET r == FirstMatch(t, how) IN
           IF \E s \in Routes : Matches[t][s] = how
           THEN r \in Routes /\ r # Unmatched /\ Matches[t][r] = how
           ELSE r = Unmatched
<1> DEFINE found == {r \in Routes : Matches[t][r] = how}
<1>1. CASE found = {}
  BY <1>1 DEF FirstMatch
<1>2. CASE found # {}
  <2>1. IsFiniteSet(found) /\ found \subseteq Nat \ {0}
    BY FS_Subset, FiniteAssumption, PipelineAssumption
  <2>2. \E m \in found : \A n \in found : m <= n
    <3> HIDE DEF found
    <3> QED BY <1>2, <2>1, LeastExists
  <2>3. FirstMatch(t, how) \in found
    BY <1>2, <2>2 DEF FirstMatch
  <2> QED BY <2>1, <2>3 DEF Unmatched
<1> QED BY <1>1, <1>2

\* The label of a request is a route that matches it, or says that none does.
LEMMA LabelFits ==
    ASSUME NEW t \in Targets
    PROVE  /\ RoutePath(t) \in Labels
           /\ RoutePath(t) = Unmatched => \A r \in Routes : Matches[t][r] = "none"
           /\ RoutePath(t) # Unmatched => Matches[t][RoutePath(t)] # "none"
<1>1. \A r \in Routes : Matches[t][r] \in Match
  BY PipelineAssumption
<1> QED BY <1>1, FirstMatchMatches DEF RoutePath, Labels, Match

\* A request subject to the limit of a route is labelled by that route.
LEMMA ScopeFits ==
    ASSUME NEW t \in Targets, NEW r \in DOMAIN Limited, KindOf(t) = Limited[r]
    PROVE  RoutePath(t) = r
<1>1. FirstMatch(t, "full") \in DOMAIN Limited /\ Limited[FirstMatch(t, "full")] = Limited[r]
  BY PipelineAssumption, LimitAssumption DEF KindOf
<1>2. FirstMatch(t, "full") = r
  BY <1>1, ScopeAssumption
<1>3. r # Unmatched
  BY PipelineAssumption DEF Unmatched
<1> QED BY <1>2, <1>3 DEF RoutePath

LEMMA FiniteCounters ==
    /\ IsFiniteSet(Targets)
    /\ IsFiniteSet(Labels \X Statuses)
    /\ IsFiniteSet(Scopes \X Outcomes)
<1>1. IsFiniteSet({Global}) /\ IsFiniteSet({Unmatched})
  BY FS_Singleton
<1>2. IsFiniteSet(Scopes)
  BY <1>1, FiniteAssumption, FS_Union DEF Scopes
<1>3. IsFiniteSet(Labels)
  BY <1>1, FiniteAssumption, FS_Union DEF Labels
<1>4. IsFiniteSet(Statuses)
  <2>1. Statuses \in SUBSET Nat /\ \A s \in Statuses : s <= 503
    BY DEF Statuses
  <2> QED BY <2>1, FS_BoundedSetOfNaturals
<1>5. IsFiniteSet(Outcomes)
  <2>1. IsFiniteSet({"allowed"}) /\ IsFiniteSet({"rejected"}) /\ IsFiniteSet({"error"})
    BY FS_Singleton
  <2>2. IsFiniteSet({"allowed"} \cup {"rejected"})
    BY <2>1, FS_Union
  <2>3. IsFiniteSet(({"allowed"} \cup {"rejected"}) \cup {"error"})
    BY <2>1, <2>2, FS_Union
  <2>4. Outcomes = ({"allowed"} \cup {"rejected"}) \cup {"error"}
    BY DEF Outcomes
  <2> QED BY <2>3, <2>4
<1> QED BY <1>2, <1>3, <1>4, <1>5, FiniteAssumption, FS_Product

\* Counting requests.
LEMMA RequestSets ==
    ASSUME NEW S \in SUBSET Requests
    PROVE  /\ IsFiniteSet(S) /\ Cardinality(S) \in Nat
           /\ \A q \in Requests \ S : Cardinality(S \cup {q}) = Cardinality(S) + 1
           /\ \A q \in S : Cardinality(S \ {q}) = Cardinality(S) - 1
           /\ \A T \in SUBSET S : Cardinality(T) <= Cardinality(S)
<1>1. IsFiniteSet(S)
  BY FiniteAssumption, FS_Subset
<1> QED BY <1>1, FS_CardinalityType, FS_AddElement, FS_RemoveElement, FS_Subset

-----------------------------------------------------------------------------
(***************************************************************************)
(* The metrics: the inductive invariant.                                   *)
(***************************************************************************)

CountersTyped ==
    /\ arrived \in [Targets -> Nat]
    /\ target \in [Requests -> Targets]
    /\ http \in [Labels \X Statuses -> Nat]
    /\ decisions \in [Scopes \X Outcomes -> Nat]

\* Requests the outer layer has not finished: all of them, those answered with
\* 429, those of a label; and those a scope has yet to decide on.
Everyone == InFlight(Statuses \cup {0})
Refused == InFlight({429})
RefusedBy(s) == {q \in Refused : kind[q] = s}
Labelled(l) == {q \in Everyone : RoutePath(target[q]) = l}
TargetsOf(l) == {t \in Targets : RoutePath(t) = l}
Undecided(s) ==
    {q \in Requests : \/ pc[q] = "global" /\ (s = Global \/ kind[q] = s)
                      \/ pc[q] = "endpoint" /\ kind[q] = s}

\* A request has a status when it is done, and its kind is that of its target.
StatusFits ==
    \A q \in Requests :
        /\ response[q].status \in (IF pc[q] = "done" THEN Statuses ELSE {0})
        /\ pc[q] # "idle" => kind[q] = KindOf(target[q])

\* No more requests than the bound (the guard of Start).
Admitted == Total(arrived, Targets) <= MaxRequests

\* MetricsAgree, in parts.
ArrivalsCounted ==
    Total(arrived, Targets) = Total(http, Labels \X Statuses) + Cardinality(Everyone)

RefusalsCounted ==
    Total(decisions, Scopes \X {"rejected"}) = Total(http, Labels \X {429}) + Cardinality(Refused)

RefusalsLabelled ==
    \A r \in DOMAIN Limited :
        decisions[<<Limited[r], "rejected">>]
            <= http[<<r, 429>>] + Cardinality(RefusedBy(Limited[r]))

\* A scope decides at most once on a request: with those it has yet to decide on,
\* its decisions are no more than the arrivals.  This bounds their counters.
DecisionsFit ==
    \A s \in Scopes :
        Total(decisions, {s} \X Outcomes) + Cardinality(Undecided(s)) <= Total(arrived, Targets)

\* LabelledByRoute, as a balance: the responses counted under a label and the
\* requests under way that will be are the arrivals with that label.
LabelsBalance ==
    \A l \in Labels :
        Total(http, {l} \X Statuses) + Cardinality(Labelled(l)) = Total(arrived, TargetsOf(l))

Balanced ==
    /\ CountersTyped /\ StatusFits /\ Admitted /\ ArrivalsCounted /\ RefusalsCounted
    /\ RefusalsLabelled /\ DecisionsFit /\ LabelsBalance

MetricsInv == IdInv /\ Balanced

-----------------------------------------------------------------------------
(***************************************************************************)
(* The metrics: the steps.                                                 *)
(***************************************************************************)

\* The lemmas on sums, for each of the counters.
LEMMA HttpCounts ==
    ASSUME CountersTyped, NEW S \in SUBSET (Labels \X Statuses)
    PROVE  /\ Total(http, S) \in Nat
           /\ \A c \in Labels \X Statuses : http' = [http EXCEPT ![c] = @ + 1] =>
                Total(http', S) = IF c \in S THEN Total(http, S) + 1 ELSE Total(http, S)
<1>1. IsFiniteSet(S)
  BY FiniteCounters, FS_Subset
<1>2. Total(http, S) \in Nat
  BY <1>1, CountedFinite DEF CountersTyped
<1> QED BY <1>1, <1>2, TotalOfOneMore DEF CountersTyped

LEMMA DecisionCounts ==
    ASSUME CountersTyped, NEW S \in SUBSET (Scopes \X Outcomes)
    PROVE  /\ Total(decisions, S) \in Nat
           /\ \A c \in Scopes \X Outcomes : decisions' = [decisions EXCEPT ![c] = @ + 1] =>
                Total(decisions', S) =
                    IF c \in S THEN Total(decisions, S) + 1 ELSE Total(decisions, S)
<1>1. IsFiniteSet(S)
  BY FiniteCounters, FS_Subset
<1>2. Total(decisions, S) \in Nat
  BY <1>1, CountedFinite DEF CountersTyped
<1> QED BY <1>1, <1>2, TotalOfOneMore DEF CountersTyped

LEMMA ArrivalCounts ==
    ASSUME CountersTyped, NEW S \in SUBSET Targets
    PROVE  /\ Total(arrived, S) \in Nat
           /\ \A c \in Targets : arrived' = [arrived EXCEPT ![c] = @ + 1] =>
                Total(arrived', S) = IF c \in S THEN Total(arrived, S) + 1 ELSE Total(arrived, S)
<1>1. IsFiniteSet(S)
  BY FiniteCounters, FS_Subset
<1>2. Total(arrived, S) \in Nat
  BY <1>1, CountedFinite DEF CountersTyped
<1> QED BY <1>1, <1>2, TotalOfOneMore DEF CountersTyped

\* At first nothing is counted and nobody is under way.
LEMMA InitBalanced ==
    ASSUME PipelineInit
    PROVE  Balanced
<1>1. CountersTyped /\ StatusFits
  <2>1. SomeTarget \in Targets
    BY PipelineAssumption DEF SomeTarget
  <2> QED BY <2>1 DEF PipelineInit, Init, CountersTyped, StatusFits, NoResponse
<1>2. /\ \A S \in SUBSET Targets : Total(arrived, S) = 0
      /\ \A S \in SUBSET (Labels \X Statuses) : Total(http, S) = 0
      /\ \A S \in SUBSET (Scopes \X Outcomes) : Total(decisions, S) = 0
  BY TotalOfNone DEF PipelineInit
<1>3. /\ Everyone = {} /\ Refused = {} /\ \A s : RefusedBy(s) = {}
      /\ \A l : Labelled(l) = {} /\ \A s : Undecided(s) = {}
  BY DEF PipelineInit, Init, Everyone, Refused, RefusedBy, Labelled, Undecided, InFlight
<1>4. Admitted
  BY <1>2, PipelineAssumption DEF Admitted
<1>5. ArrivalsCounted
  BY <1>2, <1>3, FS_EmptySet DEF ArrivalsCounted
<1>6. RefusalsCounted
  BY <1>2, <1>3, FS_EmptySet DEF RefusalsCounted, Statuses, Outcomes
<1>7. RefusalsLabelled
  <2>1. \A r \in DOMAIN Limited : decisions[<<Limited[r], "rejected">>] = 0 /\ http[<<r, 429>>] = 0
    BY PipelineAssumption DEF PipelineInit, Labels, Statuses, Scopes, Outcomes
  <2>2. \A r \in DOMAIN Limited : Cardinality(RefusedBy(Limited[r])) = 0
    BY <1>3, FS_EmptySet
  <2> SUFFICES ASSUME NEW r \in DOMAIN Limited
               PROVE  decisions[<<Limited[r], "rejected">>]
                        <= http[<<r, 429>>] + Cardinality(RefusedBy(Limited[r]))
    BY DEF RefusalsLabelled
  <2> QED BY <2>1, <2>2
<1>8. DecisionsFit
  BY <1>2, <1>3, FS_EmptySet DEF DecisionsFit
<1>9. LabelsBalance
  BY <1>2, <1>3, FS_EmptySet DEF LabelsBalance, TargetsOf
<1> QED BY <1>1, <1>4, <1>5, <1>6, <1>7, <1>8, <1>9 DEF Balanced

\* An arrival is counted, and under way, under its label.
LEMMA StartBalanced ==
    ASSUME MetricsInv, TypeOK', NEW q \in Requests, NEW t \in Targets, NEW sent \in CallerIds \cup {NoId},
           NEW peer \in Peers, NEW f \in Forwarded, Start(q, t, sent, peer, f)
    PROVE  Balanced'
<1>1. /\ pc[q] = "idle" /\ ~finished[q] /\ response[q].status = 0
      /\ pc'[q] \in {"global", "handler"} /\ finished' = finished /\ response' = response
      /\ kind'[q] = KindOf(t) /\ target'[q] = t
      /\ arrived' = [arrived EXCEPT ![t] = @ + 1] /\ UNCHANGED <<http, decisions>>
  BY DEF Start, Arrive, Resume, MetricsInv, IdInv, OwnId, TypeOK, RequestsTyped, Balanced, StatusFits,
         CountersTyped
<1>2. \A p \in Requests \ {q} : pc'[p] = pc[p] /\ kind'[p] = kind[p] /\ target'[p] = target[p]
  BY DEF Start, Arrive, Resume, MetricsInv, IdInv, TypeOK, RequestsTyped, Balanced, CountersTyped
<1>3. CountersTyped'
  <2>1. target' = [target EXCEPT ![q] = t]
    BY DEF Start
  <2> QED BY <1>1, <2>1 DEF MetricsInv, Balanced, CountersTyped
<1>4. StatusFits'
  BY <1>1, <1>2 DEF MetricsInv, Balanced, StatusFits
<1>5. /\ q \notin Everyone /\ Everyone' = Everyone \cup {q}
      /\ Refused' = Refused /\ \A s : RefusedBy(s)' = RefusedBy(s)
      /\ \A s : Undecided(s)' \subseteq Undecided(s) \cup {q} /\ q \notin Undecided(s)
      /\ \A l : Labelled(l)' = IF RoutePath(t) = l THEN Labelled(l) \cup {q} ELSE Labelled(l)
      /\ \A l : q \notin Labelled(l)
  BY <1>1, <1>2 DEF Everyone, Refused, RefusedBy, Undecided, Labelled, InFlight, Statuses
<1>6. CountersTyped
  BY DEF MetricsInv, Balanced
<1>7. /\ Total(arrived, Targets) \in Nat /\ Total(arrived', Targets) = Total(arrived, Targets) + 1
      /\ Total(arrived, Targets) < MaxRequests
  BY <1>1, <1>6, ArrivalCounts DEF Start
<1>8. Admitted'
  BY <1>7, PipelineAssumption DEF Admitted
<1>9. ArrivalsCounted'
  <2>1. Everyone \in SUBSET Requests /\ q \in Requests \ Everyone
    BY <1>5 DEF Everyone, InFlight
  <2>2. Cardinality(Everyone') = Cardinality(Everyone) + 1 /\ Cardinality(Everyone) \in Nat
    BY <1>5, <2>1, RequestSets
  <2>3. Total(http, Labels \X Statuses) \in Nat
    BY <1>6, HttpCounts
  <2> QED BY <1>1, <1>7, <2>2, <2>3 DEF MetricsInv, Balanced, ArrivalsCounted
<1>10. RefusalsCounted'
  BY <1>1, <1>5 DEF MetricsInv, Balanced, RefusalsCounted
<1>11. RefusalsLabelled'
  BY <1>1, <1>5 DEF MetricsInv, Balanced, RefusalsLabelled
<1>12. DecisionsFit'
  <2> SUFFICES ASSUME NEW s \in Scopes
               PROVE  Total(decisions', {s} \X Outcomes) + Cardinality(Undecided(s)')
                        <= Total(arrived', Targets)
    BY DEF DecisionsFit
  <2>1. Undecided(s) \in SUBSET Requests /\ q \in Requests \ Undecided(s)
    BY <1>5 DEF Undecided
  <2>2. /\ Cardinality(Undecided(s)) \in Nat /\ Cardinality(Undecided(s)') \in Nat
        /\ Cardinality(Undecided(s)') <= Cardinality(Undecided(s)) + 1
    <3>1. Undecided(s)' \in SUBSET (Undecided(s) \cup {q}) /\ Undecided(s) \cup {q} \in SUBSET Requests
      BY <1>5, <2>1
    <3>2. Cardinality(Undecided(s)) \in Nat /\ Cardinality(Undecided(s) \cup {q}) = Cardinality(Undecided(s)) + 1
      BY <2>1, RequestSets
    <3>3. Cardinality(Undecided(s)') \in Nat /\ Cardinality(Undecided(s)') <= Cardinality(Undecided(s) \cup {q})
      BY <3>1, RequestSets
    <3> QED BY <3>2, <3>3
  <2>3. Total(decisions, {s} \X Outcomes) \in Nat
    BY <1>6, DecisionCounts
  <2>4. Total(decisions, {s} \X Outcomes) + Cardinality(Undecided(s)) <= Total(arrived, Targets)
    BY DEF MetricsInv, Balanced, DecisionsFit
  <2> QED BY <1>1, <1>7, <2>2, <2>3, <2>4
<1>13. LabelsBalance'
  <2> SUFFICES ASSUME NEW l \in Labels
               PROVE  Total(http', {l} \X Statuses) + Cardinality(Labelled(l)')
                        = Total(arrived', TargetsOf(l))
    BY DEF LabelsBalance
  <2>1. Labelled(l) \in SUBSET Requests /\ q \in Requests \ Labelled(l)
    BY <1>5 DEF Labelled, Everyone, InFlight
  <2>2. /\ Cardinality(Labelled(l)) \in Nat
        /\ Cardinality(Labelled(l)') = Cardinality(Labelled(l)) + (IF RoutePath(t) = l THEN 1 ELSE 0)
    BY <1>5, <2>1, RequestSets
  <2>3. Total(http, {l} \X Statuses) \in Nat
    BY <1>6, HttpCounts
  <2>4. /\ Total(arrived, TargetsOf(l)) \in Nat
        /\ Total(arrived', TargetsOf(l))
            = Total(arrived, TargetsOf(l)) + (IF RoutePath(t) = l THEN 1 ELSE 0)
    <3>1. TargetsOf(l) \in SUBSET Targets /\ (t \in TargetsOf(l) <=> RoutePath(t) = l)
      BY DEF TargetsOf
    <3> DEFINE S == TargetsOf(l)
    <3> HIDE DEF S
    <3>2. /\ Total(arrived, S) \in Nat
          /\ Total(arrived', S) = IF t \in S THEN Total(arrived, S) + 1 ELSE Total(arrived, S)
      BY <1>1, <1>6, <3>1, ArrivalCounts DEF S
    <3> QED BY <3>1, <3>2 DEF S
  <2>5. Total(http, {l} \X Statuses) + Cardinality(Labelled(l)) = Total(arrived, TargetsOf(l))
    BY DEF MetricsInv, Balanced, LabelsBalance
  <2> QED BY <1>1, <2>2, <2>3, <2>4, <2>5
<1> QED BY <1>3, <1>4, <1>8, <1>9, <1>10, <1>11, <1>12, <1>13 DEF Balanced

\* What a check of q does: scope decided, or Redis failed, and outcome says which.
Decided(q, scope, outcome) ==
    /\ \/ pc[q] = "global" /\ scope = Global /\ (pc'[q] = "endpoint" => kind[q] \in Endpoints)
       \/ pc[q] = "endpoint" /\ scope = kind[q] /\ scope \in Endpoints /\ pc'[q] # "endpoint"
    /\ pc'[q] \in {"endpoint", "handler", "done"}
    /\ IF outcome = "rejected" THEN pc'[q] = "done" /\ response'[q].status = 429
       ELSE response'[q].status = IF pc'[q] = "done" THEN 503 ELSE 0
    /\ \A p \in Requests \ {q} : pc'[p] = pc[p] /\ response'[p] = response[p]
    /\ decisions' = [decisions EXCEPT ![<<scope, outcome>>] = @ + 1]
    /\ UNCHANGED <<arrived, http, finished, kind, target>>

LEMMA CheckEffect ==
    ASSUME MetricsInv, NEW q \in Requests, CheckAnswered(q) \/ CheckFails(q)
    PROVE  \E scope \in Scopes, outcome \in Outcomes : Decided(q, scope, outcome)
<1>1. /\ pc \in [Requests -> {"idle", "global", "endpoint", "handler", "done"}]
      /\ response \in [Requests -> [status : {0, 200, 429, 500, 503}, headers : RateLimitDecision]]
      /\ given \in [Requests -> RateLimitDecision]
      /\ endpoint_given \in [Requests -> RateLimitDecision]
      /\ pc[q] = "endpoint" => kind[q] \in Endpoints
      /\ pc[q] # "done" => response[q].status = 0
  BY DEF MetricsInv, IdInv, TypeOK, RequestsTyped, Balanced, StatusFits
<1>2. \A d : Outcome(d) = IF d.allowed THEN "allowed" ELSE "rejected"
  BY DEF Outcome
<1>3. Global \in Scopes /\ Endpoints \subseteq Scopes /\ Global \notin Endpoints
  BY LimitAssumption DEF Scopes
<1>4. ASSUME GlobalAnswered(q), CountDecision(Global, Outcome(given'[q])),
             UNCHANGED <<arrived, target, id, context, header, finished, http>>
      PROVE  Decided(q, Global, Outcome(given'[q])) /\ Outcome(given'[q]) \in Outcomes
  BY <1>1, <1>2, <1>4 DEF GlobalAnswered, CountDecision, Decided, Resume, AfterGlobal, Respond, Outcomes
<1>5. ASSUME EndpointAnswered(q), CountDecision(kind[q], Outcome(endpoint_given'[q])),
             UNCHANGED <<arrived, target, id, context, header, finished, http>>
      PROVE  Decided(q, kind[q], Outcome(endpoint_given'[q])) /\ Outcome(endpoint_given'[q]) \in Outcomes
  BY <1>1, <1>2, <1>5 DEF EndpointAnswered, CountDecision, Decided, Resume, Respond, Outcomes
<1>6. ASSUME GlobalFails(q), CountDecision(Global, "error"),
             UNCHANGED <<arrived, target, id, context, header, finished, http>>
      PROVE  Decided(q, Global, "error")
  BY <1>1, <1>6 DEF GlobalFails, Fails, AfterGlobal, CountDecision, Decided, Resume, Respond, LetsThrough
<1>7. ASSUME EndpointFails(q), CountDecision(kind[q], "error"),
             UNCHANGED <<arrived, target, id, context, header, finished, http>>
      PROVE  Decided(q, kind[q], "error")
  BY <1>1, <1>7 DEF EndpointFails, Fails, CountDecision, Decided, Resume, Respond, LetsThrough
<1>8. "error" \in Outcomes /\ (pc[q] = "endpoint" => kind[q] \in Scopes)
  BY <1>1, <1>3 DEF Outcomes
<1>9. EndpointAnswered(q) \/ EndpointFails(q) => pc[q] = "endpoint"
  BY DEF EndpointAnswered, EndpointFails, Fails, Resume
<1> QED BY <1>3, <1>4, <1>5, <1>6, <1>7, <1>8, <1>9 DEF CheckAnswered, CheckFails

\* A decision counts for its scope when it is made; a refusal counts for its
\* request from then on, under way, and as a response when that is finished.
LEMMA CheckBalanced ==
    ASSUME MetricsInv, TypeOK', NEW q \in Requests, CheckAnswered(q) \/ CheckFails(q)
    PROVE  Balanced'
<1>1. PICK scope \in Scopes, outcome \in Outcomes : Decided(q, scope, outcome)
  BY CheckEffect
<1>2. /\ CountersTyped /\ StatusFits /\ UNCHANGED <<arrived, http, finished, kind, target>>
      /\ \A p \in Requests \ {q} : pc'[p] = pc[p] /\ response'[p] = response[p]
  BY <1>1 DEF MetricsInv, Balanced, Decided
<1>3. /\ pc[q] \in {"global", "endpoint"} /\ pc'[q] \in {"endpoint", "handler", "done"}
      /\ ~finished[q] /\ response[q].status = 0
      /\ response'[q].status \in {0, 429, 503} /\ (response'[q].status = 429 <=> outcome = "rejected")
      /\ response'[q].status \in (IF pc'[q] = "done" THEN Statuses ELSE {0})
      /\ outcome = "rejected" => pc'[q] = "done"
  BY <1>1, <1>2 DEF Decided, MetricsInv, IdInv, OwnId, StatusFits, Statuses
<1>4. CountersTyped'
  BY <1>1, <1>2 DEF CountersTyped, Decided
<1>5. StatusFits'
  BY <1>2, <1>3 DEF StatusFits
<1>6. Admitted'
  BY <1>2 DEF MetricsInv, Balanced, Admitted
<1>7. Everyone' = Everyone /\ \A l : Labelled(l)' = Labelled(l)
  BY <1>2, <1>3 DEF Everyone, Labelled, InFlight, Statuses
<1>8. /\ q \notin Refused
      /\ Refused' = IF outcome = "rejected" THEN Refused \cup {q} ELSE Refused
      /\ \A s : RefusedBy(s)' = IF outcome = "rejected" /\ kind[q] = s THEN RefusedBy(s) \cup {q}
                                ELSE RefusedBy(s)
      /\ \A s : q \notin RefusedBy(s)
  BY <1>2, <1>3 DEF Refused, RefusedBy, InFlight
<1>9. \A S \in SUBSET (Scopes \X Outcomes) :
        /\ Total(decisions, S) \in Nat
        /\ Total(decisions', S) = IF <<scope, outcome>> \in S THEN Total(decisions, S) + 1
                                  ELSE Total(decisions, S)
  <2>1. decisions' = [decisions EXCEPT ![<<scope, outcome>>] = @ + 1]
    BY <1>1 DEF Decided
  <2> QED BY <1>2, <2>1, DecisionCounts
<1>10. ArrivalsCounted'
  BY <1>2, <1>7 DEF MetricsInv, Balanced, ArrivalsCounted
<1>11. RefusalsCounted'
  <2>1. Refused \in SUBSET Requests
    BY DEF Refused, InFlight
  <2>2. /\ Cardinality(Refused) \in Nat
        /\ Cardinality(Refused') = Cardinality(Refused) + (IF outcome = "rejected" THEN 1 ELSE 0)
    BY <1>8, <2>1, RequestSets
  <2>3. /\ Total(decisions, Scopes \X {"rejected"}) \in Nat
        /\ Total(decisions', Scopes \X {"rejected"})
            = Total(decisions, Scopes \X {"rejected"}) + (IF outcome = "rejected" THEN 1 ELSE 0)
    <3>1. Scopes \X {"rejected"} \in SUBSET (Scopes \X Outcomes)
      BY DEF Outcomes
    <3>2. <<scope, outcome>> \in Scopes \X {"rejected"} <=> outcome = "rejected"
      OBVIOUS
    <3> QED BY <1>9, <3>1, <3>2
  <2>4. Total(http, Labels \X {429}) \in Nat
    BY <1>2, HttpCounts DEF Statuses
  <2> QED BY <1>2, <2>2, <2>3, <2>4 DEF MetricsInv, Balanced, RefusalsCounted
<1>12. RefusalsLabelled'
  <2> SUFFICES ASSUME NEW r \in DOMAIN Limited
               PROVE  decisions'[<<Limited[r], "rejected">>]
                        <= http[<<r, 429>>] + Cardinality(RefusedBy(Limited[r])')
    BY <1>2 DEF RefusalsLabelled
  <2> DEFINE s == Limited[r]
  <2>1. s \in Endpoints /\ s \in Scopes /\ s # Global /\ <<s, "rejected">> \in Scopes \X Outcomes
        /\ <<r, 429>> \in Labels \X Statuses
    BY PipelineAssumption, LimitAssumption DEF Scopes, Outcomes, Labels, Statuses
  <2> HIDE DEF s
  <2>2. /\ decisions[<<s, "rejected">>] \in Nat /\ http[<<r, 429>>] \in Nat
        /\ decisions[<<s, "rejected">>] <= http[<<r, 429>>] + Cardinality(RefusedBy(s))
    BY <1>2, <2>1 DEF CountersTyped, MetricsInv, Balanced, RefusalsLabelled, s
  <2>3. decisions'[<<s, "rejected">>]
            = decisions[<<s, "rejected">>] + (IF outcome = "rejected" /\ scope = s THEN 1 ELSE 0)
    BY <1>1, <1>2, <2>1, <2>2 DEF CountersTyped, Decided
  <2>4. RefusedBy(s) \in SUBSET Requests
    BY DEF RefusedBy, Refused, InFlight
  <2>5. /\ Cardinality(RefusedBy(s)) \in Nat
        /\ Cardinality(RefusedBy(s)')
            = Cardinality(RefusedBy(s)) + (IF outcome = "rejected" /\ kind[q] = s THEN 1 ELSE 0)
    BY <1>8, <2>4, RequestSets
  <2>6. scope = s => kind[q] = s
    BY <1>1, <2>1 DEF Decided
  <2> QED BY <2>2, <2>3, <2>5, <2>6 DEF s
<1>13. DecisionsFit'
  <2> SUFFICES ASSUME NEW s \in Scopes
               PROVE  Total(decisions', {s} \X Outcomes) + Cardinality(Undecided(s)')
                        <= Total(arrived, Targets)
    BY <1>2 DEF DecisionsFit
  <2>1. Undecided(s) \in SUBSET Requests
    BY DEF Undecided
  <2>2. /\ Total(decisions, {s} \X Outcomes) \in Nat
        /\ Total(decisions', {s} \X Outcomes)
            = Total(decisions, {s} \X Outcomes) + (IF scope = s THEN 1 ELSE 0)
    BY <1>9
  <2>3. Total(decisions, {s} \X Outcomes) + Cardinality(Undecided(s)) <= Total(arrived, Targets)
        /\ Total(arrived, Targets) \in Nat
    BY <1>2, ArrivalCounts DEF MetricsInv, Balanced, DecisionsFit
  <2>4. Undecided(s)' \in SUBSET Undecided(s)
    BY <1>1, <1>2, <1>3 DEF Undecided, Decided
  <2>5. CASE scope = s
    <3>1. q \in Undecided(s) /\ q \notin Undecided(s)'
      BY <1>1, <1>2, <2>5, LimitAssumption DEF Undecided, Decided
    <3>2. Undecided(s)' \in SUBSET (Undecided(s) \ {q}) /\ Undecided(s) \ {q} \in SUBSET Requests
      BY <2>1, <2>4, <3>1
    <3>3. Cardinality(Undecided(s)) \in Nat /\ Cardinality(Undecided(s) \ {q}) = Cardinality(Undecided(s)) - 1
      BY <2>1, <3>1, RequestSets
    <3>4. Cardinality(Undecided(s)') \in Nat /\ Cardinality(Undecided(s)') <= Cardinality(Undecided(s) \ {q})
      BY <3>2, RequestSets
    <3> QED BY <2>2, <2>3, <2>5, <3>3, <3>4
  <2>6. CASE scope # s
    <3>1. Cardinality(Undecided(s)) \in Nat /\ Cardinality(Undecided(s)') \in Nat
          /\ Cardinality(Undecided(s)') <= Cardinality(Undecided(s))
      BY <2>1, <2>4, RequestSets
    <3> QED BY <2>2, <2>3, <2>6, <3>1
  <2> QED BY <2>5, <2>6
<1>14. LabelsBalance'
  BY <1>2, <1>7 DEF MetricsInv, Balanced, LabelsBalance, TargetsOf
<1> QED BY <1>4, <1>5, <1>6, <1>10, <1>11, <1>12, <1>13, <1>14 DEF Balanced

\* A step that neither counts anything nor moves a request between the sets.
LEMMA SetsKeptBalanced ==
    ASSUME MetricsInv, CountersTyped', StatusFits', UNCHANGED <<arrived, http, decisions>>,
           Everyone' = Everyone, Refused' = Refused, \A s : RefusedBy(s)' = RefusedBy(s),
           \A s : Undecided(s)' \subseteq Undecided(s), \A l : Labelled(l)' = Labelled(l)
    PROVE  Balanced'
<1>1. DecisionsFit'
  <2> SUFFICES ASSUME NEW s \in Scopes
               PROVE  Total(decisions, {s} \X Outcomes) + Cardinality(Undecided(s)')
                        <= Total(arrived, Targets)
    BY DEF DecisionsFit
  <2>1. Undecided(s) \in SUBSET Requests /\ Undecided(s)' \in SUBSET Undecided(s)
    BY DEF Undecided
  <2>2. /\ Cardinality(Undecided(s)) \in Nat /\ Cardinality(Undecided(s)') \in Nat
        /\ Cardinality(Undecided(s)') <= Cardinality(Undecided(s))
    BY <2>1, RequestSets
  <2>3. /\ Total(decisions, {s} \X Outcomes) \in Nat /\ Total(arrived, Targets) \in Nat
        /\ Total(decisions, {s} \X Outcomes) + Cardinality(Undecided(s)) <= Total(arrived, Targets)
    BY DecisionCounts, ArrivalCounts DEF MetricsInv, Balanced, DecisionsFit
  <2> QED BY <2>2, <2>3
<1>2. Admitted' /\ ArrivalsCounted' /\ RefusalsCounted' /\ RefusalsLabelled' /\ LabelsBalance'
  BY DEF MetricsInv, Balanced, Admitted, ArrivalsCounted, RefusalsCounted, RefusalsLabelled,
         LabelsBalance, TargetsOf
<1> QED BY <1>1, <1>2 DEF Balanced

LEMMA HandledBalanced ==
    ASSUME MetricsInv, TypeOK', NEW q \in Requests, Handled(q)
    PROVE  Balanced'
<1>1. /\ CountersTyped /\ StatusFits
      /\ UNCHANGED <<arrived, target, finished, http, decisions, kind>>
      /\ pc[q] \in {"endpoint", "handler"} /\ pc'[q] = "done"
      /\ response[q].status = 0 /\ response'[q].status \in {200, 500}
      /\ \A p \in Requests \ {q} : pc'[p] = pc[p] /\ response'[p] = response[p]
  BY DEF MetricsInv, IdInv, TypeOK, RequestsTyped, Balanced, StatusFits, Handled, BodyRefused,
         HandlerReturns, HandlerRaises, Resume, Respond, pipelineVars
<1>2. CountersTyped'
  BY <1>1 DEF CountersTyped
<1>3. StatusFits'
  BY <1>1 DEF StatusFits, Statuses
<1>4. /\ Everyone' = Everyone /\ Refused' = Refused /\ \A s : RefusedBy(s)' = RefusedBy(s)
      /\ \A s : Undecided(s)' \subseteq Undecided(s) /\ \A l : Labelled(l)' = Labelled(l)
  BY <1>1 DEF Everyone, Refused, RefusedBy, Undecided, Labelled, InFlight, Statuses
<1> QED BY <1>1, <1>2, <1>3, <1>4, SetsKeptBalanced

LEMMA SendBalanced ==
    ASSUME MetricsInv, TypeOK', NEW q \in Requests, Send(q)
    PROVE  Balanced'
<1>1. /\ CountersTyped /\ StatusFits /\ UNCHANGED <<arrived, http, decisions>>
      /\ pc[q] = "done" /\ pc'[q] = "idle" /\ finished[q] /\ response'[q].status = 0
      /\ target' = [target EXCEPT ![q] = SomeTarget]
      /\ \A p \in Requests \ {q} : /\ pc'[p] = pc[p] /\ response'[p] = response[p]
                                    /\ finished'[p] = finished[p] /\ kind'[p] = kind[p]
  BY DEF MetricsInv, IdInv, IdsTyped, TypeOK, RequestsTyped, Balanced, Send, Leave, Resume, NoResponse
<1>2. CountersTyped'
  <2>1. SomeTarget \in Targets
    BY PipelineAssumption DEF SomeTarget
  <2> QED BY <1>1, <2>1 DEF CountersTyped
<1>3. \A p \in Requests \ {q} : target'[p] = target[p]
  BY <1>1 DEF CountersTyped
<1>4. StatusFits'
  BY <1>1, <1>3 DEF StatusFits
<1>5. /\ Everyone' = Everyone /\ Refused' = Refused /\ \A s : RefusedBy(s)' = RefusedBy(s)
      /\ \A s : Undecided(s)' = Undecided(s) /\ \A l : Labelled(l)' = Labelled(l)
  BY <1>1, <1>3 DEF Everyone, Refused, RefusedBy, Undecided, Labelled, InFlight
<1> QED BY <1>1, <1>2, <1>4, <1>5, SetsKeptBalanced

\* The response counts instead of the request under way.
LEMMA FinishBalanced ==
    ASSUME MetricsInv, TypeOK', NEW q \in Requests, Finish(q)
    PROVE  Balanced'
<1> DEFINE status == response[q].status
           label == RoutePath(target[q])
<1>1. /\ CountersTyped /\ StatusFits
      /\ UNCHANGED <<arrived, target, decisions, pc, response, kind>>
      /\ pc[q] = "done" /\ ~finished[q] /\ finished'[q]
      /\ \A p \in Requests \ {q} : finished'[p] = finished[p]
      /\ http' = [http EXCEPT ![<<label, status>>] = @ + 1]
  BY DEF MetricsInv, IdInv, IdsTyped, Balanced, Finish, Counts, vars, requestVars
<1>2. /\ label \in Labels /\ status \in Statuses
      /\ \A r \in DOMAIN Limited : kind[q] = Limited[r] => label = r
  <2>1. target[q] \in Targets /\ kind[q] = KindOf(target[q]) /\ status \in Statuses
    BY <1>1 DEF CountersTyped, StatusFits
  <2> QED BY <2>1, LabelFits, ScopeFits
<1> HIDE DEF label, status
<1>3. CountersTyped'
  BY <1>1, <1>2 DEF CountersTyped
<1>4. StatusFits'
  BY <1>1 DEF StatusFits
<1>5. Admitted'
  BY <1>1 DEF MetricsInv, Balanced, Admitted
<1>6. /\ q \in Everyone /\ Everyone' = Everyone \ {q}
      /\ Refused' = Refused \ {q} /\ (q \in Refused <=> status = 429)
      /\ \A s : Undecided(s)' = Undecided(s)
      /\ \A s : RefusedBy(s)' = RefusedBy(s) \ {q}
      /\ \A s : q \in RefusedBy(s) <=> status = 429 /\ kind[q] = s
      /\ \A l : Labelled(l)' = Labelled(l) \ {q} /\ (q \in Labelled(l) <=> label = l)
  BY <1>1, <1>2 DEF Everyone, Refused, RefusedBy, Undecided, Labelled, InFlight, label, status
<1>7. \A S \in SUBSET (Labels \X Statuses) :
        /\ Total(http, S) \in Nat
        /\ Total(http', S) = IF <<label, status>> \in S THEN Total(http, S) + 1 ELSE Total(http, S)
  BY <1>1, <1>2, HttpCounts
<1>8. \A S \in SUBSET Requests :
        /\ Cardinality(S) \in Nat
        /\ Cardinality(S \ {q}) = IF q \in S THEN Cardinality(S) - 1 ELSE Cardinality(S)
  <2> TAKE S \in SUBSET Requests
  <2>1. q \notin S => S \ {q} = S
    OBVIOUS
  <2> QED BY <2>1, RequestSets
<1>9. ArrivalsCounted'
  <2>1. /\ Cardinality(Everyone) \in Nat /\ Cardinality(Everyone') = Cardinality(Everyone) - 1
    <3>1. Everyone \in SUBSET Requests
      BY DEF Everyone, InFlight
    <3> QED BY <1>6, <1>8, <3>1
  <2>2. /\ Total(http, Labels \X Statuses) \in Nat
        /\ Total(http', Labels \X Statuses) = Total(http, Labels \X Statuses) + 1
    BY <1>2, <1>7
  <2> QED BY <1>1, <2>1, <2>2 DEF MetricsInv, Balanced, ArrivalsCounted
<1>10. RefusalsCounted'
  <2>1. /\ Cardinality(Refused) \in Nat
        /\ Cardinality(Refused') = Cardinality(Refused) - (IF status = 429 THEN 1 ELSE 0)
    <3>1. Refused \in SUBSET Requests
      BY DEF Refused, InFlight
    <3> QED BY <1>6, <1>8, <3>1
  <2>2. /\ Total(http, Labels \X {429}) \in Nat
        /\ Total(http', Labels \X {429})
            = Total(http, Labels \X {429}) + (IF status = 429 THEN 1 ELSE 0)
    <3>1. Labels \X {429} \in SUBSET (Labels \X Statuses)
      BY DEF Statuses
    <3>2. <<label, status>> \in Labels \X {429} <=> status = 429
      BY <1>2
    <3> QED BY <1>7, <3>1, <3>2
  <2> QED BY <1>1, <2>1, <2>2 DEF MetricsInv, Balanced, RefusalsCounted
<1>11. RefusalsLabelled'
  <2> SUFFICES ASSUME NEW r \in DOMAIN Limited
               PROVE  decisions[<<Limited[r], "rejected">>]
                        <= http'[<<r, 429>>] + Cardinality(RefusedBy(Limited[r])')
    BY <1>1 DEF RefusalsLabelled
  <2> DEFINE s == Limited[r]
  <2>1. <<s, "rejected">> \in Scopes \X Outcomes /\ <<r, 429>> \in Labels \X Statuses
    BY PipelineAssumption DEF Scopes, Outcomes, Labels, Statuses
  <2> HIDE DEF s
  <2>2. /\ decisions[<<s, "rejected">>] \in Nat /\ http[<<r, 429>>] \in Nat
        /\ decisions[<<s, "rejected">>] <= http[<<r, 429>>] + Cardinality(RefusedBy(s))
    BY <1>1, <2>1 DEF CountersTyped, MetricsInv, Balanced, RefusalsLabelled, s
  <2>3. http'[<<r, 429>>] = http[<<r, 429>>] + (IF label = r /\ status = 429 THEN 1 ELSE 0)
    BY <1>1, <2>1, <2>2 DEF CountersTyped
  <2>4. /\ Cardinality(RefusedBy(s)) \in Nat
        /\ Cardinality(RefusedBy(s)')
            = Cardinality(RefusedBy(s)) - (IF status = 429 /\ kind[q] = s THEN 1 ELSE 0)
    <3>1. RefusedBy(s) \in SUBSET Requests
      BY DEF RefusedBy, Refused, InFlight
    <3> QED BY <1>6, <1>8, <3>1
  <2>5. kind[q] = s => label = r
    BY <1>2 DEF s
  <2> QED BY <2>2, <2>3, <2>4, <2>5 DEF s
<1>12. DecisionsFit'
  BY <1>1, <1>6 DEF MetricsInv, Balanced, DecisionsFit
<1>13. LabelsBalance'
  <2> SUFFICES ASSUME NEW l \in Labels
               PROVE  Total(http', {l} \X Statuses) + Cardinality(Labelled(l)')
                        = Total(arrived, TargetsOf(l))
    BY <1>1 DEF LabelsBalance, TargetsOf
  <2>1. /\ Cardinality(Labelled(l)) \in Nat
        /\ Cardinality(Labelled(l)') = Cardinality(Labelled(l)) - (IF label = l THEN 1 ELSE 0)
    <3>1. Labelled(l) \in SUBSET Requests
      BY DEF Labelled, Everyone, InFlight
    <3> QED BY <1>6, <1>8, <3>1
  <2>2. /\ Total(http, {l} \X Statuses) \in Nat
        /\ Total(http', {l} \X Statuses)
            = Total(http, {l} \X Statuses) + (IF label = l THEN 1 ELSE 0)
    BY <1>2, <1>7
  <2>3. Total(http, {l} \X Statuses) + Cardinality(Labelled(l)) = Total(arrived, TargetsOf(l))
    BY DEF MetricsInv, Balanced, LabelsBalance
  <2> QED BY <2>1, <2>2, <2>3
<1> QED BY <1>3, <1>4, <1>5, <1>9, <1>10, <1>11, <1>12, <1>13 DEF Balanced

\* Redis, its clock and other components count nothing.
LEMMA ElsewhereBalanced ==
    ASSUME MetricsInv, TypeOK', Elsewhere \/ UNCHANGED allVars
    PROVE  Balanced'
<1>1. UNCHANGED <<pc, finished, response, kind, target, arrived, http, decisions>>
  BY DEF Elsewhere, Tick, Expire, Lose, pipelineVars, allVars, vars, requestVars
<1>2. CountersTyped' /\ StatusFits'
  BY <1>1 DEF MetricsInv, Balanced, CountersTyped, StatusFits
<1>3. /\ Everyone' = Everyone /\ Refused' = Refused /\ \A s : RefusedBy(s)' = RefusedBy(s)
      /\ \A s : Undecided(s)' = Undecided(s) /\ \A l : Labelled(l)' = Labelled(l)
  BY <1>1 DEF Everyone, Refused, RefusedBy, Undecided, Labelled, InFlight
<1> QED BY <1>1, <1>2, <1>3, SetsKeptBalanced

-----------------------------------------------------------------------------
(***************************************************************************)
(* The metrics: the theorems.                                              *)
(***************************************************************************)

LEMMA StepMetricsInv ==
    ASSUME MetricsInv, [PipelineNext]_allVars
    PROVE  MetricsInv'
<1>1. IdInv'
  BY StepIdInv DEF MetricsInv
<1>2. TypeOK'
  BY <1>1 DEF IdInv
<1>3. Balanced'
  BY <1>2, StartBalanced, CheckBalanced, HandledBalanced, FinishBalanced, SendBalanced, ElsewhereBalanced
     DEF PipelineNext
<1> QED BY <1>1, <1>3 DEF MetricsInv

\* Every counter is at most the sum it is in, and that at most the arrivals.
LEMMA MetricsInvTyped ==
    ASSUME MetricsInv
    PROVE  PipelineTypeOK
<1>1. /\ CountersTyped /\ MaxRequests \in Nat /\ Total(arrived, Targets) \in Nat
      /\ Total(arrived, Targets) <= MaxRequests
  BY PipelineAssumption, ArrivalCounts DEF MetricsInv, Balanced, Admitted
<1>2. \A t \in Targets : arrived[t] \in 0 .. MaxRequests
  <2> TAKE t \in Targets
  <2>1. \A d \in Targets : arrived[d] \in Nat
    BY <1>1 DEF CountersTyped
  <2>2. arrived[t] <= Total(arrived, Targets)
    BY <2>1, FiniteCounters, TotalOfOne
  <2> QED BY <1>1, <2>1, <2>2
<1>3. \A c \in Labels \X Statuses : http[c] \in 0 .. MaxRequests
  <2> TAKE c \in Labels \X Statuses
  <2>1. \A d \in Labels \X Statuses : http[d] \in Nat
    BY <1>1 DEF CountersTyped
  <2>2. http[c] <= Total(http, Labels \X Statuses) /\ Total(http, Labels \X Statuses) \in Nat
    BY <1>1, <2>1, FiniteCounters, TotalOfOne, HttpCounts
  <2>3. Cardinality(Everyone) \in Nat
    BY RequestSets DEF Everyone, InFlight
  <2>4. Total(arrived, Targets) = Total(http, Labels \X Statuses) + Cardinality(Everyone)
    BY DEF MetricsInv, Balanced, ArrivalsCounted
  <2> QED BY <1>1, <2>1, <2>2, <2>3, <2>4
<1>4. \A s \in Scopes, o \in Outcomes : decisions[<<s, o>>] \in 0 .. MaxRequests
  <2> TAKE s \in Scopes, o \in Outcomes
  <2> DEFINE S == {s} \X Outcomes
  <2>1. S \in SUBSET (Scopes \X Outcomes) /\ <<s, o>> \in S
    OBVIOUS
  <2> HIDE DEF S
  <2>2. IsFiniteSet(S) /\ Total(decisions, S) \in Nat
    BY <1>1, <2>1, FiniteCounters, FS_Subset, DecisionCounts
  <2>3. \A d \in S : decisions[d] \in Nat
    BY <1>1, <2>1 DEF CountersTyped
  <2>4. decisions[<<s, o>>] <= Total(decisions, S)
    BY <2>1, <2>2, <2>3, TotalOfOne
  <2>5. Cardinality(Undecided(s)) \in Nat
    <3>1. Undecided(s) \in SUBSET Requests
      BY DEF Undecided
    <3> QED BY <3>1, RequestSets
  <2>6. Total(decisions, S) + Cardinality(Undecided(s)) <= Total(arrived, Targets)
    BY DEF MetricsInv, Balanced, DecisionsFit, S
  <2> QED BY <1>1, <2>1, <2>2, <2>3, <2>4, <2>5, <2>6
<1>5. \A c \in Scopes \X Outcomes : decisions[c] \in 0 .. MaxRequests
  BY <1>4
<1> QED BY <1>1, <1>2, <1>3, <1>5 DEF MetricsInv, IdInv, IdsTyped, CountersTyped, PipelineTypeOK

LEMMA MetricsInvAgree ==
    ASSUME MetricsInv
    PROVE  MetricsAgree
BY DEF MetricsInv, Balanced, ArrivalsCounted, RefusalsCounted, RefusalsLabelled, Everyone, Refused,
       RefusedBy, MetricsAgree

\* The targets with a label are among those its route matches.
LEMMA MetricsInvLabelled ==
    ASSUME MetricsInv
    PROVE  LabelledByRoute
<1> SUFFICES ASSUME NEW l \in Labels
             PROVE  Total(http, {l} \X Statuses) <=
                        Total(arrived, {t \in Targets : IF l = Unmatched
                                           THEN \A r \in Routes : Matches[t][r] = "none"
                                           ELSE Matches[t][l] # "none"})
  BY DEF LabelledByRoute
<1> DEFINE S == {t \in Targets : IF l = Unmatched
                                  THEN \A r \in Routes : Matches[t][r] = "none"
                                  ELSE Matches[t][l] # "none"}
<1>1. CountersTyped
  BY DEF MetricsInv, Balanced
<1>2. TargetsOf(l) \in SUBSET S
  BY LabelFits DEF TargetsOf
<1>3. S \in SUBSET Targets
  OBVIOUS
<1> HIDE DEF S
<1>4. Total(arrived, TargetsOf(l)) <= Total(arrived, S)
  <2>1. IsFiniteSet(S) /\ \A t \in S : arrived[t] \in Nat
    BY <1>1, <1>3, FiniteCounters, FS_Subset DEF CountersTyped
  <2> QED BY <1>2, <2>1, TotalOfFewer
<1>5. /\ Total(arrived, TargetsOf(l)) \in Nat /\ Total(arrived, S) \in Nat
      /\ Total(http, {l} \X Statuses) \in Nat
  BY <1>1, <1>2, <1>3, ArrivalCounts, HttpCounts
<1>6. Cardinality(Labelled(l)) \in Nat
  <2>1. Labelled(l) \in SUBSET Requests
    BY DEF Labelled, Everyone, InFlight
  <2> QED BY <2>1, RequestSets
<1>7. Total(http, {l} \X Statuses) + Cardinality(Labelled(l)) = Total(arrived, TargetsOf(l))
  BY DEF MetricsInv, Balanced, LabelsBalance
<1> QED BY <1>4, <1>5, <1>6, <1>7 DEF S

LEMMA MetricsInvHolds == PipelineSpec => []MetricsInv
<1>1. PipelineInit => MetricsInv
  BY InitIdInv, InitBalanced DEF MetricsInv
<1>2. MetricsInv /\ [PipelineNext]_allVars => MetricsInv'
  BY StepMetricsInv
<1> QED BY <1>1, <1>2, PTL DEF PipelineSpec

\* Every variable has its type; no counter of the layers runs away from the number
\* of requests that arrived (main.py:177, 186, 278-305).
THEOREM PipelineTypeCorrect == PipelineSpec => []PipelineTypeOK
BY MetricsInvHolds, MetricsInvTyped, PTL

\* Every request that arrived is counted once or under way, every 429 is one
\* decision counted as rejected, and the refusals of a limited endpoint are all
\* counted under its route, however requests interleave and wherever they are
\* answered (main.py:177, 186, 220-237, 284).
THEOREM MetricsStayAgreed == PipelineSpec => []MetricsAgree
BY MetricsInvHolds, MetricsInvAgree, PTL

\* No request is counted under a route that does not match it, nor as unmatched
\* when a route does, whichever layer answered (main.py:220-237).
THEOREM LabelsFollowRoutes == PipelineSpec => []LabelledByRoute
BY MetricsInvHolds, MetricsInvLabelled, PTL
=============================================================================
