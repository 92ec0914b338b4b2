------------------------- MODULE HealthCheckProofs -------------------------
(***************************************************************************)
(* Proofs about HealthCheck for any replicas, services, requests and       *)
(* bounds.                                                                 *)
(***************************************************************************)
EXTENDS HealthCheck, TLAPS

-----------------------------------------------------------------------------
(***************************************************************************)
(* What the breaker operations return.                                     *)
(***************************************************************************)

\* A breaker nobody has used, or that was just reset, is CLOSED and coherent.
LEMMA DefaultIsCoherent ==
    ASSUME NEW s \in Services, NEW t \in Nat
    PROVE  /\ DefaultSnapshot \in CircuitBreakerSnapshot
           /\ Coherent(DefaultSnapshot, s, t)
           /\ DefaultSnapshot.state = "CLOSED"
           /\ DefaultSnapshot.opened_at = Never
BY BreakerAssumption
   DEF DefaultSnapshot, CircuitBreakerSnapshot, CircuitState, Coherent, Never

\* A tripped breaker is OPEN from now on.
LEMMA TripIsCoherent ==
    ASSUME NEW s \in Services, NEW t \in Nat
    PROVE  /\ trip(t) \in CircuitBreakerSnapshot
           /\ Coherent(trip(t), s, t)
           /\ trip(t).state = "OPEN"
           /\ trip(t).opened_at = t
BY DEF trip, CircuitBreakerSnapshot, CircuitState, Coherent, Never

\* before_request, when it does not raise, leaves a coherent breaker that is not
\* OPEN, and one that is HALF_OPEN if it was OPEN.
LEMMA BeforeRequestIsCoherent ==
    ASSUME NEW s \in Services, NEW t \in Nat, NEW b \in CircuitBreakerSnapshot,
           Coherent(b, s, t), MayProbe(b, s, t)
    PROVE  /\ before_request(b) \in CircuitBreakerSnapshot
           /\ Coherent(before_request(b), s, t)
           /\ before_request(b).state =
                (IF b.state = "OPEN" THEN "HALF_OPEN" ELSE b.state)
           /\ before_request(b).state # "OPEN"
           /\ before_request(b).opened_at = b.opened_at
BY BreakerAssumption
   DEF before_request, MayProbe, RecoversAt, CircuitBreakerSnapshot, CircuitState,
       Coherent, Never

\* A recorded failure leaves a coherent breaker that is not HALF_OPEN: either it
\* is OPEN from now on, or state and opened_at are as they were.
LEMMA RecordFailureIsCoherent ==
    ASSUME NEW s \in Services, NEW t \in Nat, NEW b \in CircuitBreakerSnapshot,
           Coherent(b, s, t)
    PROVE  LET a == record_failure(b, s, t) IN
           /\ a \in CircuitBreakerSnapshot
           /\ Coherent(a, s, t)
           /\ a.state # "HALF_OPEN"
           /\ \/ a.state = "OPEN" /\ a.opened_at = t
              \/ /\ a.state = b.state /\ a.opened_at = b.opened_at
                 /\ b.state # "HALF_OPEN"
BY BreakerAssumption
   DEF record_failure, Opens, CircuitBreakerSnapshot, CircuitState, Coherent, Never

\* Time does not make a coherent breaker incoherent.
LEMMA CoherentLater ==
    ASSUME NEW s \in Services, NEW t \in Nat, NEW u \in Nat, t <= u,
           NEW b \in CircuitBreakerSnapshot, Coherent(b, s, t)
    PROVE  Coherent(b, s, u)
BY BreakerAssumption DEF CircuitBreakerSnapshot, CircuitState, Coherent, Never

-----------------------------------------------------------------------------
(***************************************************************************)
(* Type correctness.                                                       *)
(***************************************************************************)

LEMMA CellParts ==
    /\ \A c \in Cells : ServiceOf(c) \in Services /\ ReplicaOf(c) \in Replicas
    /\ (CHOOSE c \in Cells : TRUE) \in Cells
<1>1. \A c \in Cells : ServiceOf(c) \in Services /\ ReplicaOf(c) \in Replicas
  BY DEF Cells, ServiceOf, ReplicaOf
<1>2. \E c \in Cells : TRUE
  <2>1. PICK r \in Replicas, s \in Services : TRUE
    BY HealthAssumption
  <2>2. <<r, s>> \in Cells
    BY <2>1 DEF Cells
  <2> QED BY <2>2
<1> QED BY <1>1, <1>2

\* What a verdict makes of a coherent breaker.
LEMMA VerdictIsCoherent ==
    ASSUME now \in Nat, NEW c \in Cells, NEW b \in CircuitBreakerSnapshot,
           Coherent(b, ServiceOf(c), now), NEW healthy \in BOOLEAN
    PROVE  LET a == Verdict(c, b, healthy) IN
           /\ a \in CircuitBreakerSnapshot
           /\ Coherent(a, ServiceOf(c), now)
           /\ a.state # "HALF_OPEN"
           /\ healthy => a.state = "CLOSED"
<1>1. ServiceOf(c) \in Services
  BY CellParts
<1>2. CASE healthy
  BY <1>1, <1>2, DefaultIsCoherent DEF Verdict, record_success
<1>3. CASE ~healthy
  BY <1>1, <1>3, RecordFailureIsCoherent DEF Verdict
<1> QED BY <1>2, <1>3

\* What SetBreaker does to the variables it writes.
LEMMA SetBreakerEffect ==
    ASSUME TypeOK, NEW c \in Cells, NEW before, NEW after \in CircuitBreakerSnapshot,
           NEW from_state, SetBreaker(c, before, after, from_state)
    PROVE  /\ breaker' \in [Cells -> CircuitBreakerSnapshot]
           /\ breaker'[c] = after
           /\ \A d \in Cells : d # c => breaker'[d] = breaker[d]
           /\ open_total' \in [Cells -> Nat]
           /\ opens' \in [Cells -> Nat]
           /\ orphaned' = orphaned \ {c}
           /\ orphaned' \in SUBSET Cells
<1> DEFINE counted == IF CountsOpening(from_state, after.state) THEN 1 ELSE 0
           entered == IF before.state # "OPEN" /\ after.state = "OPEN" THEN 1 ELSE 0
<1>1. counted \in Nat /\ entered \in Nat
  OBVIOUS
<1>2. breaker' = [breaker EXCEPT ![c] = after] /\ orphaned' = orphaned \ {c}
  BY DEF SetBreaker
<1>3. /\ open_total' = [open_total EXCEPT ![c] = @ + counted]
      /\ opens' = [opens EXCEPT ![c] = @ + entered]
  BY DEF SetBreaker
<1> HIDE DEF counted, entered
<1>4. open_total' \in [Cells -> Nat] /\ opens' \in [Cells -> Nat]
  BY <1>1, <1>3 DEF TypeOK
<1> QED BY <1>2, <1>4 DEF TypeOK

\* What Keep and AfterVerdict do together.
LEMMA AfterVerdictEffect ==
    ASSUME TypeOK, NEW q \in Checks, NEW c \in Cells, NEW healthy \in BOOLEAN,
           NEW from \in {"admit", "probe"}, breaker'[c] \in CircuitBreakerSnapshot,
           Keep(q, c, healthy), AfterVerdict(q, c, from)
    PROVE  /\ result' \in [Requests -> HealthCheckResult]
           /\ result'[q] = [healthy |-> healthy, circuit_state |-> breaker'[c].state]
           /\ \A p \in Requests : p # q => result'[p] = result[p] /\ pc'[p] = pc[p]
           /\ pc[q] = from
           /\ pc' \in [Requests -> Suspended \cup {"idle", "done"}]
           /\ pc'[q] \in {"publish", "cache_set"}
           /\ gauge' \in [Cells -> CircuitState \cup {Unset}]
           /\ gauge'[c] \in {gauge[c], breaker'[c].state}
           /\ \A d \in Cells : d # c => gauge'[d] = gauge[d]
<1>0. q \in Requests
  BY DEF Requests
<1>1. breaker'[c].state \in CircuitState
  BY DEF CircuitBreakerSnapshot
<1>2. /\ result' \in [Requests -> HealthCheckResult]
      /\ result'[q] = [healthy |-> healthy, circuit_state |-> breaker'[c].state]
      /\ \A p \in Requests : p # q => result'[p] = result[p]
  BY <1>0, <1>1 DEF Keep, TypeOK, HealthCheckResult
<1>3. /\ pc[q] = from
      /\ pc' \in [Requests -> Suspended \cup {"idle", "done"}]
      /\ pc'[q] \in {"publish", "cache_set"}
      /\ \A p \in Requests : p # q => pc'[p] = pc[p]
  BY <1>0 DEF AfterVerdict, Resume, TypeOK, Suspended
<1>4. result'[q].circuit_state = breaker'[c].state
  BY <1>2
<1>5. /\ gauge' \in [Cells -> CircuitState \cup {Unset}]
      /\ gauge'[c] \in {gauge[c], breaker'[c].state}
      /\ \A d \in Cells : d # c => gauge'[d] = gauge[d]
  BY <1>1, <1>4 DEF AfterVerdict, TypeOK
<1> QED BY <1>2, <1>3, <1>5

-----------------------------------------------------------------------------
(***************************************************************************)
(* The inductive invariant.  BreakerCoherent is inductive together with    *)
(* the typing.  OpenTotalNeverUndercounts is not: it needs to know that no *)
(* probe was let through by an OPEN breaker, which SeenAdmits adds.        *)
(* AlertsAreReal needs to know of every breaker that is not CLOSED, and of *)
(* every result on its way to the gauge, that it has a cause.              *)
(***************************************************************************)
SeenAdmits == \A q \in Checks : pc[q] = "probe" => seen[q] # "OPEN"

\* A state the gauge of c may be told: the breaker of c was in it once.
Caused(c, state) == state # "HALF_OPEN" /\ (state = "OPEN" => opens[c] > 0)

Unreported(q) == pc[q] \in {"cache_set", "stored"}

ReportsCaused ==
    /\ \A c \in Cells : breaker[c].state # "CLOSED" => opens[c] > 0
    /\ \A c \in Cells : Caused(c, gauge[c])
    /\ \A q \in Requests : Unreported(q) => Caused(target[q], result[q].circuit_state)

IInv ==
    /\ TypeOK
    /\ BreakerCoherent
    /\ HalfOpenHasProber
    /\ OpenTotalNeverUndercounts
    /\ ReportsCaused
    /\ SeenAdmits

LEMMA InitIInv == Init => IInv
<1> SUFFICES ASSUME Init PROVE IInv
  OBVIOUS
<1>1. TypeOK
  <2>1. DefaultSnapshot \in CircuitBreakerSnapshot
    BY DEF DefaultSnapshot, CircuitBreakerSnapshot, CircuitState, Never
  <2>2. NoVerdict \in HealthCheckResult
    BY DEF NoVerdict, HealthCheckResult, CircuitState
  <2>3. target \in [Requests -> Cells]
    BY CellParts DEF Init
  <2>4. cache \in [Services -> CacheEntry]
    BY <2>2 DEF Init, CacheEntry
  <2> QED BY <2>1, <2>2, <2>3, <2>4
          DEF Init, TypeOK, Suspended, CircuitState, Unset, Requests
<1>2. BreakerCoherent
  BY CellParts, DefaultIsCoherent DEF Init, BreakerCoherent
<1>3. HalfOpenHasProber
  BY DEF Init, HalfOpenHasProber, DefaultSnapshot
<1>4. OpenTotalNeverUndercounts
  BY DEF Init, OpenTotalNeverUndercounts
<1>5. ReportsCaused
  BY DEF Init, ReportsCaused, Caused, Unreported, DefaultSnapshot, Unset
<1>6. SeenAdmits
  BY DEF Init, SeenAdmits, Requests
<1> QED BY <1>1, <1>2, <1>3, <1>4, <1>5, <1>6 DEF IInv

\* Steps that leave the breakers and every probe alone.
LEMMA QuietStep ==
    ASSUME IInv, TypeOK',
           now' = now, UNCHANGED breakerVars,
           \A q \in Checks : pc'[q] = "probe" => pc[q] = "probe",
           \A q \in Checks : pc[q] = "probe" =>
               pc'[q] = "probe" /\ target'[q] = target[q] /\ seen'[q] = seen[q]
    PROVE  BreakerCoherent' /\ HalfOpenHasProber' /\ OpenTotalNeverUndercounts' /\ SeenAdmits'
<1>1. BreakerCoherent'
  BY DEF IInv, BreakerCoherent, breakerVars
<1>2. HalfOpenHasProber'
  BY DEF IInv, HalfOpenHasProber, breakerVars, Probing
<1>3. OpenTotalNeverUndercounts'
  BY DEF IInv, OpenTotalNeverUndercounts, breakerVars
<1>4. SeenAdmits'
  BY DEF IInv, SeenAdmits
<1> QED BY <1>1, <1>2, <1>3, <1>4

\* Steps that write neither breaker nor gauge and bring no result to be reported.
LEMMA QuietReports ==
    ASSUME IInv, UNCHANGED <<breaker, opens, gauge>>,
           \A q \in Requests : Unreported(q)' =>
               Unreported(q) /\ target'[q] = target[q] /\ result'[q] = result[q]
    PROVE  ReportsCaused'
BY DEF IInv, ReportsCaused, Caused

LEMMA ArriveIInv ==
    ASSUME IInv, NEW q \in Requests, NEW c \in Cells, Arrive(q, c)
    PROVE  IInv'
<1>1. TypeOK'
  BY DEF IInv, TypeOK, Arrive, Resume, Suspended, breakerVars
<1>2. ReportsCaused'
  BY QuietReports DEF IInv, TypeOK, Arrive, Resume, Unreported, breakerVars
<1>3. BreakerCoherent' /\ HalfOpenHasProber' /\ OpenTotalNeverUndercounts' /\ SeenAdmits'
  BY <1>1, QuietStep DEF IInv, TypeOK, Arrive, Resume, Requests
<1> QED BY <1>1, <1>2, <1>3 DEF IInv

\* Steps that only move q on.
LEMMA MoveIInv ==
    ASSUME IInv, NEW q \in Requests,
           LookupFails(q) \/ LookupCheck(q) \/ CacheFails(q) \/ Reject(q) \/ Respond(q)
    PROVE  IInv'
<1>1. PICK from \in Suspended, to \in {"done", "cache_get"} :
         /\ Resume(q, from, to) /\ from # "probe"
         /\ to = "cache_get" => q \in Checks
         /\ UNCHANGED <<now, breakerVars, cache, gauge, target, seen, result, restarts>>
  BY DEF LookupFails, LookupCheck, CacheFails, Reject, Respond, Suspended
<1>2. TypeOK'
  BY <1>1, HealthAssumption DEF IInv, TypeOK, Resume, Suspended, breakerVars
<1>3. ReportsCaused'
  BY <1>1, QuietReports DEF IInv, TypeOK, Resume, Unreported, breakerVars
<1>4. BreakerCoherent' /\ HalfOpenHasProber' /\ OpenTotalNeverUndercounts' /\ SeenAdmits'
  BY <1>1, <1>2, QuietStep DEF IInv, TypeOK, Resume, Requests
<1> QED BY <1>2, <1>3, <1>4 DEF IInv

LEMMA CacheReadIInv ==
    ASSUME IInv, NEW q \in Requests, CacheRead(q)
    PROVE  IInv'
<1> DEFINE s == ServiceOf(target[q])
<1>1. s \in Services
  BY CellParts DEF IInv, TypeOK
<1>2. cache[s].result \in HealthCheckResult
  BY <1>1 DEF IInv, TypeOK, CacheEntry
<1>3. /\ UNCHANGED <<now, breakerVars, cache, gauge, target, seen, restarts>>
      /\ \/ Resume(q, "cache_get", "done") /\ result' = [result EXCEPT ![q] = cache[s].result]
         \/ Resume(q, "cache_get", "admit") /\ UNCHANGED result
  BY DEF CacheRead
<1> HIDE DEF s
<1>4. q \in Checks
  BY <1>3 DEF IInv, TypeOK, Resume, Requests
<1>5. TypeOK'
  <2>1. result' \in [Requests -> HealthCheckResult]
    BY <1>2, <1>3 DEF IInv, TypeOK
  <2>2. /\ pc' \in [Requests -> Suspended \cup {"idle", "done"}]
        /\ \A p \in Trips : pc'[p] \in {"idle", "lookup", "publish", "done"}
    <3>1. PICK to \in {"done", "admit"} : Resume(q, "cache_get", to)
      BY <1>3
    <3> QED BY <3>1, <1>4, HealthAssumption DEF IInv, TypeOK, Resume, Suspended
  <2> QED BY <1>3, <2>1, <2>2 DEF IInv, TypeOK, breakerVars
<1>6. ReportsCaused'
  BY <1>2, <1>3, QuietReports DEF IInv, TypeOK, Resume, Unreported, breakerVars
<1>7. BreakerCoherent' /\ HalfOpenHasProber' /\ OpenTotalNeverUndercounts' /\ SeenAdmits'
  BY <1>3, <1>5, QuietStep DEF IInv, TypeOK, Resume, Requests
<1> QED BY <1>5, <1>6, <1>7 DEF IInv

LEMMA StoreIInv ==
    ASSUME IInv, NEW q \in Requests, StoreResult(q) \/ StoreFails(q)
    PROVE  IInv'
<1> DEFINE s == ServiceOf(target[q])
           entry == [result |-> result[q], expires_at |-> now + CacheTtl[s]]
<1>1. s \in Services
  BY CellParts DEF IInv, TypeOK
<1>2. entry \in CacheEntry
  BY <1>1, HealthAssumption DEF IInv, TypeOK, CacheEntry
<1>3. PICK to \in {"stored", "done"} :
      /\ Resume(q, "cache_set", to)
      /\ UNCHANGED <<now, breakerVars, gauge, target, seen, result, restarts>>
      /\ cache' = [cache EXCEPT ![s] = entry] \/ cache' = cache
  BY DEF StoreResult, StoreFails, Store
<1> HIDE DEF s, entry
<1>4. q \in Checks
  BY <1>3 DEF IInv, TypeOK, Resume, Requests
<1>5. TypeOK'
  BY <1>2, <1>3, <1>4, HealthAssumption DEF IInv, TypeOK, Resume, Suspended, breakerVars
<1>6. ReportsCaused'
  BY <1>3, QuietReports DEF IInv, TypeOK, Resume, Unreported, breakerVars
<1>7. BreakerCoherent' /\ HalfOpenHasProber' /\ OpenTotalNeverUndercounts' /\ SeenAdmits'
  BY <1>3, <1>5, QuietStep DEF IInv, TypeOK, Resume, Requests
<1> QED BY <1>5, <1>6, <1>7 DEF IInv

LEMMA ReportIInv ==
    ASSUME IInv, NEW q \in Requests, Report(q)
    PROVE  IInv'
<1>1. /\ result[q].circuit_state \in CircuitState
      /\ target[q] \in Cells
      /\ Unreported(q) /\ Caused(target[q], result[q].circuit_state)
  BY DEF Report, Resume, IInv, TypeOK, HealthCheckResult, ReportsCaused, Unreported
<1>2. TypeOK'
  BY <1>1 DEF Report, IInv, TypeOK, Resume, Suspended, breakerVars
<1>3. ReportsCaused'
  BY <1>1 DEF Report, Resume, IInv, TypeOK, ReportsCaused, Caused, Unreported, breakerVars
<1>4. BreakerCoherent' /\ HalfOpenHasProber' /\ OpenTotalNeverUndercounts' /\ SeenAdmits'
  BY <1>2, QuietStep DEF Report, IInv, TypeOK, Resume, Requests
<1> QED BY <1>2, <1>3, <1>4 DEF IInv

LEMMA AdmitIInv ==
    ASSUME IInv, NEW q \in Requests, Admit(q)
    PROVE  IInv'
<1> DEFINE c == target[q]
           s == ServiceOf(c)
           b == before_request(breaker[c])
<1>1. c \in Cells /\ s \in Services /\ breaker[c] \in CircuitBreakerSnapshot
  BY CellParts DEF IInv, TypeOK
<1>2. /\ MayProbe(breaker[c], s, now)
      /\ Resume(q, "admit", "probe")
      /\ breaker' = [breaker EXCEPT ![c] = b]
      /\ seen' = [seen EXCEPT ![q] = b.state]
      /\ orphaned' = IF breaker[c].state = "OPEN" THEN orphaned \ {c} ELSE orphaned
      /\ UNCHANGED <<now, open_total, opens, cache, gauge, target, result, restarts>>
  BY DEF Admit
<1>3. /\ b \in CircuitBreakerSnapshot
      /\ b.state \in CircuitState
      /\ Coherent(b, s, now)
      /\ b.state # "OPEN"
      /\ breaker[c].state # "OPEN" => b.state = breaker[c].state
      /\ breaker[c].state = "OPEN" => b.state = "HALF_OPEN"
  <2>1. Coherent(breaker[c], s, now) /\ now \in Nat
    BY <1>1 DEF IInv, BreakerCoherent, TypeOK
  <2>2. /\ b \in CircuitBreakerSnapshot
        /\ Coherent(b, s, now)
        /\ b.state = (IF breaker[c].state = "OPEN" THEN "HALF_OPEN" ELSE breaker[c].state)
        /\ b.state # "OPEN"
    BY <1>1, <1>2, <2>1, BeforeRequestIsCoherent
  <2> HIDE DEF b
  <2> QED BY <2>2 DEF CircuitBreakerSnapshot
<1>4. q \in Checks
  BY <1>2 DEF IInv, TypeOK, Resume, Requests
<1> HIDE DEF b
<1>5. TypeOK'
  <2>1. /\ pc' \in [Requests -> Suspended \cup {"idle", "done"}]
        /\ \A p \in Trips : pc'[p] \in {"idle", "lookup", "publish", "done"}
    BY <1>2, <1>4, HealthAssumption DEF IInv, TypeOK, Resume, Suspended
  <2>2. /\ breaker' \in [Cells -> CircuitBreakerSnapshot]
        /\ seen' \in [Requests -> CircuitState]
        /\ orphaned' \in SUBSET Cells
    BY <1>1, <1>2, <1>3 DEF IInv, TypeOK
  <2> QED BY <1>2, <2>1, <2>2 DEF IInv, TypeOK
<1>6. BreakerCoherent'
  BY <1>1, <1>2, <1>3 DEF IInv, TypeOK, BreakerCoherent
<1>7. HalfOpenHasProber'
  <2> SUFFICES ASSUME NEW d \in Cells, breaker'[d].state = "HALF_OPEN", d \notin orphaned'
               PROVE  \E p \in Checks : Probing(p, d)' /\ seen'[p] = "HALF_OPEN"
    BY DEF HalfOpenHasProber
  <2>1. \A p \in Checks : Probing(p, d) =>
            Probing(p, d)' /\ seen'[p] = seen[p]
    BY <1>2, <1>4 DEF IInv, TypeOK, Resume, Probing, Requests
  <2>2. CASE d = c /\ breaker[c].state = "OPEN"
    BY <1>1, <1>2, <1>3, <1>4, <2>2 DEF IInv, TypeOK, Resume, Probing
  <2>3. CASE d # c \/ breaker[c].state # "OPEN"
    <3>1. breaker[d].state = "HALF_OPEN" /\ d \notin orphaned
      BY <1>1, <1>2, <1>3, <2>3 DEF IInv, TypeOK
    <3>2. PICK p \in Checks : Probing(p, d) /\ seen[p] = "HALF_OPEN"
      BY <3>1 DEF IInv, HalfOpenHasProber
    <3> QED BY <2>1, <3>2
  <2> QED BY <2>2, <2>3
<1>8. OpenTotalNeverUndercounts'
  BY <1>2 DEF IInv, OpenTotalNeverUndercounts
<1>9. ReportsCaused'
  BY <1>1, <1>2, <1>3 DEF IInv, TypeOK, ReportsCaused, Caused, Unreported, Resume
<1>10. SeenAdmits'
  BY <1>2, <1>3, <1>4 DEF IInv, TypeOK, SeenAdmits, Resume, Requests
<1> QED BY <1>5, <1>6, <1>7, <1>8, <1>9, <1>10 DEF IInv

\* Steps that write the breaker of c: verdicts and trips.
LEMMA SetBreakerStep ==
    ASSUME IInv, now' = now, NEW c \in Cells, NEW before,
           NEW after \in CircuitBreakerSnapshot, NEW from_state,
           SetBreaker(c, before, after, from_state),
           Coherent(after, ServiceOf(c), now), after.state # "HALF_OPEN",
           before.state # "OPEN" /\ after.state = "OPEN" => from_state # "OPEN",
           \A p \in Checks, d \in Cells : d # c /\ Probing(p, d) =>
               Probing(p, d)' /\ seen'[p] = seen[p]
    PROVE  BreakerCoherent' /\ HalfOpenHasProber' /\ OpenTotalNeverUndercounts'
<1>1. /\ breaker'[c] = after
      /\ \A d \in Cells : d # c => breaker'[d] = breaker[d]
      /\ orphaned' = orphaned \ {c}
  BY SetBreakerEffect DEF IInv
<1>2. BreakerCoherent'
  BY <1>1 DEF IInv, BreakerCoherent
<1>3. HalfOpenHasProber'
  <2> SUFFICES ASSUME NEW d \in Cells, breaker'[d].state = "HALF_OPEN", d \notin orphaned'
               PROVE  \E p \in Checks : Probing(p, d)' /\ seen'[p] = "HALF_OPEN"
    BY DEF HalfOpenHasProber
  <2>1. d # c /\ breaker[d].state = "HALF_OPEN" /\ d \notin orphaned
    BY <1>1
  <2>2. PICK p \in Checks : Probing(p, d) /\ seen[p] = "HALF_OPEN"
    BY <2>1 DEF IInv, HalfOpenHasProber
  <2> QED BY <2>1, <2>2
<1>4. OpenTotalNeverUndercounts'
  <2>1. /\ open_total' = [open_total EXCEPT ![c] =
               @ + IF CountsOpening(from_state, after.state) THEN 1 ELSE 0]
        /\ opens' = [opens EXCEPT ![c] =
               @ + IF before.state # "OPEN" /\ after.state = "OPEN" THEN 1 ELSE 0]
    BY DEF SetBreaker
  <2>2. \A d \in Cells : opens[d] \in Nat /\ open_total[d] \in Nat /\ opens[d] <= open_total[d]
    BY DEF IInv, TypeOK, OpenTotalNeverUndercounts
  <2>3. ASSUME NEW d \in Cells PROVE opens'[d] <= open_total'[d]
    <3>1. CASE d = c
      <4>1. CASE before.state # "OPEN" /\ after.state = "OPEN"
        <5>1. CountsOpening(from_state, after.state)
          BY <4>1 DEF CountsOpening
        <5>2. opens'[d] = opens[d] + 1 /\ open_total'[d] = open_total[d] + 1
          BY <2>1, <3>1, <4>1, <5>1 DEF IInv, TypeOK
        <5> QED BY <2>2, <5>2
      <4>2. CASE ~(before.state # "OPEN" /\ after.state = "OPEN")
        <5>1. opens'[d] = opens[d] + 0
          BY <2>1, <3>1, <4>2 DEF IInv, TypeOK
        <5>2. open_total'[d] = open_total[d] + 0 \/ open_total'[d] = open_total[d] + 1
          BY <2>1, <3>1 DEF IInv, TypeOK
        <5> QED BY <2>2, <5>1, <5>2
      <4> QED BY <4>1, <4>2
    <3>2. CASE d # c
      BY <2>1, <2>2, <3>2 DEF IInv, TypeOK
    <3> QED BY <3>1, <3>2
  <2> QED BY <2>3 DEF OpenTotalNeverUndercounts
<1> QED BY <1>2, <1>3, <1>4

\* A breaker that is not CLOSED has opened, also after a verdict or a trip.
LEMMA SetBreakerCauses ==
    ASSUME IInv, NEW c \in Cells, NEW before, NEW after \in CircuitBreakerSnapshot,
           NEW from_state, SetBreaker(c, before, after, from_state),
           before.state = "OPEN" => opens[c] > 0, after.state # "HALF_OPEN"
    PROVE  /\ \A d \in Cells : opens[d] > 0 => opens'[d] > 0
           /\ \A d \in Cells : breaker'[d].state # "CLOSED" => opens'[d] > 0
<1> DEFINE entered == IF before.state # "OPEN" /\ after.state = "OPEN" THEN 1 ELSE 0
<1>1. /\ opens' = [opens EXCEPT ![c] = @ + entered]
      /\ breaker' = [breaker EXCEPT ![c] = after]
      /\ opens \in [Cells -> Nat] /\ breaker \in [Cells -> CircuitBreakerSnapshot]
  BY DEF SetBreaker, IInv, TypeOK
<1>2. /\ opens'[c] = opens[c] + entered /\ breaker'[c] = after
      /\ \A d \in Cells : d # c => opens'[d] = opens[d] /\ breaker'[d] = breaker[d]
  BY <1>1
<1>3. after.state # "CLOSED" => opens'[c] > 0
  <2>1. after.state \in CircuitState
    BY DEF CircuitBreakerSnapshot
  <2>2. opens[c] \in Nat
    BY <1>1
  <2> QED BY <1>2, <2>1, <2>2 DEF CircuitState
<1>4. \A d \in Cells : opens[d] > 0 => opens'[d] > 0
  BY <1>1, <1>2
<1>5. \A d \in Cells : d # c /\ breaker'[d].state # "CLOSED" => opens'[d] > 0
  BY <1>2 DEF IInv, ReportsCaused
<1> QED BY <1>2, <1>3, <1>4, <1>5

\* The result of a verdict, and the gauge it may be reported to at once.
LEMMA VerdictCauses ==
    ASSUME IInv, NEW q \in Requests, NEW c \in Cells, c = target[q],
           NEW state \in CircuitState, state # "HALF_OPEN", state = breaker'[c].state,
           \A d \in Cells : opens[d] > 0 => opens'[d] > 0,
           \A d \in Cells : breaker'[d].state # "CLOSED" => opens'[d] > 0,
           target' = target, result'[q].circuit_state = state,
           \A p \in Requests : p # q => result'[p] = result[p] /\ pc'[p] = pc[p],
           gauge'[c] \in {gauge[c], state},
           \A d \in Cells : d # c => gauge'[d] = gauge[d]
    PROVE  ReportsCaused'
<1>1. \A d \in Cells : Caused(d, gauge[d])
  BY DEF IInv, ReportsCaused
<1>2. state = "OPEN" => opens'[c] > 0
  OBVIOUS
<1>3. \A d \in Cells : Caused(d, gauge[d])'
  BY <1>1, <1>2 DEF Caused
<1>4. \A p \in Requests : Unreported(p)' => Caused(target[p], result[p].circuit_state)'
  <2> SUFFICES ASSUME NEW p \in Requests, Unreported(p)'
               PROVE  Caused(target[p], result[p].circuit_state)'
    OBVIOUS
  <2>1. CASE p = q
    BY <1>2, <2>1 DEF Caused
  <2>2. CASE p # q
    BY <2>2 DEF IInv, TypeOK, ReportsCaused, Caused, Unreported
  <2> QED BY <2>1, <2>2
<1> QED BY <1>3, <1>4 DEF ReportsCaused

LEMMA ProbeReturnsIInv ==
    ASSUME IInv, NEW q \in Requests, NEW healthy \in BOOLEAN, ProbeReturns(q, healthy)
    PROVE  IInv'
<1> DEFINE c == target[q]
           a == Verdict(c, breaker[c], healthy)
<1>1. /\ c \in Cells /\ breaker[c] \in CircuitBreakerSnapshot /\ now \in Nat
      /\ Coherent(breaker[c], ServiceOf(c), now)
  BY DEF IInv, TypeOK, BreakerCoherent
<1>2. /\ SetBreaker(c, breaker[c], a, seen[q])
      /\ Keep(q, c, healthy)
      /\ AfterVerdict(q, c, "probe")
      /\ UNCHANGED <<now, cache, target, seen, restarts>>
  BY DEF ProbeReturns, FromState
<1>3. /\ a \in CircuitBreakerSnapshot
      /\ Coherent(a, ServiceOf(c), now)
      /\ a.state # "HALF_OPEN"
      /\ healthy => a.state = "CLOSED"
  BY <1>1, VerdictIsCoherent
<1> HIDE DEF c, a
<1>4. q \in Checks /\ pc[q] = "probe"
  BY <1>2 DEF AfterVerdict, Resume, IInv, TypeOK, Requests
<1>5. /\ breaker' \in [Cells -> CircuitBreakerSnapshot] /\ breaker'[c] = a
      /\ open_total' \in [Cells -> Nat] /\ opens' \in [Cells -> Nat]
      /\ orphaned' \in SUBSET Cells
  BY <1>1, <1>2, <1>3, SetBreakerEffect DEF IInv
<1>6. /\ result' \in [Requests -> HealthCheckResult]
      /\ result'[q] = [healthy |-> healthy, circuit_state |-> a.state]
      /\ \A p \in Requests : p # q => result'[p] = result[p] /\ pc'[p] = pc[p]
      /\ pc' \in [Requests -> Suspended \cup {"idle", "done"}]
      /\ pc'[q] \in {"publish", "cache_set"}
      /\ gauge' \in [Cells -> CircuitState \cup {Unset}]
      /\ gauge'[c] \in {gauge[c], a.state}
      /\ \A d \in Cells : d # c => gauge'[d] = gauge[d]
  BY <1>1, <1>2, <1>4, <1>5, AfterVerdictEffect DEF IInv
<1>7. TypeOK'
  BY <1>2, <1>4, <1>5, <1>6, HealthAssumption DEF IInv, TypeOK, Requests
<1>8. BreakerCoherent' /\ HalfOpenHasProber' /\ OpenTotalNeverUndercounts'
  <2>1. seen[q] # "OPEN"
    BY <1>4 DEF IInv, SeenAdmits
  <2>2. \A p \in Checks, d \in Cells : d # c /\ Probing(p, d) =>
            Probing(p, d)' /\ seen'[p] = seen[p]
    BY <1>2, <1>6 DEF Probing, c, Requests
  <2> QED BY <1>1, <1>2, <1>3, <2>1, <2>2, SetBreakerStep
<1>9. ReportsCaused'
  <2>1. /\ \A d \in Cells : opens[d] > 0 => opens'[d] > 0
        /\ \A d \in Cells : breaker'[d].state # "CLOSED" => opens'[d] > 0
    <3>1. breaker[c].state = "OPEN" => opens[c] > 0
      BY <1>1 DEF IInv, ReportsCaused
    <3> QED BY <1>1, <1>2, <1>3, <3>1, SetBreakerCauses
  <2>2. a.state \in CircuitState /\ q \in Requests /\ target' = target
    BY <1>2, <1>3 DEF CircuitBreakerSnapshot
  <2> QED BY <1>1, <1>3, <1>5, <1>6, <2>1, <2>2, VerdictCauses DEF c
<1>10. SeenAdmits'
  BY <1>2, <1>6, <1>4 DEF IInv, SeenAdmits, Requests
<1> QED BY <1>7, <1>8, <1>9, <1>10 DEF IInv

LEMMA RecordDisabledIInv ==
    ASSUME IInv, NEW q \in Requests, RecordDisabled(q)
    PROVE  IInv'
<1> DEFINE c == target[q]
           b == before_request(breaker[c])
           a == Verdict(c, b, FALSE)
<1>1. /\ c \in Cells /\ breaker[c] \in CircuitBreakerSnapshot /\ now \in Nat
      /\ Coherent(breaker[c], ServiceOf(c), now) /\ ServiceOf(c) \in Services
  BY CellParts DEF IInv, TypeOK, BreakerCoherent
<1>2. /\ MayProbe(breaker[c], ServiceOf(c), now)
      /\ SetBreaker(c, b, a, b.state)
      /\ seen' = [seen EXCEPT ![q] = b.state]
      /\ Keep(q, c, FALSE)
      /\ AfterVerdict(q, c, "admit")
      /\ UNCHANGED <<now, cache, target, restarts>>
  BY DEF RecordDisabled
<1>3. /\ b \in CircuitBreakerSnapshot
      /\ Coherent(b, ServiceOf(c), now)
      /\ b.state # "OPEN"
  BY <1>1, <1>2, BeforeRequestIsCoherent
<1> HIDE DEF b
<1>4. /\ a \in CircuitBreakerSnapshot
      /\ Coherent(a, ServiceOf(c), now)
      /\ a.state # "HALF_OPEN"
  BY <1>1, <1>3, VerdictIsCoherent
<1> HIDE DEF c, a
<1>5. q \in Checks /\ pc[q] = "admit"
  BY <1>2 DEF AfterVerdict, Resume, IInv, TypeOK, Requests
<1>6. /\ breaker' \in [Cells -> CircuitBreakerSnapshot] /\ breaker'[c] = a
      /\ open_total' \in [Cells -> Nat] /\ opens' \in [Cells -> Nat]
      /\ orphaned' \in SUBSET Cells
  BY <1>1, <1>2, <1>4, SetBreakerEffect DEF IInv
<1>7. /\ result' \in [Requests -> HealthCheckResult]
      /\ result'[q] = [healthy |-> FALSE, circuit_state |-> a.state]
      /\ \A p \in Requests : p # q => result'[p] = result[p] /\ pc'[p] = pc[p]
      /\ pc' \in [Requests -> Suspended \cup {"idle", "done"}]
      /\ pc'[q] \in {"publish", "cache_set"}
      /\ gauge' \in [Cells -> CircuitState \cup {Unset}]
      /\ gauge'[c] \in {gauge[c], a.state}
      /\ \A d \in Cells : d # c => gauge'[d] = gauge[d]
  BY <1>1, <1>2, <1>5, <1>6, AfterVerdictEffect DEF IInv
<1>8. TypeOK'
  <2>1. seen' \in [Requests -> CircuitState]
    BY <1>2, <1>3 DEF CircuitBreakerSnapshot, IInv, TypeOK
  <2> QED BY <1>2, <1>5, <1>6, <1>7, <2>1, HealthAssumption DEF IInv, TypeOK, Requests
<1>9. BreakerCoherent' /\ HalfOpenHasProber' /\ OpenTotalNeverUndercounts'
  <2>1. \A p \in Checks, d \in Cells : d # c /\ Probing(p, d) =>
            Probing(p, d)' /\ seen'[p] = seen[p]
    BY <1>2, <1>5, <1>7 DEF Probing, Requests, IInv, TypeOK
  <2> QED BY <1>1, <1>2, <1>3, <1>4, <2>1, SetBreakerStep
<1>10. ReportsCaused'
  <2>1. /\ \A d \in Cells : opens[d] > 0 => opens'[d] > 0
        /\ \A d \in Cells : breaker'[d].state # "CLOSED" => opens'[d] > 0
    BY <1>1, <1>2, <1>3, <1>4, SetBreakerCauses
  <2>2. a.state \in CircuitState /\ q \in Requests /\ target' = target
    BY <1>2, <1>4 DEF CircuitBreakerSnapshot
  <2> QED BY <1>1, <1>4, <1>6, <1>7, <2>1, <2>2, VerdictCauses DEF c
<1>11. SeenAdmits'
  BY <1>2, <1>5, <1>7 DEF IInv, TypeOK, SeenAdmits, Requests
<1> QED BY <1>8, <1>9, <1>10, <1>11 DEF IInv

LEMMA ProbeRaisesIInv ==
    ASSUME IInv, NEW q \in Requests, ProbeRaises(q)
    PROVE  IInv'
<1>1. /\ Resume(q, "probe", "done")
      /\ orphaned' = orphaned \cup Orphans(q)
      /\ UNCHANGED <<now, breaker, open_total, opens, cache, gauge, target, seen, result, restarts>>
  BY DEF ProbeRaises
<1>2. q \in Checks /\ target[q] \in Cells
  BY <1>1 DEF IInv, TypeOK, Resume, Requests
<1>3. TypeOK'
  BY <1>1, <1>2, HealthAssumption DEF IInv, TypeOK, Resume, Suspended, Orphans
<1>4. HalfOpenHasProber'
  <2> SUFFICES ASSUME NEW d \in Cells, breaker[d].state = "HALF_OPEN", d \notin orphaned'
               PROVE  \E p \in Checks : Probing(p, d)' /\ seen'[p] = "HALF_OPEN"
    BY <1>1 DEF HalfOpenHasProber
  <2>1. PICK p \in Checks : Probing(p, d) /\ seen[p] = "HALF_OPEN"
    BY <1>1 DEF IInv, HalfOpenHasProber
  <2>2. p # q
    BY <1>1, <2>1 DEF Orphans, Probing
  <2> QED BY <1>1, <2>1, <2>2 DEF Probing, Resume, IInv, TypeOK, Requests
<1>5. BreakerCoherent' /\ OpenTotalNeverUndercounts' /\ ReportsCaused'
  <2>1. BreakerCoherent' /\ OpenTotalNeverUndercounts'
    BY <1>1 DEF IInv, BreakerCoherent, OpenTotalNeverUndercounts
  <2>2. ReportsCaused'
    BY <1>1, QuietReports DEF IInv, TypeOK, Resume, Unreported
  <2> QED BY <2>1, <2>2
<1>6. SeenAdmits'
  BY <1>1 DEF IInv, TypeOK, SeenAdmits, Resume, Requests
<1> QED BY <1>3, <1>4, <1>5, <1>6 DEF IInv

LEMMA TripBreakerIInv ==
    ASSUME IInv, NEW q \in Requests, TripBreaker(q)
    PROVE  IInv'
<1> DEFINE c == target[q]
           a == trip(now)
<1>1. c \in Cells /\ breaker[c] \in CircuitBreakerSnapshot /\ now \in Nat
  BY DEF IInv, TypeOK
<1>2. /\ q \in Trips
      /\ Resume(q, "lookup", "publish")
      /\ SetBreaker(c, breaker[c], a, breaker[c].state)
      /\ gauge' = [gauge EXCEPT ![c] = "OPEN"]
      /\ UNCHANGED <<now, cache, target, seen, result, restarts>>
  BY DEF TripBreaker, TripFrom
<1>3. a \in CircuitBreakerSnapshot /\ Coherent(a, ServiceOf(c), now) /\ a.state = "OPEN"
  BY <1>1, CellParts, TripIsCoherent
<1> HIDE DEF a
<1>4. TypeOK'
  <2>1. /\ pc' \in [Requests -> Suspended \cup {"idle", "done"}]
        /\ \A p \in Trips : pc'[p] \in {"idle", "lookup", "publish", "done"}
    BY <1>2 DEF IInv, TypeOK, Resume, Suspended
  <2>2. gauge' \in [Cells -> CircuitState \cup {Unset}]
    BY <1>1, <1>2 DEF IInv, TypeOK, CircuitState
  <2> QED BY <1>1, <1>2, <1>3, <2>1, <2>2, SetBreakerEffect DEF IInv, TypeOK
<1>5. BreakerCoherent' /\ HalfOpenHasProber' /\ OpenTotalNeverUndercounts'
  <2>1. \A p \in Checks, d \in Cells : d # c /\ Probing(p, d) =>
            Probing(p, d)' /\ seen'[p] = seen[p]
    BY <1>2 DEF Probing, Resume, Requests, IInv, TypeOK
  <2> QED BY <1>1, <1>2, <1>3, <2>1, SetBreakerStep
<1>6. ReportsCaused'
  <2>1. /\ \A d \in Cells : opens[d] > 0 => opens'[d] > 0
        /\ \A d \in Cells : breaker'[d].state # "CLOSED" => opens'[d] > 0
    <3>1. breaker[c].state = "OPEN" => opens[c] > 0
      BY <1>1 DEF IInv, ReportsCaused
    <3> QED BY <1>1, <1>2, <1>3, <3>1, SetBreakerCauses
  <2>2. /\ gauge'[c] = "OPEN" /\ opens'[c] > 0
        /\ \A d \in Cells : d # c => gauge'[d] = gauge[d]
    <3>1. breaker'[c] = a
      BY <1>1, <1>2, <1>3, SetBreakerEffect DEF IInv
    <3>2. opens'[c] > 0
      BY <1>1, <1>3, <2>1, <3>1
    <3> QED BY <1>1, <1>2, <3>2 DEF IInv, TypeOK
  <2>3. \A p \in Requests : Unreported(p)' => Unreported(p)
    BY <1>2 DEF Unreported, Resume, IInv, TypeOK
  <2> QED BY <1>1, <1>2, <2>1, <2>2, <2>3 DEF IInv, TypeOK, ReportsCaused, Caused
<1>7. SeenAdmits'
  BY <1>2 DEF IInv, TypeOK, SeenAdmits, Resume, Requests
<1> QED BY <1>4, <1>5, <1>6, <1>7 DEF IInv

LEMMA RestartIInv ==
    ASSUME IInv, NEW r \in Replicas, Restart(r)
    PROVE  IInv'
<1> DEFINE Reset(f, v) == [c \in Cells |-> IF ReplicaOf(c) = r THEN v ELSE f[c]]
<1>1. /\ restarts' = restarts + 1
      /\ breaker' = Reset(breaker, DefaultSnapshot)
      /\ gauge' = Reset(gauge, Unset)
      /\ open_total' = Reset(open_total, 0)
      /\ opens' = Reset(opens, 0)
      /\ orphaned' = {c \in orphaned : ReplicaOf(c) # r}
      /\ pc' = [q \in Requests |-> IF Survives(q, r) THEN pc[q] ELSE "done"]
      /\ UNCHANGED <<now, cache, target, seen, result>>
  BY DEF Restart
<1>2. /\ DefaultSnapshot \in CircuitBreakerSnapshot
      /\ DefaultSnapshot.state = "CLOSED"
      /\ \A c \in Cells : Coherent(DefaultSnapshot, ServiceOf(c), now)
  <2>1. PICK c \in Cells : TRUE
    BY CellParts
  <2> QED BY <2>1, CellParts, DefaultIsCoherent DEF IInv, TypeOK
<1>3. TypeOK'
  BY <1>1, <1>2 DEF IInv, TypeOK, Requests
<1>4. BreakerCoherent'
  BY <1>1, <1>2 DEF IInv, BreakerCoherent
<1>5. HalfOpenHasProber'
  <2> SUFFICES ASSUME NEW d \in Cells, breaker'[d].state = "HALF_OPEN", d \notin orphaned'
               PROVE  \E p \in Checks : Probing(p, d)' /\ seen'[p] = "HALF_OPEN"
    BY DEF HalfOpenHasProber
  <2>1. ReplicaOf(d) # r /\ breaker[d].state = "HALF_OPEN" /\ d \notin orphaned
    BY <1>1, <1>2
  <2>2. PICK p \in Checks : Probing(p, d) /\ seen[p] = "HALF_OPEN"
    BY <2>1 DEF IInv, HalfOpenHasProber
  <2> QED BY <1>1, <2>1, <2>2 DEF Probing, Survives, Requests
<1>6. OpenTotalNeverUndercounts'
  BY <1>1 DEF IInv, OpenTotalNeverUndercounts
<1>7. ReportsCaused'
  <2>1. \A c \in Cells : ReplicaOf(c) # r =>
            breaker'[c] = breaker[c] /\ gauge'[c] = gauge[c] /\ opens'[c] = opens[c]
    BY <1>1
  <2>2. \A c \in Cells : ReplicaOf(c) = r => breaker'[c].state = "CLOSED" /\ gauge'[c] = Unset
    BY <1>1, <1>2
  <2>3. \A q \in Requests : Unreported(q)' => Unreported(q) /\ ReplicaOf(target[q]) # r
    BY <1>1 DEF Unreported, Survives, Suspended
  <2> QED BY <1>1, <2>1, <2>2, <2>3 DEF IInv, TypeOK, ReportsCaused, Caused, Unset
<1>8. SeenAdmits'
  BY <1>1 DEF IInv, SeenAdmits, Requests
<1> QED BY <1>3, <1>4, <1>5, <1>6, <1>7, <1>8 DEF IInv

LEMMA TickIInv ==
    ASSUME IInv, Tick
    PROVE  IInv'
<1>1. now' = now + 1 /\ now \in Nat
      /\ UNCHANGED <<breakerVars, cache, gauge, requestVars, restarts>>
  BY DEF Tick, IInv, TypeOK
<1>2. TypeOK'
  BY <1>1 DEF IInv, TypeOK, breakerVars, requestVars
<1>3. BreakerCoherent'
  <2>1. ASSUME NEW c \in Cells PROVE Coherent(breaker'[c], ServiceOf(c), now')
    <3>1. /\ breaker'[c] = breaker[c] /\ breaker[c] \in CircuitBreakerSnapshot
          /\ Coherent(breaker[c], ServiceOf(c), now) /\ ServiceOf(c) \in Services
      BY <1>1, CellParts DEF IInv, TypeOK, BreakerCoherent, breakerVars
    <3>2. now' \in Nat /\ now <= now'
      BY <1>1
    <3> QED BY <1>1, <3>1, <3>2, CoherentLater
  <2> QED BY <2>1 DEF BreakerCoherent
<1>4. HalfOpenHasProber' /\ OpenTotalNeverUndercounts' /\ SeenAdmits'
  BY <1>1 DEF IInv, HalfOpenHasProber, OpenTotalNeverUndercounts, SeenAdmits,
              Probing, breakerVars, requestVars
<1>5. ReportsCaused'
  BY <1>1, QuietReports DEF Unreported, breakerVars, requestVars
<1> QED BY <1>2, <1>3, <1>4, <1>5 DEF IInv

\* IInv is inductive: one step per action of Next.
LEMMA NextIInv == IInv /\ [Next]_vars => IInv'
<1> SUFFICES ASSUME IInv, [Next]_vars PROVE IInv'
  OBVIOUS
<1>1. ASSUME NEW q \in Requests, NEW c \in Cells, Arrive(q, c) PROVE IInv'
  BY <1>1, ArriveIInv
<1>2. ASSUME NEW q \in Requests, Serve(q) PROVE IInv'
  <2>1. CASE LookupFails(q) \/ LookupCheck(q) \/ CacheFails(q) \/ Reject(q) \/ Respond(q)
    BY <2>1, MoveIInv
  <2>2. CASE TripBreaker(q)
    BY <2>2, TripBreakerIInv
  <2>3. CASE CacheRead(q)
    BY <2>3, CacheReadIInv
  <2>4. CASE Admit(q)
    BY <2>4, AdmitIInv
  <2>5. CASE RecordDisabled(q)
    BY <2>5, RecordDisabledIInv
  <2>6. CASE \E healthy \in BOOLEAN : ProbeReturns(q, healthy)
    BY <2>6, ProbeReturnsIInv
  <2>7. CASE ProbeRaises(q)
    BY <2>7, ProbeRaisesIInv
  <2>8. CASE StoreResult(q) \/ StoreFails(q)
    BY <2>8, StoreIInv
  <2>9. CASE Report(q)
    BY <2>9, ReportIInv
  <2> QED BY <1>2, <2>1, <2>2, <2>3, <2>4, <2>5, <2>6, <2>7, <2>8, <2>9 DEF Serve
<1>3. ASSUME NEW r \in Replicas, Restart(r) PROVE IInv'
  BY <1>3, RestartIInv
<1>4. CASE Tick
  BY <1>4, TickIInv
<1>5. CASE UNCHANGED vars
  BY <1>5 DEF vars, breakerVars, requestVars, IInv, TypeOK, BreakerCoherent,
              HalfOpenHasProber, OpenTotalNeverUndercounts, ReportsCaused, Caused,
              Unreported, SeenAdmits, Probing
<1> QED BY <1>1, <1>2, <1>3, <1>4, <1>5 DEF Next

THEOREM Inductive == Spec => []IInv
BY InitIInv, NextIInv, PTL DEF Spec

-----------------------------------------------------------------------------
(***************************************************************************)
(* The invariants.                                                         *)
(***************************************************************************)

\* The state of the replicas stays well typed, and no trip is ever served as a
\* check (HealthChecker.check, trip_circuit_breaker).
THEOREM TypeCorrect == Spec => []TypeOK
<1>1. IInv => TypeOK
  BY DEF IInv
<1> QED BY <1>1, Inductive, PTL

\* Whatever order late verdicts, trips and restarts come in, the snapshot of
\* every breaker is coherent (circuit_breaker.py:19-71).
THEOREM BreakersStayCoherent == Spec => []BreakerCoherent
<1>1. IInv => BreakerCoherent
  BY DEF IInv
<1> QED BY <1>1, Inductive, PTL

\* A HALF_OPEN breaker has a half-open probe out, unless one ended in an
\* unclassified exception (health.py:52-58).
THEOREM HalfOpenIsProbed == Spec => []HalfOpenHasProber
<1>1. IInv => HalfOpenHasProber
  BY DEF IInv
<1> QED BY <1>1, Inductive, PTL

\* circuit_breaker_open_total counts every opening at least once, with any
\* number of concurrent requests (metrics.py:165-180).
THEOREM OpeningsAreCounted == Spec => []OpenTotalNeverUndercounts
<1>1. IInv => OpenTotalNeverUndercounts
  BY DEF IInv
<1> QED BY <1>1, Inductive, PTL

\* The gauge of a replica says OPEN only if its breaker has opened there since
\* the process started, whatever cached results of others it returns and however
\* late it reports its own (health.py:44-63).
THEOREM AlertsStayReal == Spec => []AlertsAreReal
<1>1. IInv => AlertsAreReal
  BY DEF IInv, ReportsCaused, Caused, AlertsAreReal
<1> QED BY <1>1, Inductive, PTL

\* circuit_breaker_state never has its documented value HALF_OPEN=1
\* (metrics.py:109, 188), not even while a breaker is HALF_OPEN: before_request
\* tells the metrics nothing, and a verdict never leaves a breaker in that state.
THEOREM HalfOpenIsNeverShown == Spec => [](\A c \in Cells : gauge[c] # "HALF_OPEN")
<1>1. IInv => \A c \in Cells : gauge[c] # "HALF_OPEN"
  BY DEF IInv, ReportsCaused, Caused
<1> QED BY <1>1, Inductive, PTL

-----------------------------------------------------------------------------
(***************************************************************************)
(* What no step may do.                                                    *)
(***************************************************************************)

\* Among the steps that write a breaker only a verdict could close it, and a
\* verdict needs a probe.
LEMMA QuietOpenKept == IInv /\ [Next]_vars => QuietOpenStep
<1> SUFFICES ASSUME IInv, [Next]_vars, NEW c \in Cells, BlockedUntilRecovery(c),
                    \A q \in Checks : ~Probing(q, c), restarts' = restarts
             PROVE  breaker'[c].state = "OPEN"
  BY DEF QuietOpenStep
<1>1. breaker[c].state = "OPEN" /\ ~MayProbe(breaker[c], ServiceOf(c), now)
  <2>1. /\ breaker[c].opened_at \in 0..now /\ now \in Nat
        /\ RecoveryTimeout[ServiceOf(c)] \in Nat
    BY CellParts, BreakerAssumption DEF IInv, TypeOK, BreakerCoherent, Coherent, BlockedUntilRecovery
  <2> QED BY <2>1 DEF BlockedUntilRecovery, MayProbe, RecoversAt, Never
<1>2. SUFFICES ASSUME breaker' # breaker PROVE breaker'[c].state = "OPEN"
  BY <1>1
<1>3. PICK q \in Requests : \/ TripBreaker(q) \/ Admit(q) \/ RecordDisabled(q)
                            \/ \E healthy \in BOOLEAN : ProbeReturns(q, healthy)
  <2>1. ~Tick /\ \A r \in Replicas : ~Restart(r)
    BY <1>2 DEF Tick, Restart, breakerVars, IInv, TypeOK
  <2>2. \A q \in Requests :
          ~(\/ \E d \in Cells : Arrive(q, d)
            \/ LookupFails(q) \/ LookupCheck(q) \/ CacheRead(q) \/ CacheFails(q)
            \/ Reject(q) \/ ProbeRaises(q) \/ StoreResult(q) \/ StoreFails(q)
            \/ Report(q) \/ Respond(q))
    BY <1>2 DEF Arrive, LookupFails, LookupCheck, CacheRead, CacheFails, Reject, ProbeRaises,
                StoreResult, StoreFails, Report, Respond, breakerVars
  <2> QED BY <1>2, <2>1, <2>2 DEF Next, Serve, vars, breakerVars
<1>4. CASE TripBreaker(q)
  BY <1>1, <1>4 DEF TripBreaker, SetBreaker, trip, IInv, TypeOK
<1>5. CASE Admit(q)
  BY <1>1, <1>5 DEF Admit, IInv, TypeOK
<1>6. CASE RecordDisabled(q)
  BY <1>1, <1>6 DEF RecordDisabled, SetBreaker, IInv, TypeOK
<1>7. CASE \E healthy \in BOOLEAN : ProbeReturns(q, healthy)
  <2>1. pc[q] = "probe"
    BY <1>7 DEF ProbeReturns, AfterVerdict, Resume
  <2>2. q \in Checks
    BY <2>1 DEF IInv, TypeOK, Requests
  <2>3. target[q] # c
    BY <2>1, <2>2 DEF Probing
  <2> QED BY <1>1, <1>7, <2>3 DEF ProbeReturns, SetBreaker, IInv, TypeOK
<1> QED BY <1>3, <1>4, <1>5, <1>6, <1>7

\* An OPEN breaker no probe is out for stays OPEN until its recovery timeout or
\* the restart of its replica (circuit_breaker.py:23-29).
THEOREM QuietOpenStaysOpen == Spec => QuietOpenHolds
<1>1. IInv /\ [Next]_vars => [QuietOpenStep]_vars
  BY QuietOpenKept
<1> QED BY <1>1, Inductive, PTL DEF Spec, QuietOpenHolds

-----------------------------------------------------------------------------
(***************************************************************************)
(* Requests that do not overlap.  OpenTotalIsExact and OpenUntilRecovery,  *)
(* which concurrent requests violate, hold where no two requests are       *)
(* served for the same cell at once: the state a probe was let through in  *)
(* is then still the state of the breaker when its verdict is recorded.    *)
(* Restarts and failures of Redis do no harm to either.                    *)
(***************************************************************************)
OneAtATime == \A p, q \in InFlight : target[p] = target[q] => p = q

SeenIsCurrent == \A q \in Checks : pc[q] = "probe" => seen[q] = breaker[target[q]].state

Sequential == SeenIsCurrent /\ OpenTotalIsExact

\* A transition reported from the state really left is counted if it opens.
LEMMA ExactStep ==
    ASSUME IInv, OpenTotalIsExact, NEW c \in Cells, NEW before, NEW after,
           SetBreaker(c, before, after, before.state)
    PROVE  OpenTotalIsExact'
<1> DEFINE counted == IF CountsOpening(before.state, after.state) THEN 1 ELSE 0
           entered == IF before.state # "OPEN" /\ after.state = "OPEN" THEN 1 ELSE 0
<1>1. counted = entered
  BY DEF CountsOpening
<1>2. /\ open_total' = [open_total EXCEPT ![c] = @ + counted]
      /\ opens' = [opens EXCEPT ![c] = @ + entered]
  BY DEF SetBreaker
<1> HIDE DEF counted, entered
<1> QED BY <1>1, <1>2 DEF IInv, TypeOK, OpenTotalIsExact

\* While q is served no other check is out for its cell.
LEMMA NoOtherProbes ==
    ASSUME IInv, OneAtATime, NEW q \in Requests, pc[q] \in Suspended, pc[q] # "probe"
    PROVE  \A p \in Checks : ~Probing(p, target[q])
BY DEF OneAtATime, InFlight, Probing, Suspended, Requests

\* A step of q that writes the breaker of its cell only, lets no probe through
\* and leaves none of that cell out, keeps what the others have seen current.
LEMMA SeenKept ==
    ASSUME IInv, SeenIsCurrent, NEW q \in Requests,
           \A c \in Cells : c # target[q] => breaker'[c] = breaker[c],
           \A p \in Checks : pc'[p] = "probe" =>
               pc[p] = "probe" /\ target[p] # target[q],
           UNCHANGED <<target, seen>>
    PROVE  SeenIsCurrent'
BY DEF SeenIsCurrent, IInv, TypeOK, Requests

LEMMA AdmitSequential ==
    ASSUME IInv, Sequential, OneAtATime, NEW q \in Requests, Admit(q)
    PROVE  Sequential'
<1> DEFINE c == target[q]
           b == before_request(breaker[c])
<1>1. /\ Resume(q, "admit", "probe")
      /\ breaker' = [breaker EXCEPT ![c] = b]
      /\ seen' = [seen EXCEPT ![q] = b.state]
      /\ UNCHANGED <<open_total, opens, target>>
  BY DEF Admit
<1>2. c \in Cells /\ \A p \in Checks : ~Probing(p, c)
  BY <1>1, NoOtherProbes DEF IInv, TypeOK, Resume, Suspended
<1> HIDE DEF c, b
<1>3. target'[q] = c /\ breaker'[c] = b /\ seen'[q] = b.state
  BY <1>1, <1>2 DEF IInv, TypeOK, c
<1>4. SeenIsCurrent'
  <2> SUFFICES ASSUME NEW p \in Checks, pc'[p] = "probe"
               PROVE  seen'[p] = breaker'[target'[p]].state
    BY DEF SeenIsCurrent
  <2>1. CASE p = q
    BY <1>3, <2>1
  <2>2. CASE p # q
    <3>1. pc[p] = "probe" /\ target[p] # c /\ p \in Requests
      BY <1>1, <1>2, <2>2 DEF Resume, IInv, TypeOK, Probing, Requests
    <3> QED BY <1>1, <2>2, <3>1 DEF Sequential, SeenIsCurrent, IInv, TypeOK
  <2> QED BY <2>1, <2>2
<1> QED BY <1>1, <1>4 DEF Sequential, OpenTotalIsExact

LEMMA RecordDisabledSequential ==
    ASSUME IInv, Sequential, OneAtATime, NEW q \in Requests, RecordDisabled(q)
    PROVE  Sequential'
<1> DEFINE c == target[q]
           b == before_request(breaker[c])
           a == Verdict(c, b, FALSE)
<1>1. /\ SetBreaker(c, b, a, b.state)
      /\ seen' = [seen EXCEPT ![q] = b.state]
      /\ AfterVerdict(q, c, "admit")
      /\ UNCHANGED target
  BY DEF RecordDisabled
<1>2. /\ pc[q] = "admit" /\ pc' = [pc EXCEPT ![q] = IF Uncached(c) THEN "publish" ELSE "cache_set"]
      /\ c \in Cells /\ breaker' = [breaker EXCEPT ![c] = a]
  BY <1>1 DEF AfterVerdict, Resume, SetBreaker, IInv, TypeOK
<1>3. \A p \in Checks : ~Probing(p, c)
  BY <1>2, NoOtherProbes DEF Suspended
<1> HIDE DEF c, b, a
<1>4. OpenTotalIsExact'
  BY <1>1, <1>2, ExactStep DEF Sequential
<1>5. SeenIsCurrent'
  <2> SUFFICES ASSUME NEW p \in Checks, pc'[p] = "probe"
               PROVE  seen'[p] = breaker'[target'[p]].state
    BY DEF SeenIsCurrent
  <2>1. p # q /\ pc[p] = "probe" /\ target[p] # c /\ p \in Requests
    BY <1>2, <1>3 DEF IInv, TypeOK, Probing, Requests
  <2> QED BY <1>1, <1>2, <2>1 DEF Sequential, SeenIsCurrent, IInv, TypeOK
<1> QED BY <1>4, <1>5 DEF Sequential

LEMMA ProbeReturnsSequential ==
    ASSUME IInv, Sequential, OneAtATime, NEW q \in Requests, NEW healthy \in BOOLEAN,
           ProbeReturns(q, healthy)
    PROVE  Sequential'
<1> DEFINE c == target[q]
           a == Verdict(c, breaker[c], healthy)
<1>1. /\ SetBreaker(c, breaker[c], a, seen[q])
      /\ AfterVerdict(q, c, "probe")
      /\ UNCHANGED <<target, seen>>
  BY DEF ProbeReturns, FromState
<1>2. /\ pc[q] = "probe" /\ pc' = [pc EXCEPT ![q] = IF Uncached(c) THEN "publish" ELSE "cache_set"]
      /\ q \in Checks /\ c \in Cells /\ breaker' = [breaker EXCEPT ![c] = a]
  BY <1>1 DEF AfterVerdict, Resume, SetBreaker, IInv, TypeOK, Requests
<1>3. \A p \in Checks : Probing(p, c) => p = q
  BY <1>2 DEF OneAtATime, InFlight, Probing, Suspended, Requests
<1>4. seen[q] = breaker[c].state
  BY <1>2 DEF Sequential, SeenIsCurrent
<1>5. OpenTotalIsExact'
  BY <1>1, <1>2, <1>4, ExactStep DEF Sequential
<1> HIDE DEF a
<1>6. SeenIsCurrent'
  BY <1>1, <1>2, <1>3, SeenKept DEF Sequential, IInv, TypeOK, Probing, Requests
<1> QED BY <1>5, <1>6 DEF Sequential

LEMMA TripBreakerSequential ==
    ASSUME IInv, Sequential, OneAtATime, NEW q \in Requests, TripBreaker(q)
    PROVE  Sequential'
<1> DEFINE c == target[q]
           a == trip(now)
<1>1. /\ Resume(q, "lookup", "publish")
      /\ SetBreaker(c, breaker[c], a, breaker[c].state)
      /\ UNCHANGED <<target, seen>>
  BY DEF TripBreaker, TripFrom
<1>2. c \in Cells /\ breaker' = [breaker EXCEPT ![c] = a]
  BY <1>1 DEF SetBreaker, IInv, TypeOK
<1>3. \A p \in Checks : ~Probing(p, c)
  BY <1>1, NoOtherProbes DEF Resume, Suspended
<1> HIDE DEF a
<1>4. OpenTotalIsExact'
  BY <1>1, <1>2, ExactStep DEF Sequential
<1>5. SeenIsCurrent'
  BY <1>1, <1>2, <1>3, SeenKept DEF Sequential, IInv, TypeOK, Probing, Requests, Resume
<1> QED BY <1>4, <1>5 DEF Sequential

\* A restart takes the requests of its replica along with the breakers.
LEMMA RestartSequential ==
    ASSUME IInv, Sequential, NEW r \in Replicas, Restart(r)
    PROVE  Sequential'
<1>1. OpenTotalIsExact'
  BY DEF Restart, Sequential, OpenTotalIsExact, IInv, TypeOK
<1>2. SeenIsCurrent'
  <2> SUFFICES ASSUME NEW p \in Checks, pc'[p] = "probe"
               PROVE  seen'[p] = breaker'[target'[p]].state
    BY DEF SeenIsCurrent
  <2>1. /\ UNCHANGED <<target, seen>> /\ p \in Requests
        /\ pc'[p] = IF Survives(p, r) THEN pc[p] ELSE "done"
    BY DEF Restart, Requests
  <2>2. pc[p] = "probe" /\ ReplicaOf(target[p]) # r /\ target[p] \in Cells
    BY <2>1 DEF Survives, Suspended, IInv, TypeOK
  <2>3. breaker'[target[p]] = breaker[target[p]]
    BY <2>2 DEF Restart
  <2> QED BY <2>1, <2>2, <2>3 DEF Sequential, SeenIsCurrent
<1> QED BY <1>1, <1>2 DEF Sequential

\* The other steps write no breaker and let nobody through.
LEMMA OtherSequential ==
    ASSUME IInv, Sequential, UNCHANGED <<breaker, open_total, opens, seen>>,
           \A p \in Checks : pc'[p] = "probe" => pc[p] = "probe" /\ target'[p] = target[p]
    PROVE  Sequential'
BY DEF Sequential, SeenIsCurrent, OpenTotalIsExact

LEMMA SequentialStep == IInv /\ Sequential /\ OneAtATime /\ [Next]_vars => Sequential'
<1> SUFFICES ASSUME IInv, Sequential, OneAtATime, [Next]_vars PROVE Sequential'
  OBVIOUS
<1>1. CASE \E q \in Requests : \/ Admit(q) \/ RecordDisabled(q) \/ TripBreaker(q)
                               \/ \E healthy \in BOOLEAN : ProbeReturns(q, healthy)
  BY <1>1, AdmitSequential, RecordDisabledSequential, TripBreakerSequential,
     ProbeReturnsSequential
<1>2. CASE \E r \in Replicas : Restart(r)
  BY <1>2, RestartSequential
<1>3. ASSUME NEW q \in Requests,
             \/ \E c \in Cells : Arrive(q, c)
             \/ LookupFails(q) \/ LookupCheck(q) \/ CacheRead(q) \/ CacheFails(q)
             \/ Reject(q) \/ ProbeRaises(q) \/ StoreResult(q) \/ StoreFails(q)
             \/ Report(q) \/ Respond(q)
      PROVE  Sequential'
  <2>1. PICK to \in {"done", "lookup", "cache_get", "admit", "stored", "publish"} :
          /\ pc[q] # "probe" \/ to = "done"
          /\ pc' = [pc EXCEPT ![q] = to]
          /\ UNCHANGED <<breaker, open_total, opens, seen>>
          /\ UNCHANGED target \/ \E c \in Cells : target' = [target EXCEPT ![q] = c]
    BY <1>3 DEF Arrive, LookupFails, LookupCheck, CacheRead, CacheFails, Reject, ProbeRaises,
                StoreResult, StoreFails, Report, Respond, Resume, breakerVars
  <2>2. \A p \in Checks : pc'[p] = "probe" => pc[p] = "probe" /\ target'[p] = target[p]
    BY <2>1 DEF IInv, TypeOK, Requests
  <2> QED BY <2>1, <2>2, OtherSequential
<1>4. CASE Tick \/ UNCHANGED vars
  BY <1>4, OtherSequential DEF Tick, vars, breakerVars, requestVars
<1> QED BY <1>1, <1>2, <1>3, <1>4 DEF Next, Serve

\* Nobody probes behind an OPEN breaker then, and nothing else could close it.
LEMMA SequentialStaysOpen ==
    IInv /\ Sequential /\ [Next]_vars =>
    \A c \in Cells :
        BlockedUntilRecovery(c) /\ restarts' = restarts => breaker'[c].state = "OPEN"
<1> SUFFICES ASSUME IInv, Sequential, [Next]_vars, NEW c \in Cells,
                    BlockedUntilRecovery(c), restarts' = restarts
             PROVE  breaker'[c].state = "OPEN"
  OBVIOUS
<1>1. \A q \in Checks : ~Probing(q, c)
  BY DEF IInv, SeenAdmits, Sequential, SeenIsCurrent, BlockedUntilRecovery, Probing
<1> QED BY <1>1, QuietOpenKept DEF QuietOpenStep

LEMMA SequentialInvariant == Spec /\ []OneAtATime => []Sequential
<1>1. Init => Sequential
  BY DEF Init, Sequential, SeenIsCurrent, OpenTotalIsExact, Requests
<1> QED BY <1>1, SequentialStep, Inductive, PTL DEF Spec

\* As long as no two requests are served for the same service by the same
\* replica at once, circuit_breaker_open_total is the number of times the
\* breaker entered OPEN, as documented (metrics.py:56, health.py:59): the
\* miscount of OpenTotalIsExact needs overlapping requests.
THEOREM OneAtATimeIsExact == Spec /\ []OneAtATime => []OpenTotalIsExact
<1>1. Sequential => OpenTotalIsExact
  BY DEF Sequential
<1> QED BY <1>1, SequentialInvariant, PTL

\* Under the same condition an OPEN breaker rejects until its recovery timeout,
\* short of a restart (tests/test_circuit_breaker.py:35).
THEOREM OneAtATimeStaysOpen == Spec /\ []OneAtATime => OpenUntilRecovery
<1> DEFINE Stays == \A c \in Cells :
               BlockedUntilRecovery(c) /\ restarts' = restarts => breaker'[c].state = "OPEN"
<1>1. IInv /\ Sequential /\ [Next]_vars => [Stays]_vars
  BY SequentialStaysOpen
<1> HIDE DEF Stays
<1>2. Spec /\ []OneAtATime => [][Stays]_vars
  BY <1>1, SequentialInvariant, Inductive, PTL DEF Spec
<1> QED BY <1>2 DEF OpenUntilRecovery, Stays

-----------------------------------------------------------------------------
(***************************************************************************)
(* The gauge.  GaugeMatchesAtRest holds if, moreover, every verdict gets   *)
(* as far as record_health_check: until it does, the check is under way    *)
(* and carries the state the gauge is to get.                              *)
(***************************************************************************)
ReportsReach == \A q \in Requests : ~ProbeRaises(q) /\ ~StoreFails(q)

Reporting(q, c) == pc[q] \in {"probe", "cache_set", "stored"} /\ target[q] = c

Follows(c) ==
    /\ \A q \in Checks : Reporting(q, c) /\ pc[q] # "probe" =>
           result[q].circuit_state = breaker[c].state
    /\ gauge[c] \in {Unset, breaker[c].state} \/ \E q \in Checks : Reporting(q, c)

GaugeFollows == \A c \in Cells : Follows(c)

\* A step of q does not concern a cell q neither was nor is to report on.
LEMMA FollowsElsewhere ==
    ASSUME NEW c \in Cells, Follows(c), NEW q \in Requests,
           breaker'[c] = breaker[c], gauge'[c] = gauge[c],
           \A p \in Checks : p # q =>
               pc'[p] = pc[p] /\ target'[p] = target[p] /\ result'[p] = result[p],
           ~Reporting(q, c), ~Reporting(q, c)'
    PROVE  Follows(c)'
<1>1. \A p \in Checks : Reporting(p, c)' <=> Reporting(p, c)
  BY DEF Reporting
<1>2. \A p \in Checks : Reporting(p, c)' => pc'[p] = pc[p] /\ result'[p] = result[p]
  BY <1>1
<1> QED BY <1>1, <1>2 DEF Follows

\* While q is served nobody else reports on its cell.
LEMMA NoOtherReports ==
    ASSUME OneAtATime, NEW q \in Requests, pc[q] \in Suspended
    PROVE  \A p \in Checks : Reporting(p, target[q]) => p = q
BY DEF OneAtATime, InFlight, Reporting, Suspended, Requests

\* q records a verdict: the result it carries has the state of the breaker.
LEMMA VerdictFollows ==
    ASSUME IInv, GaugeFollows, OneAtATime, NEW q \in Requests, NEW healthy \in BOOLEAN,
           NEW from \in {"admit", "probe"}, NEW before, NEW after, NEW from_state,
           SetBreaker(target[q], before, after, from_state),
           after \in CircuitBreakerSnapshot,
           Keep(q, target[q], healthy), AfterVerdict(q, target[q], from),
           UNCHANGED target
    PROVE  GaugeFollows'
<1> DEFINE c == target[q]
<1>1. c \in Cells /\ breaker' = [breaker EXCEPT ![c] = after]
  BY DEF IInv, TypeOK, SetBreaker
<1>2. q \in Checks /\ pc[q] = from
  BY DEF AfterVerdict, Resume, IInv, TypeOK, Requests
<1>3. breaker'[c] = after
  BY <1>1 DEF IInv, TypeOK
<1>4. /\ result'[q].circuit_state = after.state
      /\ \A p \in Requests : p # q => result'[p] = result[p] /\ pc'[p] = pc[p]
  <2>1. /\ result'[q] = [healthy |-> healthy, circuit_state |-> breaker'[c].state]
        /\ \A p \in Requests : p # q => result'[p] = result[p] /\ pc'[p] = pc[p]
    BY <1>1, <1>2, <1>3, AfterVerdictEffect DEF IInv
  <2> QED BY <1>3, <2>1
<1>5. /\ pc'[q] = IF Uncached(c) THEN "publish" ELSE "cache_set"
      /\ gauge' = IF Uncached(c) THEN [gauge EXCEPT ![c] = after.state] ELSE gauge
  BY <1>2, <1>4 DEF AfterVerdict, Resume, IInv, TypeOK
<1>6. \A p \in Checks : Reporting(p, c) => p = q
  BY <1>2, NoOtherReports DEF Suspended
<1> SUFFICES ASSUME NEW d \in Cells
             PROVE  Follows(d)'
  BY DEF GaugeFollows
<1>7. CASE d = c
  <2>1. \A p \in Checks : Reporting(p, d)' => p = q
    BY <1>4, <1>6, <1>7 DEF Reporting, Requests
  <2>2. CASE Uncached(c)
    <3>1. gauge'[c] = after.state /\ ~Reporting(q, d)'
      BY <1>1, <1>5, <1>7, <2>2 DEF Reporting, IInv, TypeOK
    <3> QED BY <1>3, <1>7, <2>1, <3>1 DEF Follows
  <2>3. CASE ~Uncached(c)
    <3>1. Reporting(q, d)'
      BY <1>5, <1>7, <2>3 DEF Reporting
    <3> QED BY <1>2, <1>3, <1>4, <1>7, <2>1, <3>1 DEF Follows
  <2> QED BY <2>2, <2>3
<1>8. CASE d # c
  <2>1. breaker'[d] = breaker[d] /\ gauge'[d] = gauge[d]
    BY <1>1, <1>5, <1>8 DEF IInv, TypeOK
  <2>2. ~Reporting(q, d) /\ ~Reporting(q, d)'
    BY <1>8 DEF Reporting
  <2> QED BY <1>4, <2>1, <2>2, FollowsElsewhere DEF GaugeFollows, Requests
<1> QED BY <1>7, <1>8

LEMMA ProbeReturnsFollows ==
    ASSUME IInv, GaugeFollows, OneAtATime, NEW q \in Requests, NEW healthy \in BOOLEAN,
           ProbeReturns(q, healthy)
    PROVE  GaugeFollows'
<1>1. target[q] \in Cells /\ now \in Nat
  BY DEF IInv, TypeOK
<1>2. Verdict(target[q], breaker[target[q]], healthy) \in CircuitBreakerSnapshot
  BY <1>1, VerdictIsCoherent DEF IInv, TypeOK, BreakerCoherent
<1> QED BY <1>2, VerdictFollows DEF ProbeReturns

LEMMA RecordDisabledFollows ==
    ASSUME IInv, GaugeFollows, OneAtATime, NEW q \in Requests, RecordDisabled(q)
    PROVE  GaugeFollows'
<1> DEFINE c == target[q]
           b == before_request(breaker[c])
<1>1. c \in Cells /\ now \in Nat /\ ServiceOf(c) \in Services
  BY CellParts DEF IInv, TypeOK
<1>2. b \in CircuitBreakerSnapshot /\ Coherent(b, ServiceOf(c), now)
  BY <1>1, BeforeRequestIsCoherent DEF RecordDisabled, IInv, TypeOK, BreakerCoherent
<1>3. /\ SetBreaker(c, b, Verdict(c, b, FALSE), b.state)
      /\ Keep(q, c, FALSE) /\ AfterVerdict(q, c, "admit") /\ UNCHANGED target
  BY DEF RecordDisabled
<1> HIDE DEF b
<1>4. Verdict(c, b, FALSE) \in CircuitBreakerSnapshot
  BY <1>1, <1>2, VerdictIsCoherent
<1> QED BY <1>3, <1>4, VerdictFollows

LEMMA AdmitFollows ==
    ASSUME IInv, GaugeFollows, OneAtATime, NEW q \in Requests, Admit(q)
    PROVE  GaugeFollows'
<1> DEFINE c == target[q]
<1>1. /\ pc[q] = "admit" /\ pc' = [pc EXCEPT ![q] = "probe"]
      /\ breaker' = [breaker EXCEPT ![c] = before_request(breaker[c])]
      /\ UNCHANGED <<gauge, target, result>>
  BY DEF Admit, Resume
<1>2. q \in Checks /\ c \in Cells
  BY <1>1 DEF IInv, TypeOK, Requests
<1>3. \A p \in Checks : ~Reporting(p, c)
  BY <1>1, NoOtherReports DEF Suspended, Reporting
<1> SUFFICES ASSUME NEW d \in Cells
             PROVE  Follows(d)'
  BY DEF GaugeFollows
<1>4. CASE d = c
  <2>1. pc'[q] = "probe" /\ Reporting(q, d)'
    BY <1>1, <1>4 DEF Reporting, IInv, TypeOK
  <2>2. \A p \in Checks : Reporting(p, d)' => p = q
    BY <1>1, <1>3, <1>4 DEF Reporting, IInv, TypeOK, Requests
  <2> QED BY <1>2, <1>4, <2>1, <2>2 DEF Follows
<1>5. CASE d # c
  <2>1. breaker'[d] = breaker[d] /\ \A p \in Checks : p # q => pc'[p] = pc[p]
    BY <1>1, <1>5 DEF IInv, TypeOK, Requests
  <2>2. ~Reporting(q, d) /\ ~Reporting(q, d)'
    BY <1>1, <1>5 DEF Reporting
  <2>3. /\ Follows(d) /\ gauge'[d] = gauge[d]
        /\ \A p \in Checks : target'[p] = target[p] /\ result'[p] = result[p]
    BY <1>1 DEF GaugeFollows
  <2> QED BY <2>1, <2>2, <2>3, FollowsElsewhere
<1> QED BY <1>4, <1>5

LEMMA TripBreakerFollows ==
    ASSUME IInv, GaugeFollows, OneAtATime, NEW q \in Requests, TripBreaker(q)
    PROVE  GaugeFollows'
<1> DEFINE c == target[q]
<1>1. /\ pc[q] = "lookup" /\ pc' = [pc EXCEPT ![q] = "publish"]
      /\ breaker' = [breaker EXCEPT ![c] = trip(now)]
      /\ gauge' = [gauge EXCEPT ![c] = "OPEN"]
      /\ UNCHANGED <<target, result>>
  BY DEF TripBreaker, Resume, SetBreaker
<1>2. c \in Cells /\ \A p \in Checks : ~Reporting(p, c)
  BY <1>1, NoOtherReports DEF Suspended, Reporting, IInv, TypeOK
<1> SUFFICES ASSUME NEW d \in Cells
             PROVE  Follows(d)'
  BY DEF GaugeFollows
<1>3. ~Reporting(q, d) /\ ~Reporting(q, d)'
  BY <1>1 DEF Reporting, IInv, TypeOK
<1>4. \A p \in Checks : p # q => pc'[p] = pc[p]
  BY <1>1 DEF IInv, TypeOK, Requests
<1>5. CASE d = c
  <2>1. breaker'[c].state = "OPEN" /\ gauge'[c] = "OPEN"
    BY <1>1, <1>2 DEF trip, IInv, TypeOK
  <2>2. \A p \in Checks : ~Reporting(p, d)'
    BY <1>1, <1>2, <1>3, <1>4, <1>5 DEF Reporting
  <2> QED BY <1>5, <2>1, <2>2 DEF Follows
<1>6. CASE d # c
  <2>1. breaker'[d] = breaker[d] /\ gauge'[d] = gauge[d]
    BY <1>1, <1>6 DEF IInv, TypeOK
  <2>2. /\ Follows(d)
        /\ \A p \in Checks : target'[p] = target[p] /\ result'[p] = result[p]
    BY <1>1 DEF GaugeFollows
  <2> QED BY <1>3, <1>4, <2>1, <2>2, FollowsElsewhere
<1> QED BY <1>5, <1>6

LEMMA StoreResultFollows ==
    ASSUME IInv, GaugeFollows, NEW q \in Requests, StoreResult(q)
    PROVE  GaugeFollows'
<1>1. /\ pc[q] = "cache_set" /\ pc' = [pc EXCEPT ![q] = "stored"]
      /\ UNCHANGED <<breaker, gauge, target, result>>
  BY DEF StoreResult, Resume, breakerVars
<1>2. \A p \in Checks, c \in Cells :
        /\ Reporting(p, c)' <=> Reporting(p, c)
        /\ Reporting(p, c) /\ pc'[p] # "probe" => pc[p] # "probe"
  BY <1>1 DEF Reporting, IInv, TypeOK, Requests
<1> QED BY <1>1, <1>2 DEF GaugeFollows, Follows

LEMMA ReportFollows ==
    ASSUME IInv, GaugeFollows, OneAtATime, NEW q \in Requests, Report(q)
    PROVE  GaugeFollows'
<1> DEFINE c == target[q]
<1>1. /\ pc[q] = "stored" /\ pc' = [pc EXCEPT ![q] = "publish"]
      /\ gauge' = [gauge EXCEPT ![c] = result[q].circuit_state]
      /\ UNCHANGED <<breaker, target, result>>
  BY DEF Report, Resume, breakerVars
<1>2. c \in Cells /\ q \in Checks /\ Reporting(q, c)
      /\ \A p \in Checks : Reporting(p, c) => p = q
  BY <1>1, NoOtherReports DEF Suspended, Reporting, IInv, TypeOK, Requests
<1>3. result[q].circuit_state = breaker[c].state
  BY <1>1, <1>2 DEF GaugeFollows, Follows
<1> SUFFICES ASSUME NEW d \in Cells
             PROVE  Follows(d)'
  BY DEF GaugeFollows
<1>4. ~Reporting(q, d)' /\ \A p \in Checks : p # q => pc'[p] = pc[p]
  BY <1>1 DEF Reporting, IInv, TypeOK, Requests
<1>5. CASE d = c
  <2>1. gauge'[c] = breaker'[c].state
    BY <1>1, <1>2, <1>3 DEF IInv, TypeOK
  <2>2. \A p \in Checks : ~Reporting(p, d)'
    BY <1>1, <1>2, <1>4, <1>5 DEF Reporting
  <2> QED BY <1>5, <2>1, <2>2 DEF Follows
<1>6. CASE d # c
  <2>1. gauge'[d] = gauge[d] /\ ~Reporting(q, d)
    BY <1>1, <1>6 DEF Reporting, IInv, TypeOK
  <2>2. /\ Follows(d) /\ breaker'[d] = breaker[d]
        /\ \A p \in Checks : target'[p] = target[p] /\ result'[p] = result[p]
    BY <1>1 DEF GaugeFollows
  <2> QED BY <1>4, <2>1, <2>2, FollowsElsewhere
<1> QED BY <1>5, <1>6

LEMMA RestartFollows ==
    ASSUME IInv, GaugeFollows, NEW r \in Replicas, Restart(r)
    PROVE  GaugeFollows'
<1>1. /\ breaker' = [c \in Cells |-> IF ReplicaOf(c) = r THEN DefaultSnapshot ELSE breaker[c]]
      /\ gauge' = [c \in Cells |-> IF ReplicaOf(c) = r THEN Unset ELSE gauge[c]]
      /\ pc' = [q \in Requests |-> IF Survives(q, r) THEN pc[q] ELSE "done"]
      /\ UNCHANGED <<target, result>>
  BY DEF Restart
<1> SUFFICES ASSUME NEW c \in Cells
             PROVE  Follows(c)'
  BY DEF GaugeFollows
<1>2. CASE ReplicaOf(c) = r
  <2>1. gauge'[c] = Unset /\ \A p \in Checks : ~Reporting(p, c)'
    BY <1>1, <1>2 DEF Reporting, Survives, Suspended, Requests
  <2> QED BY <2>1 DEF Follows
<1>3. CASE ReplicaOf(c) # r
  <2>1. gauge'[c] = gauge[c] /\ breaker'[c] = breaker[c]
    BY <1>1, <1>3
  <2>2. \A p \in Checks : /\ Reporting(p, c)' <=> Reporting(p, c)
                          /\ Reporting(p, c) => pc'[p] = pc[p]
    BY <1>1, <1>3 DEF Reporting, Survives, Requests
  <2> QED BY <1>1, <2>1, <2>2 DEF GaugeFollows, Follows
<1> QED BY <1>2, <1>3

\* Steps of q neither before nor after which it reports on anything.
LEMMA MoveFollows ==
    ASSUME IInv, GaugeFollows, NEW q \in Requests,
           \/ \E c \in Cells : Arrive(q, c)
           \/ LookupFails(q) \/ LookupCheck(q) \/ CacheRead(q) \/ CacheFails(q)
           \/ Reject(q) \/ Respond(q)
    PROVE  GaugeFollows'
<1>1. PICK to \in {"done", "lookup", "cache_get", "admit"} :
        /\ pc[q] \notin {"probe", "cache_set", "stored"}
        /\ pc' = [pc EXCEPT ![q] = to]
        /\ UNCHANGED <<breaker, gauge>>
        /\ UNCHANGED target \/ \E c \in Cells : target' = [target EXCEPT ![q] = c]
        /\ UNCHANGED result \/ \E x : result' = [result EXCEPT ![q] = x]
  BY DEF Arrive, LookupFails, LookupCheck, CacheRead, CacheFails, Reject, Respond,
         Resume, breakerVars
<1>2. \A p \in Checks : p # q =>
        pc'[p] = pc[p] /\ target'[p] = target[p] /\ result'[p] = result[p]
  BY <1>1 DEF IInv, TypeOK, Requests
<1>3. \A c \in Cells : ~Reporting(q, c) /\ ~Reporting(q, c)'
  BY <1>1 DEF Reporting, IInv, TypeOK
<1> QED BY <1>1, <1>2, <1>3, FollowsElsewhere DEF GaugeFollows

LEMMA GaugeStep ==
    IInv /\ GaugeFollows /\ OneAtATime /\ [Next]_vars /\ [ReportsReach]_vars => GaugeFollows'
<1> SUFFICES ASSUME IInv, GaugeFollows, OneAtATime, [Next]_vars, [ReportsReach]_vars
             PROVE  GaugeFollows'
  OBVIOUS
<1>1. CASE \E q \in Requests : \/ Admit(q) \/ RecordDisabled(q) \/ TripBreaker(q)
                               \/ \E healthy \in BOOLEAN : ProbeReturns(q, healthy)
  BY <1>1, AdmitFollows, RecordDisabledFollows, TripBreakerFollows, ProbeReturnsFollows
<1>2. CASE \E q \in Requests : StoreResult(q) \/ Report(q)
  BY <1>2, StoreResultFollows, ReportFollows
<1>3. CASE \E q \in Requests :
             \/ \E c \in Cells : Arrive(q, c)
             \/ LookupFails(q) \/ LookupCheck(q) \/ CacheRead(q) \/ CacheFails(q)
             \/ Reject(q) \/ Respond(q)
  BY <1>3, MoveFollows
<1>4. CASE \E r \in Replicas : Restart(r)
  BY <1>4, RestartFollows
<1>5. CASE Tick \/ UNCHANGED vars
  BY <1>5 DEF Tick, vars, breakerVars, requestVars, GaugeFollows, Follows, Reporting
<1>6. CASE ReportsReach /\ \E q \in Requests : ProbeRaises(q) \/ StoreFails(q)
  BY <1>6 DEF ReportsReach
<1> QED BY <1>1, <1>2, <1>3, <1>4, <1>5, <1>6 DEF Next, Serve

\* As long as no two requests are served for a cell at once, and no verdict is
\* lost on its way to the metrics, circuit_breaker_state is the state of the
\* breaker whenever nobody is out for it (metrics.py:109, health.py:52-63):
\* GaugeMatchesAtRest needs an overlap, an exception of the probe or a failure
\* of Redis to fail, and a restart is none of these.
THEOREM GaugeFollowsReports ==
    Spec /\ []OneAtATime /\ [][ReportsReach]_vars => []GaugeMatchesAtRest
<1>1. Init => GaugeFollows
  BY DEF Init, GaugeFollows, Follows, Reporting, Requests
<1>2. GaugeFollows => GaugeMatchesAtRest
  BY DEF GaugeFollows, Follows, GaugeMatchesAtRest, Reporting, InFlight, Suspended, Requests
<1> QED BY <1>1, <1>2, GaugeStep, Inductive, PTL DEF Spec
=============================================================================
