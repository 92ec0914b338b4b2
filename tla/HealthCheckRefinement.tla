----------------------- MODULE HealthCheckRefinement -----------------------
(***************************************************************************)
(* HealthCheck implements BreakerContract: with Mode, Until and            *)
(* Outstanding for its variables, the initial state is the contract's, and *)
(* every step is one of the contract's or leaves them unchanged.  The      *)
(* proof needs the inductive invariant: an OPEN breaker has an opened_at.  *)
(***************************************************************************)
EXTENDS HealthCheckProofs

CRecovery == [c \in Cells |-> RecoveryTimeout[ServiceOf(c)]]

LEMMA RecoveryOf ==
    \A c \in Cells : /\ CRecovery[c] = RecoveryTimeout[ServiceOf(c)]
                     /\ RecoveryTimeout[ServiceOf(c)] \in Nat
BY CellParts, BreakerAssumption DEF CRecovery

\* Steps the contract does not see.
LEMMA UnseenStep ==
    ASSUME now' = now, breaker' = breaker,
           \A q \in Checks, c \in Cells : Probing(q, c)' <=> Probing(q, c)
    PROVE  UNCHANGED Contract!vars
<1>1. Mode' = Mode /\ Until' = Until
  BY DEF Mode, Until
<1>2. Outstanding' = Outstanding
  BY DEF Outstanding
<1> QED BY <1>1, <1>2 DEF Contract!vars

\* q, that was probing nothing, goes out for c.
LEMMA ProbeGoesOut ==
    ASSUME NEW q \in Checks, NEW c \in Cells,
           \A p \in Checks, d \in Cells :
              Probing(p, d)' <=> (Probing(p, d) \/ (p = q /\ d = c))
    PROVE  Outstanding' = [Outstanding EXCEPT ![c] = @ \cup {q}]
<1>1. ASSUME NEW d \in Cells
      PROVE  Outstanding'[d] = [Outstanding EXCEPT ![c] = @ \cup {q}][d]
  <2>1. Outstanding'[d] = {p \in Checks : Probing(p, d)'}
    BY DEF Outstanding
  <2>2. Outstanding[d] = {p \in Checks : Probing(p, d)}
    BY DEF Outstanding
  <2>3. CASE d = c
    <3>1. [Outstanding EXCEPT ![c] = @ \cup {q}][d] = Outstanding[d] \cup {q}
      BY <2>3 DEF Outstanding
    <3> QED BY <2>1, <2>2, <2>3, <3>1
  <2>4. CASE d # c
    <3>1. [Outstanding EXCEPT ![c] = @ \cup {q}][d] = Outstanding[d]
      BY <2>4 DEF Outstanding
    <3> QED BY <2>1, <2>2, <2>4, <3>1
  <2> QED BY <2>3, <2>4
<1>2. Outstanding' = [d \in Cells |-> Outstanding'[d]]
  BY DEF Outstanding
<1>3. [Outstanding EXCEPT ![c] = @ \cup {q}]
        = [d \in Cells |-> [Outstanding EXCEPT ![c] = @ \cup {q}][d]]
  BY DEF Outstanding
<1> QED BY <1>1, <1>2, <1>3

\* q comes back from c.
LEMMA ProbeComesBack ==
    ASSUME NEW q \in Checks, NEW c \in Cells, Probing(q, c),
           \A p \in Checks, d \in Cells :
              Probing(p, d)' <=> (Probing(p, d) /\ ~(p = q /\ d = c))
    PROVE  Contract!Leave(c, q)
<1>1. ASSUME NEW d \in Cells
      PROVE  Outstanding'[d] = [Outstanding EXCEPT ![c] = @ \ {q}][d]
  <2>1. Outstanding'[d] = {p \in Checks : Probing(p, d)'}
    BY DEF Outstanding
  <2>2. Outstanding[d] = {p \in Checks : Probing(p, d)}
    BY DEF Outstanding
  <2>3. CASE d = c
    <3>1. [Outstanding EXCEPT ![c] = @ \ {q}][d] = Outstanding[d] \ {q}
      BY <2>3 DEF Outstanding
    <3> QED BY <2>1, <2>2, <2>3, <3>1
  <2>4. CASE d # c
    <3>1. [Outstanding EXCEPT ![c] = @ \ {q}][d] = Outstanding[d]
      BY <2>4 DEF Outstanding
    <3> QED BY <2>1, <2>2, <2>4, <3>1
  <2> QED BY <2>3, <2>4
<1>2. Outstanding' = [d \in Cells |-> Outstanding'[d]]
  BY DEF Outstanding
<1>3. [Outstanding EXCEPT ![c] = @ \ {q}]
        = [d \in Cells |-> [Outstanding EXCEPT ![c] = @ \ {q}][d]]
  BY DEF Outstanding
<1>4. Outstanding' = [Outstanding EXCEPT ![c] = @ \ {q}]
  BY <1>1, <1>2, <1>3
<1>5. q \in Outstanding[c]
  BY DEF Outstanding
<1> QED BY <1>4, <1>5 DEF Contract!Leave

\* The breaker of c alone is written.
LEMMA WriteMaps ==
    ASSUME TypeOK, NEW c \in Cells, NEW a \in CircuitBreakerSnapshot,
           breaker' = [breaker EXCEPT ![c] = a], NEW u,
           u = IF a.opened_at = Never THEN 0 ELSE a.opened_at + RecoveryTimeout[ServiceOf(c)]
    PROVE  /\ Mode' = [Mode EXCEPT ![c] = a.state]
           /\ Until' = [Until EXCEPT ![c] = u]
<1>1. breaker'[c] = a /\ \A d \in Cells : d # c => breaker'[d] = breaker[d]
  BY DEF TypeOK
<1> DEFINE st == a.state
<1>2. \A d \in Cells : breaker'[d].state = IF d = c THEN st ELSE breaker[d].state
  BY <1>1
<1>3. \A d \in Cells : (IF breaker'[d].opened_at = Never THEN 0
                        ELSE breaker'[d].opened_at + RecoveryTimeout[ServiceOf(d)])
                     = IF d = c THEN u
                       ELSE IF breaker[d].opened_at = Never THEN 0
                       ELSE breaker[d].opened_at + RecoveryTimeout[ServiceOf(d)]
  BY <1>1
<1> HIDE DEF st
<1>4. Mode' = [Mode EXCEPT ![c] = st]
  BY <1>2 DEF Mode
<1>5. Until' = [Until EXCEPT ![c] = u]
  <2> DEFINE U(d) == IF breaker[d].opened_at = Never THEN 0
                     ELSE breaker[d].opened_at + RecoveryTimeout[ServiceOf(d)]
             V(d) == IF breaker'[d].opened_at = Never THEN 0
                     ELSE breaker'[d].opened_at + RecoveryTimeout[ServiceOf(d)]
  <2>1. Until = [d \in Cells |-> U(d)] /\ Until' = [d \in Cells |-> V(d)]
    BY DEF Until
  <2>2. \A d \in Cells : V(d) = IF d = c THEN u ELSE U(d)
    BY <1>3
  <2> HIDE DEF U, V
  <2> QED BY <2>1, <2>2
<1> QED BY <1>4, <1>5 DEF st

LEMMA WriteOpens ==
    ASSUME TypeOK, NEW c \in Cells, NEW a \in CircuitBreakerSnapshot,
           breaker' = [breaker EXCEPT ![c] = a],
           a.state = "OPEN", a.opened_at = now
    PROVE  Contract!OpenNow(c)
<1>1. a.opened_at # Never
  BY DEF TypeOK, Never
<1>2. /\ Mode' = [Mode EXCEPT ![c] = "OPEN"]
      /\ Until' = [Until EXCEPT ![c] = now + RecoveryTimeout[ServiceOf(c)]]
  BY <1>1, WriteMaps
<1>3. CRecovery[c] = RecoveryTimeout[ServiceOf(c)]
  BY RecoveryOf
<1> QED BY <1>2, <1>3 DEF Contract!OpenNow, CRecovery

\* Writing back the opened_at a breaker has changes its mode at most.
LEMMA WriteState ==
    ASSUME TypeOK, NEW c \in Cells, NEW a \in CircuitBreakerSnapshot,
           breaker' = [breaker EXCEPT ![c] = a],
           a.opened_at = breaker[c].opened_at
    PROVE  Mode' = [Mode EXCEPT ![c] = a.state] /\ Until' = Until
<1> DEFINE st == a.state
<1>1. \A d \in Cells : /\ breaker'[d].state = IF d = c THEN st ELSE breaker[d].state
                       /\ breaker'[d].opened_at = breaker[d].opened_at
  BY DEF TypeOK
<1> HIDE DEF st
<1>2. Mode' = [Mode EXCEPT ![c] = st]
  BY <1>1 DEF Mode
<1>3. Until' = Until
  BY <1>1 DEF Until
<1> QED BY <1>2, <1>3 DEF st

\* Writing back state and opened_at changes nothing the contract sees.
LEMMA WriteKeeps ==
    ASSUME TypeOK, NEW c \in Cells, NEW a \in CircuitBreakerSnapshot,
           breaker' = [breaker EXCEPT ![c] = a],
           a.state = breaker[c].state, a.opened_at = breaker[c].opened_at
    PROVE  UNCHANGED <<Mode, Until>>
<1>1. Mode' = [Mode EXCEPT ![c] = a.state] /\ Until' = Until
  BY WriteState
<1>2. a.state = Mode[c]
  BY DEF Mode
<1> QED BY <1>1, <1>2 DEF Mode

-----------------------------------------------------------------------------
(***************************************************************************)
(* The steps.                                                              *)
(***************************************************************************)

\* The guard before_request checks is the contract's.
LEMMA GuardMaps ==
    ASSUME IInv, NEW c \in Cells, MayProbe(breaker[c], ServiceOf(c), now)
    PROVE  Contract!MayAdmit(c)
<1>1. CASE breaker[c].state = "OPEN"
  <2>1. breaker[c].opened_at # Never
    BY <1>1 DEF IInv, BreakerCoherent, Coherent, TypeOK, Never
  <2>2. breaker[c].opened_at + RecoveryTimeout[ServiceOf(c)] <= now
    BY <1>1, <2>1 DEF MayProbe, RecoversAt
  <2> QED BY <2>1, <2>2 DEF Contract!MayAdmit, Until
<1>2. CASE breaker[c].state # "OPEN"
  BY <1>2 DEF Contract!MayAdmit, Mode
<1> QED BY <1>1, <1>2

LEMMA AdmitMaps ==
    ASSUME IInv, NEW q \in Requests, Admit(q)
    PROVE  Contract!Next
<1> DEFINE c == target[q]
           b == before_request(breaker[c])
<1>1. /\ MayProbe(breaker[c], ServiceOf(c), now)
      /\ Resume(q, "admit", "probe")
      /\ breaker' = [breaker EXCEPT ![c] = b]
      /\ now' = now /\ target' = target
  BY DEF Admit
<1>2. /\ c \in Cells /\ q \in Checks /\ breaker[c] \in CircuitBreakerSnapshot
      /\ now \in Nat /\ ServiceOf(c) \in Services
      /\ Coherent(breaker[c], ServiceOf(c), now) /\ TypeOK
  BY <1>1, CellParts DEF IInv, TypeOK, Resume, Requests, BreakerCoherent
<1>3. /\ b \in CircuitBreakerSnapshot
      /\ b.state = (IF breaker[c].state = "OPEN" THEN "HALF_OPEN" ELSE breaker[c].state)
      /\ b.opened_at = breaker[c].opened_at
  BY <1>1, <1>2, BeforeRequestIsCoherent
<1> HIDE DEF b
<1>4. Contract!MayAdmit(c)
  BY <1>1, <1>2, GuardMaps
<1>5. Outstanding' = [Outstanding EXCEPT ![c] = @ \cup {q}]
  <2>1. \A p \in Checks, d \in Cells :
           Probing(p, d)' <=> (Probing(p, d) \/ (p = q /\ d = c))
    BY <1>1, <1>2 DEF Probing, Resume, TypeOK, Requests
  <2> QED BY <1>2, <2>1, ProbeGoesOut
<1>6. Mode' = [Mode EXCEPT ![c] = Contract!AdmittedMode(c)] /\ Until' = Until
  <2>1. Mode' = [Mode EXCEPT ![c] = b.state] /\ Until' = Until
    BY <1>1, <1>2, <1>3, WriteState
  <2>2. b.state = Contract!AdmittedMode(c)
    BY <1>2, <1>3 DEF Contract!AdmittedMode, Mode
  <2> QED BY <2>1, <2>2
<1>7. Contract!Admit(c, q)
  BY <1>1, <1>4, <1>5, <1>6 DEF Contract!Admit
<1> QED BY <1>2, <1>7 DEF Contract!Next

LEMMA ProbeReturnsMaps ==
    ASSUME IInv, NEW q \in Requests, NEW healthy \in BOOLEAN, ProbeReturns(q, healthy)
    PROVE  Contract!Next
<1> DEFINE c == target[q]
           a == Verdict(c, breaker[c], healthy)
<1>1. /\ breaker' = [breaker EXCEPT ![c] = a]
      /\ AfterVerdict(q, c, "probe")
      /\ now' = now /\ target' = target
  BY DEF ProbeReturns, SetBreaker
<1>2. /\ c \in Cells /\ q \in Checks /\ pc[q] = "probe"
      /\ breaker[c] \in CircuitBreakerSnapshot
      /\ now \in Nat /\ ServiceOf(c) \in Services
      /\ Coherent(breaker[c], ServiceOf(c), now) /\ TypeOK
  BY <1>1, CellParts DEF AfterVerdict, IInv, TypeOK, Resume, Requests, BreakerCoherent
<1>3. Contract!Leave(c, q)
  <2>1. Probing(q, c)
    BY <1>2 DEF Probing
  <2>2. PICK to \in {"publish", "cache_set"} : Resume(q, "probe", to)
    BY <1>1 DEF AfterVerdict
  <2>3. \A p \in Checks, d \in Cells :
           Probing(p, d)' <=> (Probing(p, d) /\ ~(p = q /\ d = c))
    BY <1>1, <1>2, <2>2 DEF Probing, Resume, TypeOK, Requests
  <2> QED BY <1>2, <2>1, <2>3, ProbeComesBack
<1>4. a \in CircuitBreakerSnapshot
  BY <1>2, VerdictIsCoherent
<1>5. CASE healthy
  <2>1. a.state = "CLOSED" /\ a.opened_at = Never
    BY <1>2, <1>5, DefaultIsCoherent DEF Verdict, record_success
  <2> HIDE DEF a
  <2>2. Mode' = [Mode EXCEPT ![c] = "CLOSED"] /\ Until' = [Until EXCEPT ![c] = 0]
    BY <1>1, <1>2, <1>4, <2>1, WriteMaps
  <2>3. Contract!Succeed(c, q)
    BY <1>1, <1>3, <2>2 DEF Contract!Succeed
  <2> QED BY <1>2, <2>3 DEF Contract!Next
<1>6. CASE ~healthy
  <2>1. \/ a.state = "OPEN" /\ a.opened_at = now
        \/ /\ a.state = breaker[c].state /\ a.opened_at = breaker[c].opened_at
           /\ breaker[c].state # "HALF_OPEN"
    BY <1>2, <1>6, RecordFailureIsCoherent DEF Verdict
  <2> HIDE DEF a
  <2>2. \/ Contract!OpenNow(c)
        \/ Mode[c] # "HALF_OPEN" /\ UNCHANGED <<Mode, Until>>
    <3>1. CASE a.state = "OPEN" /\ a.opened_at = now
      BY <1>1, <1>2, <1>4, <3>1, WriteOpens
    <3>2. CASE /\ a.state = breaker[c].state /\ a.opened_at = breaker[c].opened_at
               /\ breaker[c].state # "HALF_OPEN"
      <4>1. UNCHANGED <<Mode, Until>>
        BY <1>1, <1>2, <1>4, <3>2, WriteKeeps
      <4>2. Mode[c] # "HALF_OPEN"
        BY <1>2, <3>2 DEF Mode
      <4> QED BY <4>1, <4>2
    <3> QED BY <2>1, <3>1, <3>2
  <2>3. Contract!Fail(c, q)
    BY <1>1, <1>3, <2>2 DEF Contract!Fail
  <2> QED BY <1>2, <2>3 DEF Contract!Next
<1> QED BY <1>5, <1>6

LEMMA RecordDisabledMaps ==
    ASSUME IInv, NEW q \in Requests, RecordDisabled(q)
    PROVE  Contract!Next
<1> DEFINE c == target[q]
           b == before_request(breaker[c])
           a == record_failure(b, ServiceOf(c), now)
<1>1. /\ MayProbe(breaker[c], ServiceOf(c), now)
      /\ breaker' = [breaker EXCEPT ![c] = a]
      /\ AfterVerdict(q, c, "admit")
      /\ now' = now /\ target' = target
  BY DEF RecordDisabled, SetBreaker, Verdict
<1>2. /\ c \in Cells /\ q \in Checks /\ pc[q] = "admit"
      /\ breaker[c] \in CircuitBreakerSnapshot
      /\ now \in Nat /\ ServiceOf(c) \in Services
      /\ Coherent(breaker[c], ServiceOf(c), now) /\ TypeOK
  BY <1>1, CellParts DEF AfterVerdict, IInv, TypeOK, Resume, Requests, BreakerCoherent
<1>3. Outstanding' = Outstanding
  <2>1. PICK to \in {"publish", "cache_set"} : Resume(q, "admit", to)
    BY <1>1 DEF AfterVerdict
  <2>2. \A p \in Checks, d \in Cells : Probing(p, d)' <=> Probing(p, d)
    BY <1>1, <1>2, <2>1 DEF Probing, Resume, TypeOK, Requests
  <2> QED BY <2>2 DEF Outstanding
<1>4. /\ b \in CircuitBreakerSnapshot
      /\ Coherent(b, ServiceOf(c), now)
      /\ b.state = (IF breaker[c].state = "OPEN" THEN "HALF_OPEN" ELSE breaker[c].state)
      /\ b.opened_at = breaker[c].opened_at
  BY <1>1, <1>2, BeforeRequestIsCoherent
<1> HIDE DEF b
<1>5. /\ a \in CircuitBreakerSnapshot
      /\ \/ a.state = "OPEN" /\ a.opened_at = now
         \/ a.state = b.state /\ a.opened_at = b.opened_at /\ b.state # "HALF_OPEN"
  BY <1>2, <1>4, RecordFailureIsCoherent
<1> HIDE DEF a
<1>6. \/ Contract!OpenNow(c)
      \/ Mode[c] = "CLOSED" /\ UNCHANGED <<Mode, Until>>
  <2>1. CASE a.state = "OPEN" /\ a.opened_at = now
    BY <1>1, <1>2, <1>5, <2>1, WriteOpens
  <2>2. CASE a.state = b.state /\ a.opened_at = b.opened_at /\ b.state # "HALF_OPEN"
    <3>1. breaker[c].state = "CLOSED" /\ b.state = "CLOSED"
      BY <1>2, <1>4, <2>2 DEF CircuitBreakerSnapshot, CircuitState
    <3>2. UNCHANGED <<Mode, Until>>
      BY <1>1, <1>2, <1>4, <1>5, <2>2, <3>1, WriteKeeps
    <3>3. Mode[c] = "CLOSED"
      BY <1>2, <3>1 DEF Mode
    <3> QED BY <3>2, <3>3
  <2> QED BY <1>5, <2>1, <2>2
<1>7. Contract!MayAdmit(c)
  BY <1>1, <1>2, GuardMaps
<1>8. Contract!FailUnprobed(c)
  BY <1>1, <1>3, <1>6, <1>7 DEF Contract!FailUnprobed
<1> QED BY <1>2, <1>8 DEF Contract!Next

LEMMA ProbeRaisesMaps ==
    ASSUME IInv, NEW q \in Requests, ProbeRaises(q)
    PROVE  Contract!Next
<1> DEFINE c == target[q]
<1>1. Resume(q, "probe", "done") /\ now' = now /\ breaker' = breaker /\ target' = target
  BY DEF ProbeRaises
<1>2. c \in Cells /\ q \in Checks /\ TypeOK
  BY <1>1 DEF IInv, TypeOK, Resume, Requests
<1>3. Contract!Leave(c, q)
  <2>1. Probing(q, c)
    BY <1>1 DEF Probing, Resume
  <2>2. \A p \in Checks, d \in Cells :
           Probing(p, d)' <=> (Probing(p, d) /\ ~(p = q /\ d = c))
    BY <1>1, <1>2 DEF Probing, Resume, TypeOK, Requests
  <2> QED BY <1>2, <2>1, <2>2, ProbeComesBack
<1>4. Mode' = Mode /\ Until' = Until
  BY <1>1 DEF Mode, Until
<1>5. Contract!Abandon(c, q)
  BY <1>1, <1>3, <1>4 DEF Contract!Abandon
<1> QED BY <1>2, <1>5 DEF Contract!Next

LEMMA TripBreakerMaps ==
    ASSUME IInv, NEW q \in Requests, TripBreaker(q)
    PROVE  Contract!Next
<1> DEFINE c == target[q]
           a == trip(now)
<1>1. /\ Resume(q, "lookup", "publish") /\ now' = now /\ target' = target
      /\ breaker' = [breaker EXCEPT ![c] = a]
  BY DEF TripBreaker, SetBreaker
<1>2. c \in Cells /\ TypeOK /\ now \in Nat /\ ServiceOf(c) \in Services
  BY CellParts DEF IInv, TypeOK
<1>3. a \in CircuitBreakerSnapshot /\ a.state = "OPEN" /\ a.opened_at = now
  BY <1>2, TripIsCoherent
<1> HIDE DEF a
<1>4. Contract!OpenNow(c)
  BY <1>1, <1>2, <1>3, WriteOpens
<1>5. Outstanding' = Outstanding
  <2>1. \A p \in Checks, d \in Cells : Probing(p, d)' <=> Probing(p, d)
    BY <1>1, <1>2 DEF Probing, Resume, TypeOK, Requests
  <2> QED BY <2>1 DEF Outstanding
<1>6. Contract!Trip(c)
  BY <1>1, <1>4, <1>5 DEF Contract!Trip
<1> QED BY <1>2, <1>6 DEF Contract!Next

LEMMA RestartMaps ==
    ASSUME IInv, NEW r \in Replicas, Restart(r)
    PROVE  Contract!Next
<1> DEFINE lost == {c \in Cells : ReplicaOf(c) = r}
<1>1. /\ breaker' = [c \in Cells |-> IF ReplicaOf(c) = r THEN DefaultSnapshot ELSE breaker[c]]
      /\ pc' = [q \in Requests |-> IF Survives(q, r) THEN pc[q] ELSE "done"]
      /\ now' = now /\ target' = target
  BY DEF Restart
<1>2. DefaultSnapshot.state = "CLOSED" /\ DefaultSnapshot.opened_at = Never
  BY DEF DefaultSnapshot
<1>3. Mode' = [c \in Cells |-> IF c \in lost THEN "CLOSED" ELSE Mode[c]]
  BY <1>1, <1>2 DEF Mode
<1>4. Until' = [c \in Cells |-> IF c \in lost THEN 0 ELSE Until[c]]
  <2>1. \A c \in Cells : breaker'[c] = IF c \in lost THEN DefaultSnapshot ELSE breaker[c]
    BY <1>1
  <2> HIDE DEF lost
  <2> QED BY <2>1, <1>2 DEF Until
<1>5. Outstanding' = [c \in Cells |-> IF c \in lost THEN {} ELSE Outstanding[c]]
  <2>1. \A p \in Checks, d \in Cells :
           Probing(p, d)' <=> (Probing(p, d) /\ d \notin lost)
    BY <1>1 DEF Probing, Survives, Requests, Suspended
  <2>2. ASSUME NEW c \in Cells
        PROVE  {p \in Checks : Probing(p, c)'}
                 = IF c \in lost THEN {} ELSE {p \in Checks : Probing(p, c)}
    BY <2>1
  <2> HIDE DEF lost
  <2> QED BY <2>2 DEF Outstanding
<1>6. Contract!Lose(lost)
  BY <1>1, <1>3, <1>4, <1>5 DEF Contract!Lose
<1> QED BY <1>6 DEF Contract!Next

LEMMA TickMaps ==
    ASSUME Tick
    PROVE  Contract!Next
<1>1. now' = now + 1 /\ breaker' = breaker /\ pc' = pc /\ target' = target
  BY DEF Tick, breakerVars, requestVars
<1>2. Mode' = Mode /\ Until' = Until /\ Outstanding' = Outstanding
  BY <1>1 DEF Mode, Until, Outstanding, Probing
<1> QED BY <1>1, <1>2 DEF Contract!Next, Contract!Tick

\* Steps that neither let a probe out nor end one, nor touch a breaker.
LEMMA OtherStepsMap ==
    ASSUME IInv, NEW q \in Requests,
           \/ \E c \in Cells : Arrive(q, c)
           \/ LookupFails(q) \/ LookupCheck(q) \/ CacheRead(q) \/ CacheFails(q)
           \/ Reject(q) \/ StoreResult(q) \/ StoreFails(q) \/ Report(q) \/ Respond(q)
    PROVE  UNCHANGED Contract!vars
<1>1. now' = now /\ breaker' = breaker
  BY DEF Arrive, LookupFails, LookupCheck, CacheRead, CacheFails, Reject, StoreResult,
         StoreFails, Report, Respond, breakerVars
<1>2. PICK to : /\ pc' = [pc EXCEPT ![q] = to] /\ pc[q] # "probe" /\ to # "probe"
                /\ target' = target \/ \E c \in Cells : target' = [target EXCEPT ![q] = c]
  BY DEF Arrive, LookupFails, LookupCheck, CacheRead, CacheFails, Reject, StoreResult,
         StoreFails, Report, Respond, Resume
<1>3. \A p \in Requests : (pc'[p] = "probe") <=> (pc[p] = "probe")
  BY <1>2 DEF IInv, TypeOK
<1>4. \A p \in Requests : pc[p] = "probe" => target'[p] = target[p]
  BY <1>2 DEF IInv, TypeOK
<1>5. \A p \in Checks, c \in Cells : Probing(p, c)' <=> Probing(p, c)
  BY <1>3, <1>4 DEF Probing, Requests
<1> QED BY <1>1, <1>5, UnseenStep

LEMMA NextMaps == IInv /\ [Next]_vars => [Contract!Next]_Contract!vars
<1> SUFFICES ASSUME IInv, [Next]_vars PROVE Contract!Next \/ UNCHANGED Contract!vars
  OBVIOUS
<1>1. ASSUME NEW q \in Requests, NEW c \in Cells, Arrive(q, c)
      PROVE  UNCHANGED Contract!vars
  BY <1>1, OtherStepsMap
<1>2. ASSUME NEW q \in Requests, Serve(q)
      PROVE  Contract!Next \/ UNCHANGED Contract!vars
  <2>1. CASE \/ LookupFails(q) \/ LookupCheck(q) \/ CacheRead(q) \/ CacheFails(q)
             \/ Reject(q) \/ StoreResult(q) \/ StoreFails(q) \/ Report(q) \/ Respond(q)
    BY <2>1, OtherStepsMap
  <2>2. CASE TripBreaker(q)
    BY <2>2, TripBreakerMaps
  <2>3. CASE Admit(q)
    BY <2>3, AdmitMaps
  <2>4. CASE RecordDisabled(q)
    BY <2>4, RecordDisabledMaps
  <2>5. CASE \E healthy \in BOOLEAN : ProbeReturns(q, healthy)
    BY <2>5, ProbeReturnsMaps
  <2>6. CASE ProbeRaises(q)
    BY <2>6, ProbeRaisesMaps
  <2> QED BY <1>2, <2>1, <2>2, <2>3, <2>4, <2>5, <2>6 DEF Serve
<1>3. ASSUME NEW r \in Replicas, Restart(r) PROVE Contract!Next
  BY <1>3, RestartMaps
<1>4. CASE Tick
  BY <1>4, TickMaps
<1>5. CASE UNCHANGED vars
  BY <1>5, UnseenStep DEF vars, breakerVars, requestVars, Probing
<1> QED BY <1>1, <1>2, <1>3, <1>4, <1>5 DEF Next

LEMMA InitMaps == Init => Contract!Init
<1> SUFFICES ASSUME Init PROVE Contract!Init
  OBVIOUS
<1>1. Mode = [c \in Cells |-> "CLOSED"] /\ Until = [c \in Cells |-> 0]
  BY DEF Init, DefaultSnapshot, Mode, Until
<1>2. Outstanding = [c \in Cells |-> {}]
  BY DEF Init, Outstanding, Probing, Requests
<1> QED BY <1>1, <1>2 DEF Init, Contract!Init

\* The circuit breakers of any number of replicas, under any interleaving of
\* checks, late verdicts, trips and restarts, keep the promise of BreakerContract.
THEOREM ContractKept == Spec => ImplementsContract
<1>1. Spec => []IInv
  BY Inductive
<1> QED BY <1>1, InitMaps, NextMaps, PTL DEF Spec, ImplementsContract, Contract!Spec

-----------------------------------------------------------------------------
(***************************************************************************)
(* What the contract is worth: before its deadline an OPEN breaker lets no *)
(* probe out, and as long as it is OPEN its deadline is not brought        *)
(* forward, so that a service is left alone for a full recovery timeout    *)
(* after each opening that no late success undoes.  The proof uses nothing *)
(* of HealthCheck but that it keeps the contract.                          *)
(***************************************************************************)
LeftAloneStep ==
    \A c \in Cells : Mode[c] = "OPEN" =>
        /\ now < Until[c] => Outstanding'[c] \subseteq Outstanding[c]
        /\ Mode'[c] = "OPEN" => Until[c] <= Until'[c]
LeftAlone == [][LeftAloneStep]_(Contract!vars)

\* Nobody waits for longer than one recovery timeout from now.
DeadlinesNear ==
    /\ now \in Nat
    /\ \A c \in Cells : Until[c] \in Nat /\ Until[c] <= now + CRecovery[c]

LEMMA Columns ==
    /\ Mode = [c \in Cells |-> Mode[c]] /\ Until = [c \in Cells |-> Until[c]]
    /\ Outstanding = [c \in Cells |-> Outstanding[c]]
BY DEF Mode, Until, Outstanding

\* What any step of the contract does to the deadlines.
LEMMA ContractStep ==
    ASSUME DeadlinesNear, [Contract!Next]_(Contract!vars)
    PROVE  DeadlinesNear' /\ LeftAloneStep
<1>1. \A c \in Cells : CRecovery[c] \in Nat /\ CRecovery[c] = RecoveryTimeout[ServiceOf(c)]
  BY RecoveryOf
<1>2. ASSUME NEW c \in Cells, UNCHANGED now, Mode[c] = "OPEN" => Until[c] <= now,
             \/ Contract!OpenNow(c)
             \/ UNCHANGED Until /\ \A d \in Cells : d # c => Mode'[d] = Mode[d],
             \A d \in Cells : d # c => Outstanding'[d] = Outstanding[d]
      PROVE  DeadlinesNear' /\ LeftAloneStep
  <2>1. CASE Contract!OpenNow(c)
    <3>1. /\ Until'[c] = now + CRecovery[c]
          /\ \A d \in Cells : d # c => Until'[d] = Until[d]
      BY <1>1, <2>1, Columns DEF Contract!OpenNow
    <3> QED BY <1>1, <1>2, <3>1 DEF DeadlinesNear, LeftAloneStep
  <2>2. CASE UNCHANGED Until
    BY <1>2, <2>2 DEF DeadlinesNear, LeftAloneStep
  <2> QED BY <1>2, <2>1, <2>2
<1>3. ASSUME NEW c \in Cells, UNCHANGED now,
             \/ Contract!OpenNow(c)
             \/ Mode' = [Mode EXCEPT ![c] = "CLOSED"] /\ Until' = [Until EXCEPT ![c] = 0]
             \/ UNCHANGED <<Mode, Until>>,
             \A d \in Cells : Outstanding'[d] \subseteq Outstanding[d]
      PROVE  DeadlinesNear' /\ LeftAloneStep
  <2>1. CASE Contract!OpenNow(c)
    <3>1. /\ Until'[c] = now + CRecovery[c]
          /\ \A d \in Cells : d # c => Until'[d] = Until[d]
      BY <1>1, <2>1, Columns DEF Contract!OpenNow
    <3>2. UNCHANGED now
      BY <1>3
    <3>3. \A d \in Cells : Outstanding'[d] \subseteq Outstanding[d]
      BY <1>3
    <3>4. \A d \in Cells : Until[d] <= Until'[d] /\ Until'[d] \in Nat
                            /\ Until'[d] <= now + CRecovery[d]
      BY <1>1, <3>1 DEF DeadlinesNear
    <3> QED BY <3>2, <3>3, <3>4 DEF DeadlinesNear, LeftAloneStep
  <2>2. CASE Mode' = [Mode EXCEPT ![c] = "CLOSED"] /\ Until' = [Until EXCEPT ![c] = 0]
    <3>1. /\ Until'[c] = 0 /\ Mode'[c] = "CLOSED"
          /\ \A d \in Cells : d # c => Until'[d] = Until[d] /\ Mode'[d] = Mode[d]
      BY <2>2, Columns
    <3> QED BY <1>1, <1>3, <3>1 DEF DeadlinesNear, LeftAloneStep
  <2>3. CASE UNCHANGED <<Mode, Until>>
    BY <1>3, <2>3 DEF DeadlinesNear, LeftAloneStep
  <2> QED BY <1>3, <2>1, <2>2, <2>3
<1>4. ASSUME NEW c \in Cells, NEW p \in Checks, Contract!Leave(c, p)
      PROVE  \A d \in Cells : Outstanding'[d] \subseteq Outstanding[d]
  BY <1>4, Columns DEF Contract!Leave
<1>5. ASSUME NEW c \in Cells, NEW p \in Checks, Contract!Admit(c, p)
      PROVE  DeadlinesNear' /\ LeftAloneStep
  <2>1. /\ UNCHANGED <<now, Until>> /\ (Mode[c] = "OPEN" => Until[c] <= now)
        /\ \A d \in Cells : d # c => Mode'[d] = Mode[d] /\ Outstanding'[d] = Outstanding[d]
    BY <1>5, Columns DEF Contract!Admit, Contract!MayAdmit
  <2> QED BY <1>2, <2>1
<1>6. ASSUME NEW c \in Cells, NEW p \in Checks,
             Contract!Succeed(c, p) \/ Contract!Fail(c, p) \/ Contract!Abandon(c, p)
      PROVE  DeadlinesNear' /\ LeftAloneStep
  BY <1>3, <1>4, <1>6 DEF Contract!Succeed, Contract!Fail, Contract!Abandon
<1>7. ASSUME NEW c \in Cells, Contract!FailUnprobed(c) \/ Contract!Trip(c)
      PROVE  DeadlinesNear' /\ LeftAloneStep
  BY <1>3, <1>7 DEF Contract!FailUnprobed, Contract!Trip
<1>8. ASSUME NEW lost \in SUBSET Cells, Contract!Lose(lost)
      PROVE  DeadlinesNear' /\ LeftAloneStep
  <2>1. \A c \in Cells :
          /\ Mode'[c] = IF c \in lost THEN "CLOSED" ELSE Mode[c]
          /\ Until'[c] = IF c \in lost THEN 0 ELSE Until[c]
          /\ Outstanding'[c] = IF c \in lost THEN {} ELSE Outstanding[c]
    BY <1>8 DEF Contract!Lose
  <2>2. UNCHANGED now
    BY <1>8 DEF Contract!Lose
  <2> QED BY <1>1, <2>1, <2>2 DEF DeadlinesNear, LeftAloneStep
<1>9. CASE Contract!Tick \/ UNCHANGED Contract!vars
  BY <1>1, <1>9 DEF Contract!Tick, Contract!vars, DeadlinesNear, LeftAloneStep
<1> QED BY <1>5, <1>6, <1>7, <1>8, <1>9 DEF Contract!Next

\* The contract leaves an open service alone; so do, by ContractKept, the
\* replicas (circuit_breaker.py:23-29, 46-71).
THEOREM OpenIsLeftAlone == Spec => LeftAlone
<1>1. Contract!Init => DeadlinesNear
  BY RecoveryOf DEF Contract!Init, DeadlinesNear
<1>2. ImplementsContract => LeftAlone
  BY <1>1, ContractStep, PTL DEF ImplementsContract, Contract!Spec, LeftAlone
<1> QED BY <1>2, ContractKept, PTL
=============================================================================
