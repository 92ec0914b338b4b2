--------------------------- MODULE CircuitBreaker ---------------------------
(***************************************************************************)
(* The data operations of app/circuit_breaker.py: what each method of      *)
(* CircuitBreakerManager makes of the snapshot of one service.  They are   *)
(* synchronous, so that on the event loop of one replica each is a single  *)
(* atomic step; the module therefore has no variables and HealthCheck uses *)
(* its operators inside its actions.                                       *)
(*                                                                         *)
(* b is a snapshot, s a service and t the time (datetime.now) of the call. *)
(* last_failure_at is left out: nothing in the program reads it.           *)
(***************************************************************************)
EXTENDS Integers

CONSTANTS
    Services,           \* the registered services
    FailureThreshold,   \* ServiceRecord.failure_threshold, by service
    RecoveryTimeout     \* ServiceRecord.recovery_timeout_seconds, by service

ASSUME BreakerAssumption ==
    /\ FailureThreshold \in [Services -> Nat \ {0}]
    /\ RecoveryTimeout \in [Services -> Nat \ {0}]

CircuitState == {"CLOSED", "OPEN", "HALF_OPEN"}

\* opened_at = None.
Never == -1

CircuitBreakerSnapshot ==
    [state: CircuitState, failure_count: Nat, opened_at: Nat \cup {Never}]

\* What snapshot() returns for a service the manager has no entry of.
DefaultSnapshot == [state |-> "CLOSED", failure_count |-> 0, opened_at |-> Never]

\* The time from which an open breaker lets a probe through (line 24-25).
RecoversAt(b, s, t) ==
    (IF b.opened_at = Never THEN t ELSE b.opened_at) + RecoveryTimeout[s]

\* Mutant of MayProbe: an open circuit no longer rejects.
MayProbe_NoReject(b, s, t) == TRUE

\* before_request returns rather than raises CircuitBreakerOpenError: only an
\* OPEN breaker rejects, a HALF_OPEN one admits every caller.
MayProbe(b, s, t) == b.state = "OPEN" => RecoversAt(b, s, t) <= t

\* Mutant of before_request: a recovered circuit is closed, not half-opened.
before_request_Closes(b) ==
    IF b.state = "OPEN" THEN [b EXCEPT !.state = "CLOSED"] ELSE b

\* The snapshot before_request returns and leaves behind, when MayProbe.
before_request(b) ==
    IF b.state = "OPEN" THEN [b EXCEPT !.state = "HALF_OPEN"] ELSE b

record_success == DefaultSnapshot

\* Mutant of Opens: the threshold is exceeded, not reached.
Opens_OffByOne(b, s) ==
    b.state = "HALF_OPEN" \/ b.failure_count + 1 > FailureThreshold[s]

\* Mutant of Opens: a failed half-open probe counts like any other.
Opens_NoHalfOpen(b, s) == b.failure_count + 1 >= FailureThreshold[s]

\* This failure opens the circuit, or re-opens it.
Opens(b, s) ==
    b.state = "HALF_OPEN" \/ b.failure_count + 1 >= FailureThreshold[s]

\* Mutant of record_failure: the circuit opens with the old opened_at.
record_failure_KeepsStamp(b, s, t) ==
    [state         |-> IF Opens(b, s) THEN "OPEN" ELSE b.state,
     failure_count |-> b.failure_count + 1,
     opened_at     |-> b.opened_at]

\* A failure below the threshold keeps the state it finds, OPEN included, and
\* its opened_at; at the threshold it restarts the recovery timeout.
record_failure(b, s, t) ==
    [state         |-> IF Opens(b, s) THEN "OPEN" ELSE b.state,
     failure_count |-> b.failure_count + 1,
     opened_at     |-> IF Opens(b, s) THEN t ELSE b.opened_at]

trip(t) == [state |-> "OPEN", failure_count |-> 0, opened_at |-> t]

\* A snapshot that can be found at time t: CLOSED is below the threshold, OPEN
\* knows since when, HALF_OPEN has been open for the whole recovery timeout.
Coherent(b, s, t) ==
    /\ b.state = "CLOSED" => b.failure_count < FailureThreshold[s] /\ b.opened_at = Never
    /\ b.state = "OPEN" => b.opened_at \in 0..t
    /\ b.state = "HALF_OPEN" => b.opened_at # Never /\ b.opened_at + RecoveryTimeout[s] <= t
=============================================================================
