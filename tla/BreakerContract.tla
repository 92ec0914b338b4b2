-------------------------- MODULE BreakerContract --------------------------
(***************************************************************************)
(* What a circuit breaker promises, with no failure counts, requests,      *)
(* caches or metrics: one breaker per cell (a service as one replica sees  *)
(* it), and the probes let through to the service that have not reported.  *)
(*                                                                         *)
(*  - a probe is let through only if the breaker is not OPEN, or has been  *)
(*    OPEN until its deadline, and then the breaker is HALF_OPEN;          *)
(*  - before its deadline an OPEN breaker is closed by nothing but the     *)
(*    success of a probe let through earlier, or the loss of its replica;  *)
(*  - a failed half-open probe always opens it again;                      *)
(*  - whatever opens it gives it a full recovery timeout from now.         *)
(*                                                                         *)
(* HealthCheck implements this specification: see HealthCheckRefinement. *)
(***************************************************************************)
EXTENDS Integers

CONSTANTS
    Cells,      \* the breakers
    Probes,     \* names of probes
    Recovery    \* the recovery timeout of each breaker

VARIABLES
    now,            \* the clock
    mode,           \* mode[c]: CLOSED, OPEN or HALF_OPEN
    until,          \* until[c]: the deadline set when c last opened
    outstanding     \* outstanding[c]: probes let through and not yet back

vars == <<now, mode, until, outstanding>>

Init ==
    /\ now = 0
    /\ mode = [c \in Cells |-> "CLOSED"]
    /\ until = [c \in Cells |-> 0]
    /\ outstanding = [c \in Cells |-> {}]

\* The mode in which a probe is let through, when one may be.
MayAdmit(c) == mode[c] = "OPEN" => until[c] <= now
AdmittedMode(c) == IF mode[c] = "OPEN" THEN "HALF_OPEN" ELSE mode[c]

OpenNow(c) ==
    /\ mode' = [mode EXCEPT ![c] = "OPEN"]
    /\ until' = [until EXCEPT ![c] = now + Recovery[c]]

Admit(c, p) ==
    /\ MayAdmit(c)
    /\ mode' = [mode EXCEPT ![c] = AdmittedMode(c)]
    /\ outstanding' = [outstanding EXCEPT ![c] = @ \cup {p}]
    /\ UNCHANGED <<now, until>>

Leave(c, p) ==
    /\ p \in outstanding[c]
    /\ outstanding' = [outstanding EXCEPT ![c] = @ \ {p}]

Succeed(c, p) ==
    /\ Leave(c, p)
    /\ mode' = [mode EXCEPT ![c] = "CLOSED"]
    /\ until' = [until EXCEPT ![c] = 0]
    /\ UNCHANGED now

\* A failure opens the breaker or, unless it is HALF_OPEN, is only counted.
Fail(c, p) ==
    /\ Leave(c, p)
    /\ \/ OpenNow(c)
       \/ mode[c] # "HALF_OPEN" /\ UNCHANGED <<mode, until>>
    /\ UNCHANGED now

\* A failure recorded without contacting the service.
FailUnprobed(c) ==
    /\ MayAdmit(c)
    /\ \/ OpenNow(c)
       \/ mode[c] = "CLOSED" /\ UNCHANGED <<mode, until>>
    /\ UNCHANGED <<now, outstanding>>

\* A probe that ends without a verdict tells the breaker nothing.
Abandon(c, p) ==
    /\ Leave(c, p)
    /\ UNCHANGED <<now, mode, until>>

Trip(c) ==
    /\ OpenNow(c)
    /\ UNCHANGED <<now, outstanding>>

\* The breakers in lost are forgotten, with the probes they let through.
Lose(lost) ==
    /\ mode' = [c \in Cells |-> IF c \in lost THEN "CLOSED" ELSE mode[c]]
    /\ until' = [c \in Cells |-> IF c \in lost THEN 0 ELSE until[c]]
    /\ outstanding' = [c \in Cells |-> IF c \in lost THEN {} ELSE outstanding[c]]
    /\ UNCHANGED now

Tick == now' = now + 1 /\ UNCHANGED <<mode, until, outstanding>>

Next ==
    \/ \E c \in Cells :
        \/ \E p \in Probes :
            Admit(c, p) \/ Succeed(c, p) \/ Fail(c, p) \/ Abandon(c, p)
        \/ FailUnprobed(c)
        \/ Trip(c)
    \/ \E lost \in SUBSET Cells : Lose(lost)
    \/ Tick

Spec == Init /\ [][Next]_vars
=============================================================================
