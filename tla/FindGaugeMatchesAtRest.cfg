SPECIFICATION Spec
CONSTANTS
    r1 = r1
    s1 = s1
    q1 = q1
    q2 = q2
    t1 = t1
    Replicas = {r1}
    Services = {s1}
    Checks = {q1, q2}
    Trips = {t1}
    Threshold = 1
    Recovery = 1
    Ttl = 1
    DisabledServices = {}
    UncachedServices = {}
    MaxTime = 2
    MaxInFlight = 1
    MaxRestarts = 0
    FailureThreshold <- MCFailureThreshold
    RecoveryTimeout <- MCRecoveryTimeout
    CacheTtl <- MCCacheTtl
    Enabled <- MCEnabled
SYMMETRY MCSymmetry
INVARIANT GaugeMatchesAtRest
\* Requests are one-shot and the clock is bounded: the system really stops.
CHECK_DEADLOCK FALSE
