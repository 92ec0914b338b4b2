SPECIFICATION FairSpec
CONSTANTS
    r1 = r1
    r2 = r2
    s1 = s1
    s2 = s2
    q1 = q1
    q2 = q2
    t1 = t1
    Replicas = {r1, r2}
    Services = {s1, s2}
    Checks = {q1, q2}
    Trips = {t1}
    Threshold = 1
    Recovery = 1
    Ttl = 1
    DisabledServices = {s2}
    UncachedServices = {s2}
    MaxTime = 1
    MaxInFlight = 2
    MaxRestarts = 0
    FailureThreshold <- MCFailureThreshold
    RecoveryTimeout <- MCRecoveryTimeout
    CacheTtl <- MCCacheTtl
    Enabled <- MCEnabled
INVARIANT HalfOpenHasProber
INVARIANT AlertsAreReal
PROPERTY ImplementsContract
PROPERTY EveryRequestAnswered
\* Requests are one-shot and the clock is bounded: the system really stops.
CHECK_DEADLOCK FALSE
