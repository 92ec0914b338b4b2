SPECIFICATION Spec
CONSTANTS
    r1 = r1
    s1 = s1
    q1 = q1
    q2 = q2
    q3 = q3
    t1 = t1
    Replicas = {r1}
    Services = {s1}
    Checks = {q1, q2, q3}
    Trips = {t1}
    Threshold = 2
    Recovery = 1
    Ttl = 1
    DisabledServices = {}
    UncachedServices = {}
    MaxTime = 2
    MaxInFlight = 3
    MaxRestarts = 1
    FailureThreshold <- MCFailureThreshold
    RecoveryTimeout <- MCRecoveryTimeout
    CacheTtl <- MCCacheTtl
    Enabled <- MCEnabled
SYMMETRY MCSymmetry
INVARIANT TypeOK
INVARIANT BreakerCoherent
INVARIANT HalfOpenHasProber
INVARIANT OpenTotalNeverUndercounts
INVARIANT AlertsAreReal
PROPERTY QuietOpenHolds
PROPERTY ImplementsContract
\* Requests are one-shot and the clock is bounded: the system really stops.
CHECK_DEADLOCK FALSE
