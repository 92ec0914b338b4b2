--------------------------- MODULE MCHealthCheck ---------------------------
(* Small instances of HealthCheck for TLC. *)
EXTENDS HealthCheck, TLC

CONSTANTS
    Threshold,      \* failure_threshold of every service
    Recovery,       \* recovery_timeout_seconds of every service
    Ttl,            \* cache_ttl_seconds of the services not in UncachedServices
    DisabledServices,
    UncachedServices

MCFailureThreshold == [s \in Services |-> Threshold]
MCRecoveryTimeout == [s \in Services |-> Recovery]
MCCacheTtl == [s \in Services |-> IF s \in UncachedServices THEN 0 ELSE Ttl]
MCEnabled == [s \in Services |-> s \notin DisabledServices]

\* Checks differ in nothing but their names, and neither do trips.
MCSymmetry == Permutations(Checks) \cup Permutations(Trips)
=============================================================================
