---------------------------- MODULE MCLifecycle -----------------------------
(* A small instance of Lifecycle for TLC. *)
EXTENDS Lifecycle

\* Everything set, with rate limiting and tracing on.
Complete ==
    [url |-> [u \in Urls |-> "good"], flag |-> [f \in Flags |-> "true"],
     ENVIRONMENT |-> "known", LOG_LEVEL |-> "known", numbers |-> "positive"]

\* With defaults, tracing being off, and with rate limiting off.
Plain ==
    [Complete EXCEPT !.flag = [OTEL_ENABLED |-> "unset", RATE_LIMIT_ENABLED |-> "other"],
                     !.ENVIRONMENT = "unset", !.LOG_LEVEL = "unset", !.numbers = "unset"]

\* Both; unreadable, or with an unknown level of the log; one URL missing, empty or
\* malformed, the latter with tracing off and rate limiting on.
MCEnvironments ==
    {Complete, Plain,
     [Complete EXCEPT !.ENVIRONMENT = "unknown"], [Complete EXCEPT !.numbers = "no number"],
     [Complete EXCEPT !.LOG_LEVEL = "unknown"]}
    \cup {[Complete EXCEPT !.url[u] = v] : u \in Urls, v \in {"unset", "empty"}}
    \cup {[Complete EXCEPT !.url[u] = "malformed",
                           !.flag = [OTEL_ENABLED |-> "other", RATE_LIMIT_ENABLED |-> "unset"]] :
            u \in Urls}

\* Everything installed, nothing, or all but one package.
MCInstallations == {Packages, {}} \cup {Packages \ {p} : p \in Packages}
=============================================================================
