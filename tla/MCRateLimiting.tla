--------------------------- MODULE MCRateLimiting ---------------------------
(* A small instance of RateLimiting for TLC. *)
EXTENDS RateLimiting

CONSTANTS
    GlobalLimit,    \* global_requests
    EndpointLimit   \* the limit of every endpoint

MCLimit == [s \in Scopes |-> IF s = Global THEN GlobalLimit ELSE EndpointLimit]
=============================================================================
