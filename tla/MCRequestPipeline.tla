-------------------------- MODULE MCRequestPipeline -------------------------
(* A small instance of RequestPipeline for TLC. *)
EXTENDS RequestPipeline, TLC

CONSTANTS
    GlobalLimit,    \* global_requests
    EndpointLimit   \* the limit of every endpoint

MCLimit == [s \in Scopes |-> IF s = Global THEN GlobalLimit ELSE EndpointLimit]

\* Two of the routes of app/main.py, in their order.
ContainerHealth == 1
RegisterService == 2

\* OPTIONS of a path that is none, POST and PUT /register-service.
MCMatches ==
    "options nothing" :> <<"none", "none">> @@
    "post register-service" :> <<"none", "full">> @@
    "put register-service" :> <<"none", "partial">>

\* Requests differ in nothing but their names.
MCSymmetry == Permutations(Requests)

MCLimited == RegisterService :> "register"
=============================================================================
