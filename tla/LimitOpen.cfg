SPECIFICATION PipelineSpec
CONSTANTS
    q1 = q1
    q2 = q2
    c1 = c1
    a = a
    NoId = NoId
    Requests = {q1, q2}
    Clients = {c1}
    Endpoints = {"register"}
    WithBody = {"register"}
    GlobalLimit = 2
    EndpointLimit = 1
    Limit <- MCLimit
    FailOpen = TRUE
    Second = 1
    Window = 2
    MaxTime = 0
    MaxStepBacks = 0
    Targets = {"options nothing", "post register-service", "put register-service"}
    Matches <- MCMatches
    ExemptTargets = {"options nothing"}
    Limited <- MCLimited
    CallerIds = {a}
    Peers = {c1}
    Forwarded = {"absent"}
    TrustForwarded = FALSE
    MaxRequests = 3
SYMMETRY MCSymmetry
INVARIANT PipelineTypeOK
INVARIANT HandlerIsPaidFor
INVARIANT OutagesLetThrough
INVARIANT HeadersFitResponse
INVARIANT IdsNotMixed
INVARIANT MetricsAgree
INVARIANT LabelledByRoute
\* A bounded number of requests: the system really stops.
CHECK_DEADLOCK FALSE
