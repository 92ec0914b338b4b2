SPECIFICATION Spec
CONSTANTS
    q1 = q1
    q2 = q2
    c1 = c1
    Requests = {q1}
    Clients = {c1}
    Endpoints = {"register"}
    WithBody = {"register"}
    GlobalLimit = 1
    EndpointLimit = 1
    Limit <- MCLimit
    FailOpen = FALSE
    Second = 2
    Window = 1
    MaxTime = 5
    MaxStepBacks = 1
INVARIANT TypeOK
INVARIANT GrantsBounded
INVARIANT AdviceHolds
INVARIANT HandlerIsPaidFor
