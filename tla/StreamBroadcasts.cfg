SPECIFICATION FairSpec
CONSTANTS
    w1 = w1
    w2 = w2
    p1 = p1
    g1 = g1
    a1 = a1
    a2 = a2
    NotADict = NotADict
    Sockets = {w1, w2}
    Services = {p1}
    Groups = {g1}
    Alerts = {a1, a2}
    Payload <- MCPayload
    Nobody = Nobody
    SendErrors = {"RuntimeError", "WebSocketDisconnect"}
INVARIANT TypeOK
INVARIANT NoGap
INVARIANT LiveAreRegistered
PROPERTY UndisturbedReachesAll
PROPERTY EveryGroupAccepted
\* Sockets, registrations and groups are one-shot: the system really stops.
CHECK_DEADLOCK FALSE
