SPECIFICATION Spec
CONSTANTS
    w1 = w1
    w2 = w2
    p1 = p1
    g1 = g1
    a1 = a1
    a2 = a2
    NotADict = NotADict
    Sockets = {w1, w2}
    Services = {p1}
    Groups = {}
    Alerts = {a1, a2}
    Payload <- MCPayload
    Nobody = Nobody
    SendErrors = {"RuntimeError"}
PROPERTY DeliveredToEveryActive
\* Sockets, registrations and groups are one-shot: the system really stops.
CHECK_DEADLOCK FALSE
