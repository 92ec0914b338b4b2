SPECIFICATION Spec
CONSTANTS
    r1 = r1
    r2 = r2
    q1 = q1
    q2 = q2
    q3 = q3
    n1 = n1
    n2 = n2
    n3 = n3
    Replicas = {r1, r2}
    Requests = {q1, q2, q3}
    Names = {n1, n2}
    Faulty = TRUE
    MaxInFlight = 3
    MaxRestarts = 1
SYMMETRY MCSymmetry
INVARIANT TypeOK
INVARIANT AnswersAreTrue
INVARIANT NeverOvercounts
\* Requests are one-shot: the system really stops.
CHECK_DEADLOCK FALSE
