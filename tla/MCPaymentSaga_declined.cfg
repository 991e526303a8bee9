CONSTANTS
    Reservations = {r1}
    Payments = {p1}
    Workers = {w1, w2}
    Nobody = Nobody
    FaultKinds = {}
    MaxFaults = 0
SPECIFICATION Spec
INVARIANTS
    FailedIsNotCharged
CHECK_DEADLOCK FALSE
