CONSTANTS
    Reservations = {r1, r2}
    Payments = {p1, p2, p3}
    Workers = {w1, w2}
    Nobody = Nobody
    FaultKinds = {"timeout", "outage", "crash"}
    MaxFaults = 2
SPECIFICATION Spec
SYMMETRY Symmetry
INVARIANTS
    TypeOK
    ChargedOnce
    RefundedIsReturned
    ConfirmedWasCharged
CHECK_DEADLOCK FALSE
