CONSTANTS
    Reservations = {r1}
    Payments = {p1}
    Workers = {w1, w2}
    Nobody = Nobody
    FaultKinds = {"outage"}
    MaxFaults = 1
SPECIFICATION Spec
INVARIANTS
    RetryHasKey
CHECK_DEADLOCK FALSE
