CONSTANTS
    Reservations = {r1}
    Payments = {p1}
    Workers = {w1, w2}
    Nobody = Nobody
    FaultKinds = {}
    MaxFaults = 0
SPECIFICATION FairSpec
PROPERTIES
    RetryRecovers
CHECK_DEADLOCK FALSE
