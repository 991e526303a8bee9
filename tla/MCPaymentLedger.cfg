CONSTANTS
    Reservations = {r1, r2}
    Payments = {p1, p2}
    Workers = {w1, w2}
    Nobody = Nobody
    FaultKinds = {"outage"}
    MaxFaults = 1
SPECIFICATION FairWatchedSpec
INVARIANTS
    LedgerUntilOverlap
PROPERTIES
    MoneyIsNotKept
CHECK_DEADLOCK FALSE
