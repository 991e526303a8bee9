CONSTANTS
    Seats = {s1}
    Tokens = {t1}
    Reservations = {r1}
    Ops = {o1}
    Nobody = Nobody
    SweepOn = FALSE
    MaxFaults = 1
SPECIFICATION ExpirySpec
PROPERTIES
    OrphanHoldEnds
CHECK_DEADLOCK FALSE
