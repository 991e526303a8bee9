CONSTANTS
    Seats = {s1}
    Tokens = {t1, t2}
    Reservations = {r1, r2}
    Ops = {o1}
    Nobody = Nobody
    SweepOn = TRUE
    MaxFaults = 1
SPECIFICATION FairSpec
PROPERTIES
    RequestEndsWithoutLock
CHECK_DEADLOCK FALSE
