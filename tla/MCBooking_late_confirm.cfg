CONSTANTS
    Seats = {s1}
    Tokens = {t1, t2}
    Reservations = {r1, r2}
    Ops = {o1, o2}
    Nobody = Nobody
    SweepOn = FALSE
    MaxFaults = 0
SPECIFICATION Spec
PROPERTIES
    CancelledStaysCancelled
CHECK_DEADLOCK FALSE
