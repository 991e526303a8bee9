CONSTANTS
    Seats = {s1, s2}
    Tokens = {t1, t2}
    Reservations = {r1, r2, r3}
    Ops = {o1, o2}
    Nobody = Nobody
    SweepOn = FALSE
    MaxFaults = 1
SPECIFICATION WatchedSpec
SYMMETRY Symmetry
INVARIANTS
    TypeOK
    NoDoubleSale
    TokenAdmitsOnce
    OwnedUntilTrouble
PROPERTIES
    SaleSpec
    DeskSpec
CHECK_DEADLOCK FALSE
