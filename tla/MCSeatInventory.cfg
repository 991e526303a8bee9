CONSTANTS
    Seats = {s1, s2}
    Requests = {r1, r2, r3, r4}
    NoSeat = NoSeat
SPECIFICATION Spec
SYMMETRY Symmetry
INVARIANTS
    TypeOK
    OneWinnerPerVersion
    SoldOnce
    HoldsBalance
    ConflictHasWinner
PROPERTIES
    RegisterSpec
CHECK_DEADLOCK FALSE
