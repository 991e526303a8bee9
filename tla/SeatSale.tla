------------------------------ MODULE SeatSale ------------------------------
(***************************************************************************)
(* What the ticketing system promises about a sale, whatever happens       *)
(* underneath: a seat goes to at most one reservation, a reservation gets  *)
(* at most one seat, and a sale is never taken back or handed over.        *)
(***************************************************************************)
CONSTANTS
    Seats,
    Reservations,
    Nobody            \* the buyer of a seat that is not sold

VARIABLE buyer        \* buyer[s]: the reservation that bought seat s

TypeOK == buyer \in [Seats -> Reservations \cup {Nobody}]

Init == buyer = [s \in Seats |-> Nobody]

Sell(s, r) ==
    /\ buyer[s] = Nobody
    /\ \A z \in Seats : buyer[z] # r
    /\ buyer' = [buyer EXCEPT ![s] = r]

Next == \E s \in Seats, r \in Reservations : Sell(s, r)

Spec == Init /\ [][Next]_buyer
=============================================================================
