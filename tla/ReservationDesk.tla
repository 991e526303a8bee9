-------------------------- MODULE ReservationDesk ---------------------------
(***************************************************************************)
(* What booking-app promises payment-app about a reservation: along which  *)
(* statuses it goes, and that a confirm is under way only for a            *)
(* reservation that was PENDING and not yet expired when the confirm read  *)
(* it.  The confirm may still be refused then, because of the seat; and it *)
(* may be written after the reservation has lapsed or been cancelled.      *)
(*                                                                         *)
(* Booking shows that the code of booking-app provides this; PaymentSaga   *)
(* uses the operators of this module as its calls to booking-app.          *)
(***************************************************************************)
CONSTANT Reservations

VARIABLES
    reservation,     \* reservation[r]: its status
    accepted         \* reservations of which a confirm is under way

desk == <<reservation, accepted>>

\* "LAPSED": still PENDING in the table, but past its expired_at.
Open   == {"PENDING", "LAPSED"}
Status == Open \cup {"NONE", "CANCELLED", "CONFIRMED"}

TypeOK ==
    /\ reservation \in [Reservations -> Status]
    /\ accepted \subseteq Reservations

Init ==
    /\ reservation = [r \in Reservations |-> "NONE"]
    /\ accepted = {}

Change(r, from, to) ==
    /\ reservation[r] \in from
    /\ reservation' = [reservation EXCEPT ![r] = to]

Create(r) == Change(r, {"NONE"}, "PENDING") /\ UNCHANGED accepted
Lapse(r)  == Change(r, {"PENDING"}, "LAPSED") /\ UNCHANGED accepted
Cancel(r) == Change(r, Open, "CANCELLED") /\ UNCHANGED accepted

\* A confirm passes the validator ...
Accept(r) ==
    /\ reservation[r] = "PENDING"
    /\ accepted' = accepted \cup {r}
    /\ UNCHANGED reservation

\* ... and is refused for the seat, or written over whatever the row is by then.
Refuse(r) ==
    /\ r \in accepted
    /\ accepted' = accepted \ {r}
    /\ UNCHANGED reservation

Confirm(r) ==
    /\ r \in accepted
    /\ Change(r, Open \cup {"CANCELLED"}, "CONFIRMED")
    /\ accepted' = accepted \ {r}

Next == \E r \in Reservations :
    \/ Create(r) \/ Lapse(r) \/ Cancel(r)
    \/ Accept(r) \/ Refuse(r) \/ Confirm(r)

Spec == Init /\ [][Next]_desk
=============================================================================
