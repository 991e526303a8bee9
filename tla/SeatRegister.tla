---------------------------- MODULE SeatRegister ----------------------------
(***************************************************************************)
(* What concert-app promises its callers about a seat: the status changes  *)
(* in one indivisible step, only when it is the status the command         *)
(* expects, and only along AVAILABLE -> HOLD -> {AVAILABLE, SOLD}.         *)
(*                                                                         *)
(* SeatInventory shows that the optimistic lock of the code provides this; *)
(* Booking uses the operators of this module as its calls to concert-app.  *)
(***************************************************************************)
CONSTANT Seats

VARIABLE status          \* status[s]: column `status` of seat s

SeatStatus == {"AVAILABLE", "HOLD", "SOLD"}

TypeOK == status \in [Seats -> SeatStatus]

Init == status = [s \in Seats |-> "AVAILABLE"]

Change(s, expected, next) ==
    /\ status[s] = expected
    /\ status' = [status EXCEPT ![s] = next]

Hold(s)    == Change(s, "AVAILABLE", "HOLD")
Release(s) == Change(s, "HOLD", "AVAILABLE")
Confirm(s) == Change(s, "HOLD", "SOLD")

Next == \E s \in Seats : Hold(s) \/ Release(s) \/ Confirm(s)

Spec == Init /\ [][Next]_status
=============================================================================
