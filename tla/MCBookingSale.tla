--------------------------- MODULE MCBookingSale ----------------------------
(* MCBooking with a history: whether two commands ever overlapped.          *)
EXTENDS MCBooking

VARIABLE overlapped

Overlap == \E o1, o2 \in Ops : o1 # o2 /\ op[o1].phase # "idle" /\ op[o2].phase # "idle"

WatchedInit == Init /\ overlapped = FALSE
WatchedNext == Next /\ overlapped' = (overlapped \/ Overlap')
WatchedSpec == WatchedInit /\ [][WatchedNext]_<<vars, overlapped>>

\* Until something fails or two commands on reservations overlap, a HOLD belongs
\* to exactly one reservation or request, nobody else believes to have the seat,
\* and a SOLD seat has its CONFIRMED reservation, however many requests compete
\* (doCreateReservation with its compensation, cancelReservation).
OwnedUntilTrouble == faults = 0 /\ ~ overlapped => HoldHasOneOwner
=============================================================================
