-------------------------- MODULE MCSeatInventory ---------------------------
(* SeatInventory on small instances: seats and requests are symmetric.      *)
EXTENDS SeatInventory, TLC

Symmetry == Permutations(Seats) \cup Permutations(Requests)
=============================================================================
