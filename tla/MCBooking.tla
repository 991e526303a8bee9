----------------------------- MODULE MCBooking ------------------------------
(* Booking on small instances.  Threads that serve commands are            *)
(* interchangeable, and so are create requests, seats and tokens.          *)
EXTENDS Booking, TLC

Symmetry == Permutations(Seats) \cup Permutations(Tokens)
                \cup Permutations(Reservations) \cup Permutations(Ops)
=============================================================================
