--------------------------- MODULE MCPaymentSaga ----------------------------
(* PaymentSaga on small instances: reservations, payments and threads are   *)
(* symmetric.                                                               *)
EXTENDS PaymentSaga, TLC

Symmetry == Permutations(Reservations) \cup Permutations(Payments)
                \cup Permutations(Workers)
=============================================================================
