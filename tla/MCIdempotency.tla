--------------------------- MODULE MCIdempotency ----------------------------
(* Idempotency on small instances: keys and attempts are symmetric.         *)
EXTENDS Idempotency, TLC

Symmetry == Permutations(Keys) \cup Permutations(Attempts)
=============================================================================
