---------------------------- MODULE MCLoadTest ------------------------------
(* LoadTest with two VUs, and as many repetitions as the thresholds need.   *)
EXTENDS LoadTest, TLC

\* 1 of 20 is exactly 5 %; 60 of 6060 is less than 1 %.
FewOrMany == [s \in Scripts |-> IF s = "soak" THEN {1, 60, 6000} ELSE {1, 19}]

\* Two VUs that send one request each.
Once == [s \in Scripts |-> {1}]

Symmetry == Permutations(VUs)
=============================================================================
