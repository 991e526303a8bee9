--------------------------- MODULE MCWaitingRoom ----------------------------
(* WaitingRoom with two slots: of two users, one of whom queues again after *)
(* his first token, or of one who polls twice at once.                      *)
EXTENDS WaitingRoom, TLC

CONSTANTS u1, u2, r1, r2

OneOrTwo == {r1 :> u1 @@ r2 :> u1, r1 :> u1 @@ r2 :> u2}

TwoThenOne == u1 :> 2 @@ u2 :> 1

\* One user alone, who may have a second token.
Alone == {r1 :> u1}

Two == u1 :> 2
=============================================================================
