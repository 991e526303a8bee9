-------------------------- MODULE AdmissionTokens ---------------------------
(***************************************************************************)
(* What waitingroom-app promises booking-app about a token: it is issued   *)
(* once, accepted from then on until it is used or its time is over, used  *)
(* at most once, and never accepted again.                                 *)
(*                                                                         *)
(* WaitingRoom shows that its rows of active_tokens provide this; Booking  *)
(* uses the operators of this module as its calls to waitingroom-app.      *)
(***************************************************************************)
CONSTANT Tokens

VARIABLE token           \* token[t]: what a caller can tell of token t

\* "GONE": its time is over, and it was not used.
TokenStatus == {"NONE", "ACTIVE", "USED", "GONE"}

TypeOK == token \in [Tokens -> TokenStatus]

Init == token = [t \in Tokens |-> "NONE"]

Change(t, expected, next) ==
    /\ token[t] = expected
    /\ token' = [token EXCEPT ![t] = next]

Issue(t) == Change(t, "NONE", "ACTIVE")
Use(t)   == Change(t, "ACTIVE", "USED")
Lapse(t) == Change(t, "ACTIVE", "GONE")

Next == \E t \in Tokens : Issue(t) \/ Use(t) \/ Lapse(t)

Spec == Init /\ [][Next]_token
=============================================================================
