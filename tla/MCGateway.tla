----------------------------- MODULE MCGateway ------------------------------
(* Gateway with two routes of different sizes.                              *)
EXTENDS Gateway, TLC

CONSTANTS payment, booking

Permits == payment :> 2 @@ booking :> 1
Bursts  == payment :> 1 @@ booking :> 1
Changes == payment :> 2 @@ booking :> 0
=============================================================================
