------------------------ MODULE MCSessionOwnership ------------------------
(* Two instances, and the gateways that two requests enter at.             *)
EXTENDS SessionOwnership, TLC

CONSTANTS A, B, r1, r2

TwoGateways == (r1 :> A) @@ (r2 :> B)
SteadyGateway == (r1 :> B) @@ (r2 :> B)
BothHomes == {SteadyGateway, TwoGateways}
=============================================================================
