----------------------------- MODULE MCGateway -----------------------------
(* Calls of the gateway, all alike.                                        *)
EXTENDS Gateway

CONSTANTS c1, c2

MCCall == {c1, c2}
=============================================================================
