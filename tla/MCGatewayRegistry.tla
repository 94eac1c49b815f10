------------------------- MODULE MCGatewayRegistry -------------------------
(* GatewayRegistry for TLC: the HTTP requests are interchangeable, and so are *)
(* the gateways.                                                              *)
EXTENDS GatewayRegistry, TLC

Symmetry == Permutations(Requests) \cup Permutations(Gateways)
=============================================================================
