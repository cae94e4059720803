--------------------------- MODULE MCGatewayStats ---------------------------
(* One small gateway; goroutines of a kind are interchangeable. *)
EXTENDS GatewayStats

Interchangeable ==
  Permutations(Invokers)
=============================================================================
