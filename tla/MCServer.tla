------------------------------ MODULE MCServer ------------------------------
(* Server on small instances; the .cfg files give the constants. *)
EXTENDS Server, TLC

\* Deployments, addresses and goroutines of a kind are interchangeable.
Interchangeable ==
  Permutations(Handlers) \cup Permutations(IPs)
    \cup Permutations(Callers) \cup Permutations(Scalers)
=============================================================================
