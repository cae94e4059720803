-------------------------- MODULE HandlerContract --------------------------
(***************************************************************************)
(* What a caller of server.Handler may rely on (pkg/server/server.go:66):  *)
(* each operation maps the handler's externally visible state to a set of  *)
(* outcomes.  The server is modelled against this contract; the Docker     *)
(* handler is shown to implement it.                                       *)
(*                                                                         *)
(* A handler state is                                                      *)
(*   phase - "up": the containers run and have passed their readiness      *)
(*           check; "down": the handler tracks no container and no         *)
(*           network; "partial": neither, a clean-up left something over   *)
(*   image - the function's image exists, so that containers can be made   *)
(*   ips   - the addresses IPs() returns                                   *)
(***************************************************************************)
EXTENDS Naturals, FiniteSets

Phase == {"down", "partial", "up"}

HandlerState(addresses) ==
  [phase : Phase, image : BOOLEAN, ips : SUBSET addresses]

\* A handler as Backend.Create returns it: the image is built and the
\* per-function network exists, no container does.
Created == [phase |-> "partial", image |-> TRUE, ips |-> {}]

Outcome(ok, s) == [ok |-> ok, state |-> s]

WithRuntime(s, phase, ips) == [phase |-> phase, image |-> s.image, ips |-> ips]

\* n replicas get n addresses of their own, once the image is there to run.
Placements(s, free, n) ==
  {a \in SUBSET free : Cardinality(a) = n /\ (n > 0 => s.image)}

\* Start and Restart: a running handler is left alone; otherwise all n replicas
\* become ready, or none does.
StartResults(s, free, n) ==
  IF s.phase = "up" THEN {Outcome(TRUE, s)}
  ELSE {Outcome(TRUE, WithRuntime(s, "up", a)) : a \in Placements(s, free, n)}
       \cup {Outcome(FALSE, WithRuntime(s, p, {})) : p \in {"down", "partial"}}

\* Stop: nothing is left, or it fails with the addresses withdrawn all the same.
StopResults(s) ==
  IF s.phase = "down" THEN {Outcome(TRUE, s)}
  ELSE {Outcome(TRUE, WithRuntime(s, "down", {})),
        Outcome(FALSE, WithRuntime(s, "partial", {}))}

\* Destroy: as Stop, and the image is removed whether or not that went well.
DestroyResults(s) ==
  {Outcome(TRUE, [phase |-> "down", image |-> FALSE, ips |-> {}])}
  \cup {Outcome(FALSE, [phase |-> pi[1], image |-> pi[2], ips |-> {}]) :
          pi \in {<<"partial", FALSE>>, <<"partial", s.image>>, <<"down", s.image>>}}
=============================================================================
