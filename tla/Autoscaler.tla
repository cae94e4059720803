----------------------------- MODULE Autoscaler -----------------------------
(***************************************************************************)
(* EXTERNAL: the autoscaler is a library outside this repository.  This is *)
(* what the server's calls and tests (pkg/server/server_test.go) rely on:  *)
(* one registration per function with a scaling state and a count of       *)
(* requests in flight; one scaling operation at a time per registration;   *)
(* a registered function is stopped only when it is active and idle.       *)
(* A registration is identified by the deployment that made it: an         *)
(* operation that began under an earlier registration settles nothing.     *)
(***************************************************************************)
EXTENDS Naturals

CONSTANTS
  Functions,
  Handlers,   \* deployments
  None

VARIABLE autoscaler

ScalingState == {"Active", "ScalingDown", "ScaledDown", "ScalingUp"}

Unregistered == [state |-> "Unregistered", inFlight |-> 0, entry |-> None]

Init == autoscaler = [f \in Functions |-> Unregistered]

TypeOK ==
  autoscaler \in [Functions ->
    [state : ScalingState, inFlight : Nat, entry : Handlers] \cup {Unregistered}]

InState(f, s) == autoscaler[f].state = s

Idle(f) == InState(f, "Active") /\ autoscaler[f].inFlight = 0

\* One operation has the function between its claim and its Settle.
Scaling(f) == InState(f, "ScalingDown") \/ InState(f, "ScalingUp")

\* RegisterFunction starts afresh, also for a function it knows.
RegisterFunction(f, entry) ==
  autoscaler' = [autoscaler EXCEPT
                   ![f] = [state |-> "Active", inFlight |-> 0, entry |-> entry]]

UnregisterFunction(f) == autoscaler' = [autoscaler EXCEPT ![f] = Unregistered]

\* ScaleDownWhenIdle and the idle check claim an idle function.
ClaimScaleDown(f) ==
  /\ Idle(f)
  /\ autoscaler' = [autoscaler EXCEPT ![f].state = "ScalingDown"]

\* ScaleUpWhenReady and TryScaleUp claim a stopped one.
ClaimScaleUp(f) ==
  /\ InState(f, "ScaledDown")
  /\ autoscaler' = [autoscaler EXCEPT ![f].state = "ScalingUp"]

\* The operation's result, applied to the registration it was claimed under.
Settle(f, entry, active) ==
  autoscaler' =
    IF autoscaler[f].entry = entry
      THEN [autoscaler EXCEPT ![f].state = IF active THEN "Active" ELSE "ScaledDown"]
      ELSE autoscaler

\* StartInvocation refuses a function that is not active.
StartInvocation(f) ==
  /\ InState(f, "Active")
  /\ autoscaler' = [autoscaler EXCEPT ![f].inFlight = @ + 1]

Uncounts(f) == autoscaler' = [autoscaler EXCEPT ![f].inFlight = @ - 1]

\* EndInvocation names the function only, and never counts below zero.
EndInvocation(f) ==
  autoscaler' = [autoscaler EXCEPT ![f].inFlight = IF @ > 0 THEN @ - 1 ELSE 0]
=============================================================================
