------------------------------ MODULE Handler ------------------------------
(***************************************************************************)
(* The contract of HandlerContract as a state machine: every operation of  *)
(* a handler is one atomic step.  DockerHandler implements it.             *)
(***************************************************************************)
EXTENDS HandlerContract

CONSTANT replicas   \* containers per function, from the deployment request

VARIABLES
  state,    \* the handler state the contract talks about
  result    \* the last operation and whether it succeeded

Replica == 0..(replicas - 1)

Operation == {"Start", "Stop", "Destroy"}

Results(o) ==
  CASE o = "Start"   -> StartResults(state, Replica, replicas)
    [] o = "Stop"    -> StopResults(state)
    [] o = "Destroy" -> DestroyResults(state)

Init == state = Created /\ result = [op |-> "New", ok |-> TRUE]

Perform(o) ==
  \E r \in Results(o) : state' = r.state /\ result' = [op |-> o, ok |-> r.ok]

Next == \E o \in Operation : Perform(o)

Spec == Init /\ [][Next]_<<state, result>>
=============================================================================
