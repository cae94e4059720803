--------------------------- MODULE DockerHandler ---------------------------
(***************************************************************************)
(* One function deployment on the Docker back end: pkg/docker/handler.go.  *)
(* opMux is held for the whole of Start, Stop and Destroy, so at most one  *)
(* operation is under way; its Docker calls, the readiness goroutines and  *)
(* the containers themselves interleave.                                   *)
(*                                                                         *)
(* Container i of a deployment has the fixed name uniqueName-i, so Docker  *)
(* holds at most one of each: an identifier in the slice `containers` and  *)
(* an address in `handlerIPs` are modelled by the replica's index.         *)
(***************************************************************************)
EXTENDS HandlerContract

CONSTANT replicas   \* handler field replicas, from the deployment request

\* The code never checks the number; a negative one makes Start panic.
ASSUME ReplicasAssumption == replicas \in Nat

Replica == 0..(replicas - 1)

VARIABLES
  network,       \* dh.network is set
  networkName,   \* dh.networkName is set
  containers,    \* dh.containers
  handlerIPs,    \* dh.handlerIPs
  isRunning,     \* dh.isRunning
  dkContainers,  \* Docker: the containers of this deployment that exist
  dkNetwork,     \* Docker: the network exists
  dkImage,       \* Docker: the image exists
  op, pc,        \* the operation that holds opMux and the next thing it does
  next,          \* Start's loop counter
  probe,         \* what each readiness goroutine found so far
  cleanupErr,    \* a clean-up step of this operation failed
  ret,           \* the last operation that returned, and whether it succeeded
  before         \* the contract's view of the handler when op began (history)

fields == <<network, networkName, containers, handlerIPs, isRunning>>
docker == <<dkContainers, dkNetwork, dkImage>>
control == <<op, pc, next, probe, cleanupErr, ret, before>>
vars == <<fields, docker, control>>

\* The handler as the contract sees it.
View ==
  [phase |-> IF isRunning THEN "up"
             ELSE IF containers = {} /\ ~network THEN "down" ELSE "partial",
   image |-> dkImage,
   ips |-> handlerIPs]

Idle == op = "none"

\* As Backend.Create leaves it: image built, network created, no container.
Init ==
  /\ network = TRUE /\ networkName = TRUE
  /\ containers = {} /\ handlerIPs = {} /\ isRunning = FALSE
  /\ dkContainers = {} /\ dkNetwork = TRUE /\ dkImage = TRUE
  /\ op = "none" /\ pc = "idle" /\ next = 0
  /\ probe = [i \in Replica |-> "none"]
  /\ cleanupErr = FALSE
  /\ ret = [op |-> "New", ok |-> TRUE]
  /\ before = View
-----------------------------------------------------------------------------
Begin(o, label) ==
  /\ Idle
  /\ op' = o /\ pc' = label /\ before' = View

\* The deferred opMux.Unlock and the value returned.
Return(o, ok) ==
  /\ op' = "none" /\ pc' = "idle" /\ next' = 0 /\ cleanupErr' = FALSE
  /\ ret' = [op |-> o, ok |-> ok]
  /\ UNCHANGED <<probe, before>>

Goto(label) ==
  /\ pc' = label
  /\ UNCHANGED <<op, ret, before>>

\* A call that finds nothing to do returns at once.
ReturnAtOnce(o) ==
  /\ Idle
  /\ Return(o, TRUE)
  /\ UNCHANGED <<fields, docker>>

-----------------------------------------------------------------------------
(* Start, and Restart, which is the same function. *)

StartRunning == isRunning /\ ReturnAtOnce("Start")

\* createNetwork gives the network its name back if Destroy had cleared it.
StartNetworkFails ==
  /\ Idle /\ ~isRunning /\ ~network
  /\ networkName' = TRUE
  /\ Return("Start", FALSE)
  /\ UNCHANGED <<network, containers, handlerIPs, isRunning, docker>>

\* The network is made if there is none; the old identifiers are dropped.
StartNetwork ==
  /\ ~isRunning
  /\ Begin("Start", "create")
  /\ network' = TRUE /\ dkNetwork' = (dkNetwork \/ ~network)
  /\ networkName' = (networkName \/ ~network)
  /\ containers' = {} /\ handlerIPs' = {}
  /\ probe' = [i \in Replica |-> "none"]
  /\ UNCHANGED <<isRunning, dkContainers, dkImage, next, cleanupErr, ret>>

OneReplicaTooMany == next <= replicas

\* for i := 0; i < dh.replicas; i++
MoreReplicas == next < replicas

\* Docker refuses a second container of the same name, and one without image.
CreateContainer ==
  /\ pc = "create" /\ MoreReplicas
  /\ dkImage /\ next \notin dkContainers
  /\ dkContainers' = dkContainers \cup {next}
  /\ containers' = containers \cup {next}
  /\ next' = next + 1
  /\ UNCHANGED <<network, networkName, handlerIPs, isRunning, dkNetwork, dkImage,
                 op, pc, probe, cleanupErr, ret, before>>

\* Any Docker call of Start may fail; Start then rolls back.
CreateContainerFails ==
  /\ pc = "create" /\ MoreReplicas
  /\ Goto("removeContainers")
  /\ UNCHANGED <<fields, docker, next, probe, cleanupErr>>

StartContainers ==
  /\ pc = "create" /\ ~MoreReplicas
  /\ containers \subseteq dkContainers
  /\ probe' = [i \in Replica |-> "starting"]
  /\ Goto("collect")
  /\ UNCHANGED <<fields, docker, next, cleanupErr>>

StartContainersFails ==
  /\ pc = "create" /\ ~MoreReplicas /\ containers # {}
  /\ Goto("removeContainers")
  /\ UNCHANGED <<fields, docker, next, probe, cleanupErr>>

Probing(i, to) ==
  /\ pc = "collect"
  /\ probe' = [probe EXCEPT ![i] = to]
  /\ UNCHANGED <<fields, docker, op, pc, next, cleanupErr, ret, before>>

\* A readiness goroutine finds an address, then gets an answer from /health.
Addressed(i) == probe[i] = "starting" /\ i \in dkContainers /\ Probing(i, "addressed")

Healthy(i) == probe[i] = "addressed" /\ i \in dkContainers /\ Probing(i, "ready")

OnlyHealthTimesOut(i) == probe[i] = "addressed" /\ Probing(i, "failed")

\* Both waits have a deadline.
TimesOut(i) == probe[i] \in {"starting", "addressed"} /\ Probing(i, "failed")

\* Start reads one result per container before it decides.
AllReported == \A i \in Replica : probe[i] \in {"ready", "failed"}

SomeReady == \E i \in Replica : probe[i] = "ready"

AllReady == \A i \in Replica : probe[i] = "ready"

Collected == pc = "collect" /\ AllReported

StartPublishes ==
  /\ Collected /\ AllReady
  /\ handlerIPs' = Replica /\ isRunning' = TRUE
  /\ Return("Start", TRUE)
  /\ UNCHANGED <<network, networkName, containers, docker>>

StartNotReady ==
  /\ Collected /\ ~AllReady
  /\ Goto("removeContainers")
  /\ UNCHANGED <<fields, docker, next, probe, cleanupErr>>
-----------------------------------------------------------------------------
(* Stop and Destroy, and the clean-up they share with a failed Start. *)

NothingTracked == ~isRunning /\ containers = {} /\ ~network

StopDown == NothingTracked /\ ReturnAtOnce("Stop")

StopBegins ==
  /\ ~NothingTracked
  /\ Begin("Stop", "removeContainers")
  /\ UNCHANGED <<fields, docker, next, probe, cleanupErr, ret>>

DestroyBegins ==
  /\ Begin("Destroy", "removeContainers")
  /\ UNCHANGED <<fields, docker, next, probe, cleanupErr, ret>>

ForgetsFailed(failed) == {}

\* What stays tracked after the removals in `failed` went wrong.
StillTracked(failed) == failed

KeepsIPs == handlerIPs' = handlerIPs /\ isRunning' = FALSE

\* The addresses go whether or not every container does.
WithdrawIPs == handlerIPs' = {} /\ isRunning' = FALSE

\* Any removal may end in an error, of a container that is gone already too; only
\* "not found" counts as removed.
RemoveContainers ==
  /\ pc = "removeContainers"
  /\ \E failed \in SUBSET containers :
       /\ containers' = StillTracked(failed)
       /\ dkContainers' = dkContainers \ (containers \ failed)
       /\ cleanupErr' = (failed # {})
  /\ WithdrawIPs
  /\ Goto("removeNetwork")
  /\ UNCHANGED <<network, networkName, dkNetwork, dkImage, next, probe>>

\* After the runtime, Destroy goes on to the image whatever failed; a Start
\* that rolled back has failed in any case.
AfterRuntime(err) ==
  IF op = "Destroy"
    THEN Goto("removeImage") /\ cleanupErr' = err /\ UNCHANGED <<next, probe>>
    ELSE Return(op, op = "Stop" /\ ~err)

RemoveNetwork ==
  /\ pc = "removeNetwork"
  /\ network' = FALSE /\ dkNetwork' = (dkNetwork /\ ~network)
  /\ AfterRuntime(cleanupErr)
  /\ UNCHANGED <<networkName, containers, handlerIPs, isRunning, dkContainers, dkImage>>

ForgetsNetwork ==
  /\ pc = "removeNetwork" /\ network /\ dkNetwork
  /\ network' = FALSE
  /\ AfterRuntime(TRUE)
  /\ UNCHANGED <<networkName, containers, handlerIPs, isRunning, docker>>

RemoveNetworkFails ==
  /\ pc = "removeNetwork" /\ network
  /\ AfterRuntime(TRUE)
  /\ UNCHANGED <<fields, docker>>

RemoveImage ==
  /\ pc = "removeImage"
  /\ \E removed \in BOOLEAN :
       /\ dkImage' = (dkImage /\ ~removed)
       /\ Return("Destroy", removed /\ ~cleanupErr)
  /\ networkName' = FALSE
  /\ UNCHANGED <<network, containers, handlerIPs, isRunning, dkContainers, dkNetwork>>
-----------------------------------------------------------------------------
\* Someone removes a container behind the handler's back.
ContainerLost(i) ==
  /\ i \in dkContainers
  /\ dkContainers' = dkContainers \ {i}
  /\ UNCHANGED <<fields, dkNetwork, dkImage, control>>

Call ==
  \/ StartRunning \/ StartNetwork \/ StartNetworkFails
  \/ StopDown \/ StopBegins
  \/ DestroyBegins

\* The steps of an operation that has begun.
Step ==
  \/ CreateContainer \/ CreateContainerFails
  \/ StartContainers \/ StartContainersFails
  \/ \E i \in Replica : Addressed(i) \/ Healthy(i) \/ TimesOut(i)
  \/ StartPublishes \/ StartNotReady
  \/ RemoveContainers
  \/ RemoveNetwork \/ RemoveNetworkFails
  \/ RemoveImage

Next == Call \/ Step \/ \E i \in Replica : ContainerLost(i)

Spec == Init /\ [][Next]_vars

\* The Docker calls return and every probe has a deadline; nobody is obliged
\* to call an operation or to remove a container.
FairSpec == Spec /\ WF_vars(Step)
-----------------------------------------------------------------------------
RuntimeType ==
  /\ network \in BOOLEAN /\ networkName \in BOOLEAN /\ isRunning \in BOOLEAN
  /\ containers \subseteq Replica /\ handlerIPs \subseteq Replica
  /\ dkContainers \subseteq Replica
  /\ dkNetwork \in BOOLEAN /\ dkImage \in BOOLEAN

OpType ==
  /\ op \in {"none", "Start", "Stop", "Destroy"}
  /\ pc \in {"idle", "create", "collect", "removeContainers", "removeNetwork",
             "removeImage"}
  /\ ret \in [op : {"New", "Start", "Stop", "Destroy"}, ok : BOOLEAN]
  /\ before \in HandlerState(Replica)

ScratchType ==
  /\ next \in 0..replicas
  /\ probe \in [Replica -> {"none", "starting", "addressed", "ready", "failed"}]
  /\ cleanupErr \in BOOLEAN

TypeOK == RuntimeType /\ OpType /\ ScratchType

\* A handler that says it is running has its network and tracks every replica,
\* each of which answered its own health probe in this start; a handler that
\* is not running publishes no address (README, "Cold Start Readiness
\* Semantics": all replicas must be ready).
RunningMeansAllReady ==
  IF isRunning
    THEN /\ network /\ containers = Replica /\ handlerIPs = Replica
         /\ \A i \in Replica : probe[i] = "ready"
    ELSE handlerIPs = {}

\* The network in Docker is the one the handler will remove: none is ever left
\* behind, whichever operations failed in between.
NetworkTracked == dkNetwork = network

\* Once the image is gone (Destroy), no later Start or Restart - the server can
\* call one on a handler it looked up before - publishes an address again.
DestroyedNeverServes == ~dkImage => handlerIPs = {}

\* Every operation returns opMux: readiness is bounded, clean-up is finite.
OpReturns == op # "none" ~> op = "none"

\* The server's view: every operation is one step of the contract.
Contract == INSTANCE Handler WITH
  state <- IF op = "none" THEN View ELSE before,
  result <- ret

Implements == Contract!Spec
-----------------------------------------------------------------------------
\* A container that could not be removed is kept for the next attempt
\* (handler_test.go, TestRemoveTrackedContainersKeepsOnlyFailed): between
\* operations no container exists that the handler has forgotten.
ContainersTracked == op = "none" => dkContainers \subseteq containers
=============================================================================
