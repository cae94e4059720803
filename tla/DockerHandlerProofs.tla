------------------------ MODULE DockerHandlerProofs ------------------------
(***************************************************************************)
(* Theorems about DockerHandler, for every number of replicas: what holds  *)
(* in every state whichever Docker calls fail, and that every operation is *)
(* a step of the contract the server is modelled against.                  *)
(***************************************************************************)
EXTENDS DockerHandler, FiniteSetTheorems, TLAPS

\* Which operation may be at which label.
Labels ==
  /\ (pc = "idle") <=> (op = "none")
  /\ pc \in {"create", "collect"} => op = "Start"
  /\ pc = "removeImage" => op = "Destroy"

LEMMA ViewType ==
  ASSUME RuntimeType
  PROVE  View \in HandlerState(Replica)
  BY DEF RuntimeType, View, HandlerState, Phase

LEMMA ReturnType ==
  ASSUME OpType, ScratchType,
         NEW o \in {"Start", "Stop", "Destroy"}, NEW ok \in BOOLEAN, Return(o, ok)
  PROVE  OpType' /\ ScratchType'
<1>1. [op |-> o, ok |-> ok] \in [op : {"New", "Start", "Stop", "Destroy"}, ok : BOOLEAN]
  OBVIOUS
<1>2. OpType'
  BY <1>1 DEF OpType, Return
<1>3. next' \in 0..replicas
  BY ReplicasAssumption DEF Return
<1>4. ScratchType'
  BY <1>3 DEF ScratchType, Return
<1> QED
  BY <1>2, <1>4

LEMMA GotoType ==
  ASSUME OpType,
         NEW label \in {"create", "collect", "removeContainers", "removeNetwork",
                        "removeImage"},
         Goto(label)
  PROVE  OpType'
  BY DEF OpType, Goto

LEMMA BeginType ==
  ASSUME RuntimeType, OpType, UNCHANGED ret,
         NEW o \in {"Start", "Stop", "Destroy"},
         NEW label \in {"create", "removeContainers"}, Begin(o, label)
  PROVE  OpType'
  BY ViewType DEF OpType, Begin

LEMMA TypeInit == Init => TypeOK
<1> SUFFICES ASSUME Init PROVE RuntimeType /\ OpType /\ ScratchType
  BY DEF TypeOK
<1>1. RuntimeType
  BY DEF Init, RuntimeType
<1>2. next \in 0..replicas
  BY ReplicasAssumption DEF Init
<1>3. [op |-> "New", ok |-> TRUE] \in [op : {"New", "Start", "Stop", "Destroy"}, ok : BOOLEAN]
  OBVIOUS
<1>4. OpType
  BY <1>1, <1>3, ViewType DEF Init, OpType
<1>5. ScratchType
  BY <1>2 DEF Init, ScratchType
<1> QED
  BY <1>1, <1>4, <1>5

LEMMA TypeNext == TypeOK /\ Labels /\ [Next]_vars => TypeOK'
<1> SUFFICES ASSUME RuntimeType, OpType, ScratchType, Labels, [Next]_vars
             PROVE  RuntimeType' /\ OpType' /\ ScratchType'
  BY DEF TypeOK
<1>1. CASE StartRunning
  <2>1. RuntimeType'
    BY <1>1 DEF StartRunning, ReturnAtOnce, RuntimeType, fields, docker
  <2>2. OpType' /\ ScratchType'
    BY <1>1, ReturnType DEF StartRunning, ReturnAtOnce, ScratchType
  <2> QED BY <2>1, <2>2
<1>2. CASE StartNetworkFails
  <2>1. RuntimeType'
    BY <1>2 DEF StartNetworkFails, RuntimeType, docker
  <2>2. OpType' /\ ScratchType'
    BY <1>2, ReturnType DEF StartNetworkFails, ScratchType
  <2> QED BY <2>1, <2>2
<1>3. CASE StartNetwork
  <2>1. RuntimeType'
    BY <1>3 DEF StartNetwork, RuntimeType
  <2>2. OpType'
    BY <1>3, BeginType DEF StartNetwork
  <2>3. ScratchType'
    BY <1>3, ReplicasAssumption DEF StartNetwork, ScratchType
  <2> QED BY <2>1, <2>2, <2>3
<1>4. CASE StopDown
  <2>1. RuntimeType'
    BY <1>4 DEF StopDown, ReturnAtOnce, RuntimeType, fields, docker
  <2>2. OpType' /\ ScratchType'
    BY <1>4, ReturnType DEF StopDown, ReturnAtOnce, ScratchType
  <2> QED BY <2>1, <2>2
<1>5. CASE StopBegins
  <2>1. RuntimeType'
    BY <1>5 DEF StopBegins, RuntimeType, fields, docker
  <2>2. OpType'
    BY <1>5, BeginType DEF StopBegins
  <2>3. ScratchType'
    BY <1>5, ReplicasAssumption DEF StopBegins, ScratchType
  <2> QED BY <2>1, <2>2, <2>3
<1>6. CASE DestroyBegins
  <2>1. RuntimeType'
    BY <1>6 DEF DestroyBegins, RuntimeType, fields, docker
  <2>2. OpType'
    BY <1>6, BeginType DEF DestroyBegins
  <2>3. ScratchType'
    BY <1>6, ReplicasAssumption DEF DestroyBegins, ScratchType
  <2> QED BY <2>1, <2>2, <2>3
<1>7. CASE CreateContainer
  <2>1. RuntimeType'
    <3>1. next \in Replica
      BY <1>7, ReplicasAssumption DEF CreateContainer, MoreReplicas, Replica,
         ScratchType
    <3> QED BY <1>7, <3>1 DEF CreateContainer, RuntimeType
  <2>2. OpType'
    BY <1>7 DEF CreateContainer, MoreReplicas, Replica, OpType
  <2>3. ScratchType'
    BY <1>7, ReplicasAssumption DEF CreateContainer, MoreReplicas, Replica,
       ScratchType
  <2> QED BY <2>1, <2>2, <2>3
<1>8. CASE CreateContainerFails
  <2>1. RuntimeType'
    BY <1>8 DEF CreateContainerFails, RuntimeType, fields, docker
  <2>2. OpType'
    BY <1>8, GotoType DEF CreateContainerFails
  <2>3. ScratchType'
    BY <1>8, ReplicasAssumption DEF CreateContainerFails, ScratchType
  <2> QED BY <2>1, <2>2, <2>3
<1>9. CASE StartContainers
  <2>1. RuntimeType'
    BY <1>9 DEF StartContainers, RuntimeType, fields, docker
  <2>2. OpType'
    BY <1>9, GotoType DEF StartContainers
  <2>3. ScratchType'
    BY <1>9, ReplicasAssumption DEF StartContainers, ScratchType
  <2> QED BY <2>1, <2>2, <2>3
<1>10. CASE StartContainersFails
  <2>1. RuntimeType'
    BY <1>10 DEF StartContainersFails, RuntimeType, fields, docker
  <2>2. OpType'
    BY <1>10, GotoType DEF StartContainersFails
  <2>3. ScratchType'
    BY <1>10, ReplicasAssumption DEF StartContainersFails, ScratchType
  <2> QED BY <2>1, <2>2, <2>3
<1>11. ASSUME NEW i \in Replica, Addressed(i) \/ Healthy(i) \/ TimesOut(i)
       PROVE  RuntimeType' /\ OpType' /\ ScratchType'
  <2>1. RuntimeType'
    BY <1>11 DEF Addressed, Healthy, TimesOut, Probing, RuntimeType, fields, docker
  <2>2. OpType'
    BY <1>11 DEF Addressed, Healthy, TimesOut, Probing, OpType
  <2>3. ScratchType'
    BY <1>11, ReplicasAssumption DEF Addressed, Healthy, TimesOut, Probing,
       ScratchType
  <2> QED BY <2>1, <2>2, <2>3
<1>12. CASE StartPublishes
  <2>1. RuntimeType'
    BY <1>12 DEF StartPublishes, RuntimeType, docker
  <2>2. OpType' /\ ScratchType'
    BY <1>12, ReturnType DEF StartPublishes, ScratchType
  <2> QED BY <2>1, <2>2
<1>13. CASE StartNotReady
  <2>1. RuntimeType'
    BY <1>13 DEF StartNotReady, RuntimeType, fields, docker
  <2>2. OpType'
    BY <1>13, GotoType DEF StartNotReady
  <2>3. ScratchType'
    BY <1>13, ReplicasAssumption DEF StartNotReady, ScratchType
  <2> QED BY <2>1, <2>2, <2>3
<1>14. CASE RemoveContainers
  <2>1. RuntimeType'
    BY <1>14 DEF RemoveContainers, StillTracked, WithdrawIPs, RuntimeType
  <2>2. OpType'
    BY <1>14, GotoType DEF RemoveContainers, StillTracked, WithdrawIPs
  <2>3. ScratchType'
    BY <1>14, ReplicasAssumption DEF RemoveContainers, StillTracked,
       WithdrawIPs, ScratchType
  <2> QED BY <2>1, <2>2, <2>3
<1>15. CASE RemoveNetwork
  <2>1. RuntimeType'
    BY <1>15 DEF RemoveNetwork, RuntimeType
  <2>2. CASE op = "Destroy"
    BY <1>15, <2>1, <2>2, GotoType DEF RemoveNetwork, AfterRuntime, ScratchType
  <2>3. CASE op # "Destroy"
    <3>1. op \in {"Start", "Stop"}
      BY <1>15, <2>3 DEF RemoveNetwork, OpType, Labels
    <3>2. \E ok \in BOOLEAN : Return(op, ok)
      BY <1>15, <2>3 DEF RemoveNetwork, AfterRuntime, ScratchType
    <3> QED BY <2>1, <3>1, <3>2, ReturnType
  <2> QED BY <2>2, <2>3
<1>16. CASE RemoveNetworkFails
  <2>1. RuntimeType'
    BY <1>16 DEF RemoveNetworkFails, RuntimeType, fields, docker
  <2>2. CASE op = "Destroy"
    BY <1>16, <2>1, <2>2, GotoType DEF RemoveNetworkFails, AfterRuntime, ScratchType
  <2>3. CASE op # "Destroy"
    <3>1. op \in {"Start", "Stop"}
      BY <1>16, <2>3 DEF RemoveNetworkFails, OpType, Labels
    <3>2. \E ok \in BOOLEAN : Return(op, ok)
      BY <1>16, <2>3 DEF RemoveNetworkFails, AfterRuntime, ScratchType
    <3> QED BY <2>1, <3>1, <3>2, ReturnType
  <2> QED BY <2>2, <2>3
<1>17. CASE RemoveImage
  <2>1. RuntimeType'
    BY <1>17 DEF RemoveImage, RuntimeType
  <2>2. OpType' /\ ScratchType'
    BY <1>17, ReturnType DEF RemoveImage, ScratchType
  <2> QED BY <2>1, <2>2
<1>18. ASSUME NEW i \in Replica, ContainerLost(i)
       PROVE  RuntimeType' /\ OpType' /\ ScratchType'
  <2>1. RuntimeType'
    BY <1>18 DEF ContainerLost, control, RuntimeType, fields
  <2>2. OpType'
    BY <1>18 DEF ContainerLost, control, OpType
  <2>3. ScratchType'
    BY <1>18, ReplicasAssumption DEF ContainerLost, control, ScratchType
  <2> QED BY <2>1, <2>2, <2>3
<1>19. CASE UNCHANGED vars
  <2>1. RuntimeType'
    BY <1>19 DEF vars, control, RuntimeType, fields, docker
  <2>2. OpType'
    BY <1>19 DEF vars, control, OpType
  <2>3. ScratchType'
    BY <1>19, ReplicasAssumption DEF vars, control, ScratchType
  <2> QED BY <2>1, <2>2, <2>3
<1> QED
  BY <1>1, <1>2, <1>3, <1>4, <1>5, <1>6, <1>7, <1>8, <1>9, <1>10, <1>11, <1>12,
     <1>13, <1>14, <1>15, <1>16, <1>17, <1>18, <1>19 DEF Next, Call, Step

LEMMA LabelsNext == Labels /\ [Next]_vars => Labels'
<1> SUFFICES ASSUME Labels, [Next]_vars PROVE Labels'
  OBVIOUS
<1>1. CASE StartRunning
  BY <1>1 DEF StartRunning, ReturnAtOnce, Return, Idle, Labels
<1>2. CASE StartNetworkFails
  BY <1>2 DEF StartNetworkFails, Return, Idle, Labels
<1>3. CASE StartNetwork
  BY <1>3 DEF StartNetwork, Begin, Idle, Labels
<1>4. CASE StopDown
  BY <1>4 DEF StopDown, ReturnAtOnce, Return, Idle, Labels
<1>5. CASE StopBegins
  BY <1>5 DEF StopBegins, Begin, Idle, Labels
<1>6. CASE DestroyBegins
  BY <1>6 DEF DestroyBegins, Begin, Idle, Labels
<1>7. CASE CreateContainer
  BY <1>7 DEF CreateContainer, Labels
<1>8. CASE CreateContainerFails
  BY <1>8 DEF CreateContainerFails, Goto, Labels
<1>9. CASE StartContainers
  BY <1>9 DEF StartContainers, Goto, Labels
<1>10. CASE StartContainersFails
  BY <1>10 DEF StartContainersFails, Goto, Labels
<1>11. ASSUME NEW i \in Replica, Addressed(i) \/ Healthy(i) \/ TimesOut(i)
       PROVE  Labels'
  BY <1>11 DEF Addressed, Healthy, TimesOut, Probing, Labels
<1>12. CASE StartPublishes
  BY <1>12 DEF StartPublishes, Collected, Return, Labels
<1>13. CASE StartNotReady
  BY <1>13 DEF StartNotReady, Collected, Goto, Labels
<1>14. CASE RemoveContainers
  BY <1>14 DEF RemoveContainers, StillTracked, WithdrawIPs, Goto, Labels
<1>15. CASE RemoveNetwork
  BY <1>15 DEF RemoveNetwork, AfterRuntime, Goto, Return, Labels
<1>16. CASE RemoveNetworkFails
  BY <1>16 DEF RemoveNetworkFails, AfterRuntime, Goto, Return, Labels
<1>17. CASE RemoveImage
  BY <1>17 DEF RemoveImage, Return, Labels
<1>18. ASSUME NEW i \in Replica, ContainerLost(i)
       PROVE  Labels'
  BY <1>18 DEF ContainerLost, control, Labels
<1>19. CASE UNCHANGED vars
  BY <1>19 DEF vars, control, Labels
<1> QED
  BY <1>1, <1>2, <1>3, <1>4, <1>5, <1>6, <1>7, <1>8, <1>9, <1>10, <1>11, <1>12,
     <1>13, <1>14, <1>15, <1>16, <1>17, <1>18, <1>19 DEF Next, Call, Step

\* Type correctness: whichever Docker calls fail and whichever operations are
\* called in whichever order, the handler's fields keep their types.
THEOREM TypeCorrect == Spec => []TypeOK
<1>1. Init => Labels
  BY DEF Init, Labels
<1> QED
  BY <1>1, TypeInit, TypeNext, LabelsNext, PTL DEF Spec

-----------------------------------------------------------------------------
\* What the operation under way has built or taken down so far.
Building ==
  /\ pc = "idle" => next = 0
  /\ pc = "create" => containers = {i \in Replica : i < next}
  /\ pc = "collect" => containers = Replica
  /\ pc \in {"create", "collect"} => network
  /\ isRunning => pc \in {"idle", "removeContainers"}

\* A container in a start that has not failed, or in a running handler, was
\* created from the image, and the image has not been removed since.
BuiltFromImage ==
  isRunning \/ pc \in {"create", "collect"} => containers = {} \/ dkImage

SafetyInv ==
  /\ TypeOK /\ Labels /\ Building /\ BuiltFromImage
  /\ RunningMeansAllReady /\ NetworkTracked

LEMMA SafetyInit == Init => SafetyInv
<1> SUFFICES ASSUME Init PROVE SafetyInv
  OBVIOUS
<1>1. TypeOK
  BY TypeInit
<1>2. Labels /\ Building /\ BuiltFromImage
  BY DEF Init, Labels, Building, BuiltFromImage
<1>3. RunningMeansAllReady /\ NetworkTracked
  BY DEF Init, RunningMeansAllReady, NetworkTracked
<1> QED
  BY <1>1, <1>2, <1>3 DEF SafetyInv

LEMMA SafetyNext == SafetyInv /\ [Next]_vars => SafetyInv'
<1> SUFFICES ASSUME SafetyInv, [Next]_vars PROVE SafetyInv'
  OBVIOUS
<1>0. TypeOK' /\ Labels'
  BY TypeNext, LabelsNext DEF SafetyInv
<1> SUFFICES Building' /\ BuiltFromImage' /\ RunningMeansAllReady' /\ NetworkTracked'
  BY <1>0 DEF SafetyInv
<1> USE DEF SafetyInv
<1>1. CASE StartRunning
  BY <1>1 DEF StartRunning, ReturnAtOnce, Return, Idle, fields, docker,
     Building, Labels, TypeOK, OpType, ScratchType, BuiltFromImage, RuntimeType,
     RunningMeansAllReady, NetworkTracked
<1>2. CASE StartNetworkFails
  BY <1>2 DEF StartNetworkFails, Return, Idle, docker, Building, Labels, TypeOK,
     OpType, ScratchType, BuiltFromImage, RuntimeType, RunningMeansAllReady,
     NetworkTracked
<1>3. CASE StartNetwork
  <2>1. Building'
    <3>1. next = 0
      BY <1>3 DEF StartNetwork, Begin, Idle, Building, Labels
    <3>2. {i \in Replica : i < 0} = {}
      BY ReplicasAssumption DEF Replica
    <3> QED BY <1>3, <3>1, <3>2 DEF StartNetwork, Begin, Building
  <2>2. BuiltFromImage'
    BY <1>3 DEF StartNetwork, Begin, Idle, BuiltFromImage, Building, Labels,
       TypeOK, RuntimeType
  <2>3. RunningMeansAllReady'
    BY <1>3, ReplicasAssumption DEF StartNetwork, Begin, Idle,
       RunningMeansAllReady, Building, Labels, TypeOK, RuntimeType, ScratchType
  <2>4. NetworkTracked'
    BY <1>3 DEF StartNetwork, Begin, Idle, NetworkTracked, Building, TypeOK,
       RuntimeType
  <2> QED BY <2>1, <2>2, <2>3, <2>4
<1>4. CASE StopDown
  BY <1>4 DEF StopDown, ReturnAtOnce, Return, Idle, fields, docker, Building,
     Labels, TypeOK, OpType, ScratchType, BuiltFromImage, RuntimeType,
     RunningMeansAllReady, NetworkTracked
<1>5. CASE StopBegins
  BY <1>5 DEF StopBegins, Begin, Idle, fields, docker, Building, Labels, TypeOK,
     OpType, ScratchType, BuiltFromImage, RuntimeType, RunningMeansAllReady,
     NetworkTracked
<1>6. CASE DestroyBegins
  BY <1>6 DEF DestroyBegins, Begin, Idle, fields, docker, Building, Labels,
     TypeOK, OpType, ScratchType, BuiltFromImage, RuntimeType,
     RunningMeansAllReady, NetworkTracked
<1>7. CASE CreateContainer
  BY <1>7, ReplicasAssumption DEF CreateContainer, MoreReplicas, Replica,
     Building, Labels, TypeOK, OpType, ScratchType, BuiltFromImage, RuntimeType,
     RunningMeansAllReady, NetworkTracked
<1>8. CASE CreateContainerFails
  BY <1>8 DEF CreateContainerFails, Goto, fields, docker, Building, Labels,
     TypeOK, OpType, ScratchType, BuiltFromImage, RuntimeType,
     RunningMeansAllReady, NetworkTracked
<1>9. CASE StartContainers
  <2>1. Building'
    <3>1. next = replicas
      BY <1>9, ReplicasAssumption DEF StartContainers, MoreReplicas, TypeOK,
         ScratchType
    <3>2. containers = {i \in Replica : i < replicas}
      BY <1>9, <3>1 DEF StartContainers, Building
    <3>3. \A i \in Replica : i < replicas
      BY ReplicasAssumption DEF Replica
    <3>4. containers = Replica
      BY <3>2, <3>3
    <3> QED BY <1>9, <3>4 DEF StartContainers, Goto, fields, docker, Building
  <2>2. BuiltFromImage'
    BY <1>9 DEF StartContainers, Goto, fields, docker, MoreReplicas, Replica,
       BuiltFromImage, Building, Labels, TypeOK, RuntimeType
  <2>3. RunningMeansAllReady'
    BY <1>9, ReplicasAssumption DEF StartContainers, Goto, fields, docker,
       MoreReplicas, Replica, RunningMeansAllReady, Building, Labels, TypeOK,
       RuntimeType, ScratchType
  <2>4. NetworkTracked'
    BY <1>9 DEF StartContainers, Goto, fields, docker, MoreReplicas, Replica,
       NetworkTracked, Building, TypeOK, RuntimeType
  <2> QED BY <2>1, <2>2, <2>3, <2>4
<1>10. CASE StartContainersFails
  BY <1>10 DEF StartContainersFails, Goto, fields, docker, MoreReplicas,
     Replica, Building, Labels, TypeOK, OpType, ScratchType, BuiltFromImage,
     RuntimeType, RunningMeansAllReady, NetworkTracked
<1>11. ASSUME NEW i \in Replica, Addressed(i) \/ Healthy(i) \/ TimesOut(i)
       PROVE  Building' /\ BuiltFromImage' /\ RunningMeansAllReady' /\ NetworkTracked'
  BY <1>11 DEF Addressed, Healthy, TimesOut, Probing, fields, docker, Building,
     Labels, TypeOK, OpType, ScratchType, BuiltFromImage, RuntimeType,
     RunningMeansAllReady, NetworkTracked
<1>12. CASE StartPublishes
  BY <1>12 DEF StartPublishes, Collected, Return, docker, AllReady, Building,
     Labels, TypeOK, OpType, ScratchType, BuiltFromImage, RuntimeType,
     RunningMeansAllReady, NetworkTracked
<1>13. CASE StartNotReady
  BY <1>13 DEF StartNotReady, Collected, Goto, fields, docker, AllReady,
     Building, Labels, TypeOK, OpType, ScratchType, BuiltFromImage, RuntimeType,
     RunningMeansAllReady, NetworkTracked
<1>14. CASE RemoveContainers
  BY <1>14 DEF RemoveContainers, StillTracked, WithdrawIPs, Goto, Building,
     Labels, TypeOK, OpType, ScratchType, BuiltFromImage, RuntimeType,
     RunningMeansAllReady, NetworkTracked
<1>15. CASE RemoveNetwork
  BY <1>15 DEF RemoveNetwork, AfterRuntime, Goto, Return, Building, Labels,
     TypeOK, OpType, ScratchType, BuiltFromImage, RuntimeType,
     RunningMeansAllReady, NetworkTracked
<1>16. CASE RemoveNetworkFails
  BY <1>16 DEF RemoveNetworkFails, AfterRuntime, Goto, Return, fields, docker,
     Building, Labels, TypeOK, OpType, ScratchType, BuiltFromImage, RuntimeType,
     RunningMeansAllReady, NetworkTracked
<1>17. CASE RemoveImage
  BY <1>17 DEF RemoveImage, Return, Building, Labels, TypeOK, OpType,
     ScratchType, BuiltFromImage, RuntimeType, RunningMeansAllReady,
     NetworkTracked
<1>18. ASSUME NEW i \in Replica, ContainerLost(i)
       PROVE  Building' /\ BuiltFromImage' /\ RunningMeansAllReady' /\ NetworkTracked'
  BY <1>18 DEF ContainerLost, control, fields, Building, Labels, TypeOK, OpType,
     ScratchType, BuiltFromImage, RuntimeType, RunningMeansAllReady,
     NetworkTracked
<1>19. CASE UNCHANGED vars
  BY <1>19 DEF vars, control, fields, docker, Building, Labels, TypeOK, OpType,
     ScratchType, BuiltFromImage, RuntimeType, RunningMeansAllReady,
     NetworkTracked
<1> QED
  BY <1>1, <1>2, <1>3, <1>4, <1>5, <1>6, <1>7, <1>8, <1>9, <1>10, <1>11, <1>12,
     <1>13, <1>14, <1>15, <1>16, <1>17, <1>18, <1>19 DEF Next, Call, Step

\* The inductive invariant that the safety properties follow from.
THEOREM SafetyInvariant == Spec => []SafetyInv
  BY SafetyInit, SafetyNext, PTL DEF Spec

\* A running handler has its network, tracks every replica and has heard a
\* health answer from each; a handler that is not running publishes nothing.
THEOREM RunningCorrect == Spec => []RunningMeansAllReady
<1>1. SafetyInv => RunningMeansAllReady
  BY DEF SafetyInv
<1> QED
  BY <1>1, SafetyInvariant, PTL

\* No operation, however it fails, leaves a network the handler has forgotten.
THEOREM NetworkNeverLost == Spec => []NetworkTracked
<1>1. SafetyInv => NetworkTracked
  BY DEF SafetyInv
<1> QED
  BY <1>1, SafetyInvariant, PTL

\* A handler whose image Destroy has removed never publishes an address again,
\* though Start may still be called on it.
THEOREM DestroyedStaysSilent == Spec => []DestroyedNeverServes
<1>1. SafetyInv => DestroyedNeverServes
  BY DEF SafetyInv, BuiltFromImage, RunningMeansAllReady, DestroyedNeverServes
<1> QED
  BY <1>1, SafetyInvariant, PTL

-----------------------------------------------------------------------------
(* Refinement.  While an operation is under way the contract still shows    *)
(* the state in which it began; its one step is taken when it returns.      *)

\* What the operation under way found when it began, and has not changed.
Beginning ==
  op # "none" => /\ before.image = dkImage
                 /\ op = "Start" => before.phase # "up"
                 /\ op = "Stop" => before.phase # "down"

\* An error is reported exactly when the clean-up left something tracked.
Leftovers ==
  /\ pc = "removeNetwork" => (cleanupErr <=> containers # {})
  /\ pc = "removeImage" => (cleanupErr <=> containers # {} \/ network)

RefinementInv == SafetyInv /\ Beginning /\ Leftovers

LEMMA RefinementInit == Init => RefinementInv
  BY SafetyInit DEF Init, RefinementInv, Beginning, Leftovers

LEMMA RefinementNext == RefinementInv /\ [Next]_vars => RefinementInv'
<1>0. RefinementInv /\ [Next]_vars => SafetyInv'
  BY SafetyNext DEF RefinementInv
<1> SUFFICES ASSUME RefinementInv, [Next]_vars PROVE Beginning' /\ Leftovers'
  BY <1>0 DEF RefinementInv
<1> USE DEF RefinementInv, SafetyInv
<1>1. CASE StartRunning
  BY <1>1 DEF StartRunning, ReturnAtOnce, Return, Idle, fields, docker,
     Beginning, Labels, Leftovers
<1>2. CASE StartNetworkFails
  BY <1>2 DEF StartNetworkFails, Return, Idle, docker, Beginning, Labels,
     Leftovers
<1>3. CASE StartNetwork
  BY <1>3 DEF StartNetwork, Begin, Idle, Beginning, Labels, View,
     NothingTracked, Leftovers
<1>4. CASE StopDown
  BY <1>4 DEF StopDown, ReturnAtOnce, Return, Idle, fields, docker, Beginning,
     Labels, Leftovers
<1>5. CASE StopBegins
  BY <1>5 DEF StopBegins, Begin, Idle, fields, docker, Beginning, Labels, View,
     NothingTracked, Leftovers
<1>6. CASE DestroyBegins
  BY <1>6 DEF DestroyBegins, Begin, Idle, fields, docker, Beginning, Labels,
     View, NothingTracked, Leftovers
<1>7. CASE CreateContainer
  BY <1>7 DEF CreateContainer, Beginning, Labels, Leftovers
<1>8. CASE CreateContainerFails
  BY <1>8 DEF CreateContainerFails, Goto, fields, docker, Beginning, Labels,
     Leftovers
<1>9. CASE StartContainers
  BY <1>9 DEF StartContainers, Goto, fields, docker, Beginning, Labels,
     Leftovers
<1>10. CASE StartContainersFails
  BY <1>10 DEF StartContainersFails, Goto, fields, docker, Beginning, Labels,
     Leftovers
<1>11. ASSUME NEW i \in Replica, Addressed(i) \/ Healthy(i) \/ TimesOut(i)
       PROVE  Beginning' /\ Leftovers'
  BY <1>11 DEF Addressed, Healthy, TimesOut, Probing, fields, docker, Beginning,
     Labels, Leftovers
<1>12. CASE StartPublishes
  BY <1>12 DEF StartPublishes, Collected, Return, docker, Beginning, Labels,
     Leftovers
<1>13. CASE StartNotReady
  BY <1>13 DEF StartNotReady, Collected, Goto, fields, docker, Beginning,
     Labels, Leftovers
<1>14. CASE RemoveContainers
  BY <1>14 DEF RemoveContainers, StillTracked, WithdrawIPs, Goto, Beginning,
     Labels, Leftovers
<1>15. CASE RemoveNetwork
  BY <1>15 DEF RemoveNetwork, AfterRuntime, Goto, Return, Beginning, Labels,
     Leftovers
<1>16. CASE RemoveNetworkFails
  BY <1>16 DEF RemoveNetworkFails, AfterRuntime, Goto, Return, fields, docker,
     Beginning, Labels, Leftovers
<1>17. CASE RemoveImage
  BY <1>17 DEF RemoveImage, Return, Beginning, Labels, Leftovers
<1>18. ASSUME NEW i \in Replica, ContainerLost(i)
       PROVE  Beginning' /\ Leftovers'
  BY <1>18 DEF ContainerLost, control, fields, Beginning, Labels, Leftovers
<1>19. CASE UNCHANGED vars
  BY <1>19 DEF vars, control, fields, docker, Beginning, Labels, Leftovers
<1> QED
  BY <1>1, <1>2, <1>3, <1>4, <1>5, <1>6, <1>7, <1>8, <1>9, <1>10, <1>11, <1>12,
     <1>13, <1>14, <1>15, <1>16, <1>17, <1>18, <1>19 DEF Next, Call, Step

\* The state the contract is in: the refinement mapping of `state`.
Abstract == IF op = "none" THEN View ELSE before

Stutters == UNCHANGED <<Abstract, ret>>

LEMMA ReplicaCardinality == Cardinality(Replica) = replicas
<1>1. 0 \in Int /\ replicas - 1 \in Int
  BY ReplicasAssumption
<1>2. Cardinality(Replica) = IF 0 > replicas - 1 THEN 0 ELSE (replicas - 1) - 0 + 1
  BY <1>1, FS_Interval DEF Replica
<1> QED
  BY <1>2, ReplicasAssumption

LEMMA InitRefines == Init => Contract!Init
  BY DEF Init, Contract!Init, View, Contract!Created

LEMMA BeginRefines ==
  ASSUME NEW o \in {"Start", "Stop", "Destroy"}, NEW label, Begin(o, label), ret' = ret
  PROVE  Stutters
  BY DEF Begin, Idle, Stutters, Abstract

LEMMA UnfinishedRefines ==
  ASSUME op # "none", UNCHANGED <<op, before, ret>>
  PROVE  Stutters
  BY DEF Stutters, Abstract

\* A return is a step of the contract if the contract allows its outcome.
LEMMA ReturnRefines ==
  ASSUME NEW o \in {"Start", "Stop", "Destroy"}, NEW ok \in BOOLEAN, Return(o, ok),
         NEW s, s = View', [ok |-> ok, state |-> s] \in Contract!Results(o)
  PROVE  Contract!Next
<1>1. Abstract' = s
  BY DEF Return, Abstract
<1>2. \E r \in Contract!Results(o) :
        Abstract' = r.state /\ ret' = [op |-> o, ok |-> r.ok]
  <2> WITNESS [ok |-> ok, state |-> s] \in Contract!Results(o)
  <2> QED BY <1>1 DEF Return
<1> QED
  BY <1>2 DEF Contract!Next, Contract!Perform, Contract!Operation, Abstract

LEMMA StepRefines ==
  RefinementInv /\ [Next]_vars => Contract!Next \/ Stutters
<1> SUFFICES ASSUME RefinementInv, [Next]_vars PROVE Contract!Next \/ Stutters
  OBVIOUS
<1> DEFINE Allowed(o, ok) == [ok |-> ok, state |-> View'] \in Contract!Results(o)
<1>a. /\ View \in HandlerState(Replica) /\ before \in HandlerState(Replica)
      /\ ~isRunning => handlerIPs = {}
  BY ViewType DEF RefinementInv, SafetyInv, TypeOK, OpType, RunningMeansAllReady
<1>1. CASE StartRunning
  <2>1. op = "none" /\ View' = View /\ View.phase = "up" /\ Return("Start", TRUE)
    BY <1>1 DEF StartRunning, ReturnAtOnce, Idle, View, fields, docker
  <2>2. Allowed("Start", TRUE)
    BY <2>1 DEF Contract!Results, Contract!StartResults, Contract!Outcome
  <2> QED BY <2>1, <2>2, ReturnRefines
<1>2. CASE StartNetworkFails
  <2>1. /\ op = "none" /\ View' = View /\ View.phase \in {"down", "partial"}
        /\ View.ips = {} /\ Return("Start", FALSE)
    BY <1>2, <1>a DEF StartNetworkFails, Idle, View, docker
  <2>2. View = Contract!WithRuntime(View, View.phase, {})
    BY <2>1 DEF View, Contract!WithRuntime
  <2>3. Allowed("Start", FALSE)
    BY <2>1, <2>2 DEF Contract!Results, Contract!StartResults, Contract!Outcome
  <2> QED BY <2>1, <2>3, ReturnRefines
<1>3. CASE StartNetwork
  BY <1>3, BeginRefines DEF StartNetwork
<1>4. CASE StopDown
  <2>1. op = "none" /\ View' = View /\ View.phase = "down" /\ Return("Stop", TRUE)
    BY <1>4 DEF StopDown, NothingTracked, ReturnAtOnce, Idle, View, fields, docker
  <2>2. Allowed("Stop", TRUE)
    BY <2>1 DEF Contract!Results, Contract!StopResults, Contract!Outcome
  <2> QED BY <2>1, <2>2, ReturnRefines
<1>5. CASE StopBegins
  BY <1>5, BeginRefines DEF StopBegins
<1>6. CASE DestroyBegins
  BY <1>6, BeginRefines DEF DestroyBegins
<1>7. CASE CreateContainer
  BY <1>7, UnfinishedRefines DEF CreateContainer, RefinementInv, SafetyInv, Labels
<1>8. CASE CreateContainerFails
  BY <1>8, UnfinishedRefines DEF CreateContainerFails, Goto, RefinementInv,
     SafetyInv, Labels
<1>9. CASE StartContainers
  BY <1>9, UnfinishedRefines DEF StartContainers, Goto, RefinementInv,
     SafetyInv, Labels
<1>10. CASE StartContainersFails
  BY <1>10, UnfinishedRefines DEF StartContainersFails, Goto, RefinementInv,
     SafetyInv, Labels
<1>11. ASSUME NEW i \in Replica, Addressed(i) \/ Healthy(i) \/ TimesOut(i)
       PROVE  Contract!Next \/ Stutters
  BY <1>11, UnfinishedRefines DEF Addressed, Healthy, TimesOut, Probing,
     RefinementInv, SafetyInv, Labels
<1>12. CASE StartPublishes
  <2>1. /\ op = "Start" /\ before.phase # "up" /\ before.image = dkImage
        /\ replicas > 0 => dkImage
    <3>1. pc = "collect" /\ op = "Start" /\ containers = Replica
      BY <1>12 DEF StartPublishes, Collected, RefinementInv, SafetyInv, Labels,
         Building
    <3>2. before.phase # "up" /\ before.image = dkImage
      BY <3>1 DEF RefinementInv, Beginning
    <3>3. Replica = {} \/ dkImage
      BY <3>1 DEF RefinementInv, SafetyInv, BuiltFromImage
    <3>4. replicas > 0 => 0 \in Replica
      BY ReplicasAssumption DEF Replica
    <3> QED BY <3>1, <3>2, <3>3, <3>4
  <2>2. /\ Return("Start", TRUE)
        /\ View' = [phase |-> "up", image |-> dkImage, ips |-> Replica]
    BY <1>12 DEF StartPublishes, View, docker
  <2>3. View' = Contract!WithRuntime(before, "up", Replica)
    BY <2>1, <2>2, <1>a DEF Contract!WithRuntime
  <2>4. Allowed("Start", TRUE)
    <3>1. Replica \in Contract!Placements(before, Replica, replicas)
      <4>1. Contract!Cardinality(Replica) = replicas
        BY ReplicaCardinality DEF Contract!Cardinality, Cardinality
      <4> QED BY <2>1, <4>1 DEF Contract!Placements
    <3>2. Abstract = before
      BY <2>1 DEF Abstract
    <3>3. [ok |-> TRUE, state |-> View'] \in Contract!StartResults(before, Replica, replicas)
      BY <2>1, <2>3, <3>1 DEF Contract!StartResults, Contract!Outcome
    <3>4. Contract!Results("Start") = Contract!StartResults(before, Replica, replicas)
      BY <3>2 DEF Contract!Results, Contract!Replica, Replica, Abstract
    <3> QED BY <3>3, <3>4
  <2> QED BY <2>2, <2>4, ReturnRefines
<1>13. CASE StartNotReady
  BY <1>13, UnfinishedRefines DEF StartNotReady, Collected, Goto, RefinementInv,
     SafetyInv, Labels
<1>14. CASE RemoveContainers
  BY <1>14, UnfinishedRefines DEF RemoveContainers, StillTracked, WithdrawIPs,
     Goto, RefinementInv, SafetyInv, Labels
<1>15. CASE RemoveNetwork
  <2>1. CASE op = "Destroy"
    BY <1>15, <2>1, UnfinishedRefines DEF RemoveNetwork, AfterRuntime, Goto
  <2>2. CASE op # "Destroy"
    <3>1. op \in {"Start", "Stop"} /\ before.image = dkImage
      BY <1>15, <2>2 DEF RemoveNetwork, RefinementInv, SafetyInv, Labels,
         Beginning, TypeOK, OpType
    <3> DEFINE ok == op = "Stop" /\ ~cleanupErr
               p == View'.phase
    <3>2. Return(op, ok) /\ ok \in BOOLEAN
      BY <1>15, <2>2 DEF RemoveNetwork, AfterRuntime, RefinementInv, SafetyInv,
         TypeOK, ScratchType
    <3>3. View' = [phase |-> p, image |-> dkImage, ips |-> {}]
      BY <1>15, <1>a DEF RemoveNetwork, View, RefinementInv, SafetyInv, Building
    <3>4. /\ p \in {"down", "partial"}
          /\ op = "Stop" => p = IF ok THEN "down" ELSE "partial"
      BY <1>15 DEF RemoveNetwork, View, RefinementInv, SafetyInv, Building,
         Leftovers
    <3>5. View' = Contract!WithRuntime(before, p, {})
      BY <3>1, <3>3, <1>a DEF Contract!WithRuntime
    <3>6. op = "Stop" => before.phase # "down"
      BY DEF RefinementInv, Beginning
    <3>7. op = "Start" => before.phase # "up" /\ ~ok
      BY DEF RefinementInv, Beginning
    <3>8. Abstract = before
      BY <3>1 DEF Abstract
    <3>9. CASE op = "Start"
      <4>1. Allowed("Start", FALSE)
        BY <3>4, <3>5, <3>7, <3>8, <3>9 DEF Contract!Results,
           Contract!StartResults, Contract!Outcome, Abstract
      <4> QED BY <3>2, <3>7, <3>9, <4>1, ReturnRefines
    <3>10. CASE op = "Stop"
      <4>1. Allowed("Stop", ok)
        BY <3>2, <3>4, <3>5, <3>6, <3>8, <3>10 DEF Contract!Results,
           Contract!StopResults, Contract!Outcome, Abstract
      <4> QED BY <3>2, <3>10, <4>1, ReturnRefines
    <3> QED BY <3>1, <3>9, <3>10
  <2> QED BY <2>1, <2>2
<1>16. CASE RemoveNetworkFails
  <2>1. CASE op = "Destroy"
    BY <1>16, <2>1, UnfinishedRefines DEF RemoveNetworkFails, AfterRuntime, Goto
  <2>2. CASE op # "Destroy"
    <3>1. op \in {"Start", "Stop"} /\ before.image = dkImage
      BY <1>16, <2>2 DEF RemoveNetworkFails, RefinementInv, SafetyInv, Labels,
         Beginning, TypeOK, OpType
    <3> DEFINE ok == op = "Stop" /\ ~TRUE
               p == View'.phase
    <3>2. Return(op, ok) /\ ok \in BOOLEAN
      BY <1>16, <2>2 DEF RemoveNetworkFails, AfterRuntime, RefinementInv,
         SafetyInv, TypeOK, ScratchType
    <3>3. View' = [phase |-> p, image |-> dkImage, ips |-> {}]
      BY <1>16, <1>a DEF RemoveNetworkFails, View, RefinementInv, SafetyInv,
         Building, fields, docker
    <3>4. /\ p \in {"down", "partial"}
          /\ op = "Stop" => p = IF ok THEN "down" ELSE "partial"
      BY <1>16 DEF RemoveNetworkFails, View, RefinementInv, SafetyInv, Building,
         Leftovers, fields
    <3>5. View' = Contract!WithRuntime(before, p, {})
      BY <3>1, <3>3, <1>a DEF Contract!WithRuntime
    <3>6. op = "Stop" => before.phase # "down"
      BY DEF RefinementInv, Beginning
    <3>7. op = "Start" => before.phase # "up" /\ ~ok
      BY DEF RefinementInv, Beginning
    <3>8. Abstract = before
      BY <3>1 DEF Abstract
    <3>9. CASE op = "Start"
      <4>1. Allowed("Start", FALSE)
        BY <3>4, <3>5, <3>7, <3>8, <3>9 DEF Contract!Results,
           Contract!StartResults, Contract!Outcome, Abstract
      <4> QED BY <3>2, <3>7, <3>9, <4>1, ReturnRefines
    <3>10. CASE op = "Stop"
      <4>1. Allowed("Stop", ok)
        BY <3>2, <3>4, <3>5, <3>6, <3>8, <3>10 DEF Contract!Results,
           Contract!StopResults, Contract!Outcome, Abstract
      <4> QED BY <3>2, <3>10, <4>1, ReturnRefines
    <3> QED BY <3>1, <3>9, <3>10
  <2> QED BY <2>1, <2>2
<1>17. CASE RemoveImage
  <2>1. /\ op = "Destroy" /\ before.image = dkImage
        /\ cleanupErr <=> containers # {} \/ network
        /\ ~isRunning /\ handlerIPs = {}
    BY <1>17, <1>a DEF RemoveImage, RefinementInv, SafetyInv, Labels, Building,
       Beginning, Leftovers
  <2>2. PICK removed \in BOOLEAN :
          dkImage' = (dkImage /\ ~removed) /\ Return("Destroy", removed /\ ~cleanupErr)
    BY <1>17 DEF RemoveImage
  <2> DEFINE ok == removed /\ ~cleanupErr
  <2>3. View' = [phase |-> IF cleanupErr THEN "partial" ELSE "down",
                 image |-> dkImage', ips |-> {}]
    BY <1>17, <2>1 DEF RemoveImage, View
  <2>4. Abstract = before
    BY <2>1 DEF Abstract
  <2>5. ok \in BOOLEAN /\ dkImage \in BOOLEAN
    BY DEF RefinementInv, SafetyInv, TypeOK, ScratchType, RuntimeType
  <2>6. Allowed("Destroy", ok)
    BY <2>1, <2>2, <2>3, <2>4, <2>5 DEF Contract!Results,
       Contract!DestroyResults, Contract!Outcome, Abstract
  <2> QED BY <2>2, <2>5, <2>6, ReturnRefines
<1>18. ASSUME NEW i \in Replica, ContainerLost(i)
       PROVE  Contract!Next \/ Stutters
  BY <1>18 DEF ContainerLost, fields, control, Stutters, Abstract, View
<1>19. CASE UNCHANGED vars
  BY <1>19 DEF vars, fields, docker, control, Stutters, Abstract, View
<1> QED
  BY <1>1, <1>2, <1>3, <1>4, <1>5, <1>6, <1>7, <1>8, <1>9, <1>10, <1>11, <1>12,
     <1>13, <1>14, <1>15, <1>16, <1>17, <1>18, <1>19 DEF Next, Call, Step

\* Every operation of the Docker handler, with all its Docker calls, its probes
\* and its failures, is one step of the contract the server is modelled against.
THEOREM DockerHandlerImplementsContract == Spec => Implements
<1>1. RefinementInv /\ [Next]_vars => [Contract!Next]_<<Abstract, ret>>
  BY StepRefines DEF Stutters
<1>2. Spec => []RefinementInv
  BY RefinementInit, RefinementNext, PTL DEF Spec
<1> QED
  BY <1>1, <1>2, InitRefines, PTL DEF Spec, Implements, Contract!Spec, Abstract

=============================================================================
