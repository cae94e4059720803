---------------------------- MODULE ServerProofs ----------------------------
(***************************************************************************)
(* Theorems about Server, for any number of functions, deployments,        *)
(* addresses and goroutines of each kind, with or without the autoscaler,  *)
(* redeployments and failing operations.                                   *)
(***************************************************************************)
EXTENDS Server, FiniteSetTheorems, TLAPS

DownLabels == {"downLookup", "downIPs", "downUpdate", "downStop", "downRestore", "downDone"}

UpLabels == {"upLookup", "upRestart", "upIPs", "upAdd", "upDone"}

\* The steps of Delete with mux in hand.
MuxLabels == {"deleteDestroy", "deleteFailed", "deleteRoute", "deleteFinish"}

\* Which goroutine may be where.
Role(t, label) ==
  /\ t \in Deployers => label \in DownLabels \cup {"idle", "create", "drain", "start",
                                    "add", "commit", "register", "destroyOld", "abort"}
  /\ t \in Deleters => label \in MuxLabels \cup {"idle", "deleteLock"}
  /\ t \in Callers =>
       label \in UpLabels \cup {"idle", "coldStart", "waitRoute", "begin", "http"}
  /\ t \in Scalers => label \in ScaleLabels \cup {"idle"}

\* Which of its variables a goroutine has set.
Operand(t, label, v) ==
  /\ label \in ScaleLabels => v.fn \in Functions /\ v.entry \in Handlers
  /\ label \in {"downIPs", "downUpdate", "downStop", "downRestore", "upRestart", "upIPs",
                "upAdd"} \cup MuxLabels => v.h \in Handlers
  /\ t \in Deployers /\ label # "idle" =>
       v.fn \in Functions /\ (label # "create" => v.new \in Handlers)
  /\ label = "destroyOld" => v.old \in Handlers
  /\ label \in MuxLabels => v.fn \in Functions
  /\ t \in Callers /\ label # "idle" => v.fn \in Functions
  /\ t \in Callers /\ label = "begin" => v.ips # {}

Roles == \A t \in Threads : Role(t, pc[t])

Operands == \A t \in Threads : Operand(t, pc[t], local[t])

\* A deployment whose handler is not registered with the autoscaler yet.
Preparing(label) == label \notin {"idle", "create", "destroyOld"}

Holding(d) == Preparing(pc[d])

\* Every deployment is registered under an entry of its own.
Fresh ==
  /\ \A d \in Deployers : Holding(d) =>
       /\ deployed[local[d].new] # None
       /\ \A f \in Functions : autoscaler[f].entry # local[d].new
       /\ \A t \in Threads : pc[t] \in ScaleLabels => local[t].entry # local[d].new
       /\ \A e \in Deployers : Holding(e) /\ local[e].new = local[d].new => e = d
  /\ \A f \in Functions : autoscaler[f].entry # None =>
       deployed[autoscaler[f].entry] # None
  /\ \A t \in Threads : pc[t] \in ScaleLabels => deployed[local[t].entry] # None

\* A claim has one owner, and what is not claimed has none.
Claims ==
  \A f \in Functions :
    /\ AS!Scaling(f) => \E t \in Threads :
         /\ pc[t] \in ScaleLabels /\ local[t].fn = f
         /\ local[t].entry = autoscaler[f].entry
    /\ \A t \in Threads :
         pc[t] \in ScaleLabels /\ local[t].fn = f /\ local[t].entry = autoscaler[f].entry
           => AS!Scaling(f)
    /\ \A t, u \in Threads :
         /\ pc[t] \in ScaleLabels /\ local[t].fn = f
         /\ pc[u] \in ScaleLabels /\ local[u].fn = f
         /\ local[t].entry = local[u].entry
         => t = u

\* Requests in flight; nothing is counted without the autoscaler.
Counts ==
  /\ InFlightNotLeaked
  /\ ~AutoscalerEnabled => \A f \in Functions : autoscaler[f].inFlight = 0

\* A route is active exactly when it lists an address.
RoutesPickable ==
  \A f \in Functions : RT!HasRoute(f) =>
    (routingTable[f].isActive <=> routingTable[f].ips # {})

IInv == Roles /\ Operands /\ Fresh /\ Claims /\ Counts /\ RoutesPickable

LocalType ==
  [fn : Functions \cup {None},
   old : Handlers \cup {None}, new : Handlers \cup {None},
   h : Handlers \cup {None}, ips : SUBSET IPs,
   ip : IPs \cup {None}, entry : Handlers \cup {None},
   ok : BOOLEAN, todo : SUBSET Functions]

\* What Goto does, goroutine by goroutine.
Moves(t, label, v) ==
  /\ pc' \in [Threads -> PcLabels] /\ local' \in [Threads -> LocalType]
  /\ pc'[t] = label /\ local'[t] = v
  /\ \A u \in Threads : u # t => pc'[u] = pc[u] /\ local'[u] = local[u]

\* A step of one goroutine that claims and settles nothing, registers nothing,
\* and begins and ends no request.
LocalMove(t, label, v) ==
  /\ Moves(t, label, v)
  /\ Role(t, label) /\ Operand(t, label, v)
  /\ label \in ScaleLabels <=> pc[t] \in ScaleLabels
  /\ label \in ScaleLabels => v.fn = local[t].fn /\ v.entry = local[t].entry
  /\ t \in Deployers /\ Preparing(label) => Holding(t) /\ v.new = local[t].new
  /\ label # "http" /\ pc[t] # "http"
  /\ UNCHANGED <<autoscaler, deployed>>
-----------------------------------------------------------------------------
(* Facts about the constants and about Goto. *)

LEMMA Distinct ==
  /\ None \notin Handlers
  /\ None \notin Functions
  /\ None \notin Threads
  /\ None \notin IPs
  /\ \A t \in Deployers : t \notin Deleters /\ t \notin Callers /\ t \notin Scalers
  /\ \A t \in Deleters : t \notin Callers /\ t \notin Scalers
  /\ \A t \in Callers : t \notin Scalers
  /\ \A t \in Deployers \cup Deleters \cup Callers \cup Scalers : t \in Threads
  BY ThreadsAssumption DEF Threads

LEMMA LocalTyped ==
  ASSUME TypeOK, NEW t \in Threads
  PROVE  local[t] \in LocalType
  BY DEF TypeOK, LocalType

LEMMA GotoMoves ==
  ASSUME TypeOK, NEW t \in Threads, NEW label \in PcLabels, NEW v \in LocalType,
         Goto(t, label, v)
  PROVE  Moves(t, label, v)
  BY DEF TypeOK, Goto, Moves, LocalType

LEMMA ContinueMoves ==
  ASSUME TypeOK, NEW t \in Threads, NEW label \in PcLabels, Continue(t, label)
  PROVE  Moves(t, label, local[t])
  BY GotoMoves, LocalTyped DEF Continue

LEMMA ResetTyped == Reset \in LocalType
  BY DEF Reset, LocalType

LEMMA ReturnMoves ==
  ASSUME TypeOK, NEW t \in Threads, Return(t)
  PROVE  Moves(t, "idle", Reset)
<1>1. "idle" \in PcLabels
  BY DEF PcLabels
<1> QED BY <1>1, ResetTyped, GotoMoves DEF Return

-----------------------------------------------------------------------------
(* The operations of the components, entry by entry. *)

LEMMA EntryTyped ==
  ASSUME TypeOK, NEW f \in Functions
  PROVE  /\ autoscaler[f].inFlight \in Nat /\ autoscaler[f].entry \in Handlers \cup {None}
         /\ autoscaler[f].entry # None =>
              autoscaler[f] \in [state : AS!ScalingState, inFlight : Nat, entry : Handlers]
         /\ autoscaler[f].entry = None => autoscaler[f] = AS!Unregistered
  BY Distinct DEF TypeOK, AS!TypeOK, AS!Unregistered

\* One entry of the autoscaler's changes, the others do not.
Changes(f) ==
  /\ AS!TypeOK'
  /\ \A g \in Functions : g # f => autoscaler'[g] = autoscaler[g]

LEMMA ClaimDownChanges ==
  ASSUME TypeOK, NEW f \in Functions, AS!ClaimScaleDown(f)
  PROVE  /\ Changes(f) /\ autoscaler[f].state = "Active" /\ autoscaler'[f].state = "ScalingDown"
         /\ autoscaler'[f].entry = autoscaler[f].entry
         /\ autoscaler[f].entry \in Handlers
         /\ autoscaler'[f].inFlight = autoscaler[f].inFlight
         /\ autoscaler[f].inFlight = 0
<1>1. autoscaler[f] \in [state : AS!ScalingState, inFlight : Nat, entry : Handlers]
  BY DEF TypeOK, AS!TypeOK, AS!Unregistered, AS!ClaimScaleDown, AS!Idle, AS!InState
<1>2. autoscaler[f].state = "Active" /\ autoscaler[f].inFlight = 0
      /\ autoscaler' = [autoscaler EXCEPT ![f].state = "ScalingDown"]
  BY DEF AS!ClaimScaleDown, AS!Idle, AS!InState
<1> QED BY <1>1, <1>2 DEF Changes, TypeOK, AS!TypeOK, AS!ScalingState

LEMMA ClaimUpChanges ==
  ASSUME TypeOK, NEW f \in Functions, AS!ClaimScaleUp(f)
  PROVE  /\ Changes(f) /\ autoscaler[f].state = "ScaledDown" /\ autoscaler'[f].state = "ScalingUp"
         /\ autoscaler'[f].entry = autoscaler[f].entry
         /\ autoscaler[f].entry \in Handlers
         /\ autoscaler'[f].inFlight = autoscaler[f].inFlight
<1>1. autoscaler[f] \in [state : AS!ScalingState, inFlight : Nat, entry : Handlers]
  BY DEF TypeOK, AS!TypeOK, AS!Unregistered, AS!ClaimScaleUp, AS!InState
<1>2. autoscaler[f].state = "ScaledDown"
      /\ autoscaler' = [autoscaler EXCEPT ![f].state = "ScalingUp"]
  BY DEF AS!ClaimScaleUp, AS!InState
<1> QED BY <1>1, <1>2 DEF Changes, TypeOK, AS!TypeOK, AS!ScalingState

LEMMA SettleChanges ==
  ASSUME TypeOK, NEW f \in Functions, NEW entry \in Handlers, NEW active \in BOOLEAN,
         AS!Settle(f, entry, active)
  PROVE  /\ Changes(f)
         /\ autoscaler[f].entry = entry =>
              autoscaler'[f].state \in {"Active", "ScaledDown"}
         /\ autoscaler[f].entry # entry => autoscaler'[f] = autoscaler[f]
         /\ autoscaler'[f].entry = autoscaler[f].entry
         /\ autoscaler'[f].inFlight = autoscaler[f].inFlight
<1>1. CASE autoscaler[f].entry = entry
  <2>1. autoscaler[f] \in [state : AS!ScalingState, inFlight : Nat, entry : Handlers]
    BY <1>1, EntryTyped, Distinct
  <2>2. PICK s \in {"Active", "ScaledDown"} : autoscaler' = [autoscaler EXCEPT ![f].state = s]
    BY <1>1 DEF AS!Settle
  <2> QED BY <1>1, <2>1, <2>2 DEF Changes, TypeOK, AS!TypeOK, AS!ScalingState
<1>2. CASE autoscaler[f].entry # entry
  BY <1>2 DEF AS!Settle, Changes, TypeOK, AS!TypeOK
<1> QED BY <1>1, <1>2

LEMMA RegisterChanges ==
  ASSUME TypeOK, NEW f \in Functions, NEW entry \in Handlers, AS!RegisterFunction(f, entry)
  PROVE  /\ Changes(f) /\ autoscaler'[f].state = "Active"
         /\ autoscaler'[f].entry = entry /\ autoscaler'[f].inFlight = 0
  BY DEF AS!RegisterFunction, Changes, TypeOK, AS!TypeOK, AS!ScalingState

LEMMA UnregisterChanges ==
  ASSUME TypeOK, NEW f \in Functions, AS!UnregisterFunction(f)
  PROVE  /\ Changes(f) /\ autoscaler'[f].state = "Unregistered"
         /\ autoscaler'[f].entry = None /\ autoscaler'[f].inFlight = 0
  BY DEF AS!UnregisterFunction, AS!Unregistered, Changes, TypeOK, AS!TypeOK

LEMMA StartChanges ==
  ASSUME TypeOK, NEW f \in Functions, AS!StartInvocation(f)
  PROVE  /\ Changes(f) /\ autoscaler'[f].state = autoscaler[f].state
         /\ autoscaler'[f].entry = autoscaler[f].entry
         /\ autoscaler'[f].inFlight = autoscaler[f].inFlight + 1
<1>1. autoscaler[f] \in [state : AS!ScalingState, inFlight : Nat, entry : Handlers]
  BY DEF TypeOK, AS!TypeOK, AS!Unregistered, AS!StartInvocation, AS!InState
<1>2. autoscaler' = [autoscaler EXCEPT ![f].inFlight = autoscaler[f].inFlight + 1]
  BY DEF AS!StartInvocation
<1>3. autoscaler[f].inFlight + 1 \in Nat
  BY <1>1
<1> QED BY <1>1, <1>2, <1>3 DEF Changes, TypeOK, AS!TypeOK

LEMMA EndChanges ==
  ASSUME TypeOK, NEW f \in Functions, AS!EndInvocation(f)
  PROVE  /\ Changes(f) /\ autoscaler'[f].state = autoscaler[f].state
         /\ autoscaler'[f].entry = autoscaler[f].entry
         /\ autoscaler'[f].inFlight =
              IF autoscaler[f].inFlight > 0 THEN autoscaler[f].inFlight - 1 ELSE 0
<1> DEFINE n == IF autoscaler[f].inFlight > 0 THEN autoscaler[f].inFlight - 1 ELSE 0
<1>1. n \in Nat
  BY EntryTyped
<1>2. autoscaler' = [autoscaler EXCEPT ![f].inFlight = n]
  BY DEF AS!EndInvocation
<1>3. CASE autoscaler[f] \in [state : AS!ScalingState, inFlight : Nat, entry : Handlers]
  <2> HIDE DEF n
  <2>1. /\ Changes(f) /\ autoscaler'[f].state = autoscaler[f].state
        /\ autoscaler'[f].entry = autoscaler[f].entry /\ autoscaler'[f].inFlight = n
    BY <1>1, <1>2, <1>3 DEF Changes, TypeOK, AS!TypeOK
  <2> QED BY <2>1 DEF n
<1>4. CASE autoscaler[f] = AS!Unregistered
  <2>1. n = 0
    BY <1>4 DEF AS!Unregistered
  <2> HIDE DEF n
  <2>2. /\ Changes(f) /\ autoscaler'[f].state = autoscaler[f].state
        /\ autoscaler'[f].entry = autoscaler[f].entry /\ autoscaler'[f].inFlight = n
    BY <1>2, <1>4, <2>1 DEF Changes, TypeOK, AS!TypeOK, AS!Unregistered
  <2> QED BY <2>2 DEF n
<1> QED BY <1>3, <1>4 DEF TypeOK, AS!TypeOK

LEMMA AddRoutes ==
  ASSUME TypeOK, RoutesPickable, NEW f \in Functions, NEW ips \in SUBSET IPs, RT!Add(f, ips)
  PROVE  RT!TypeOK' /\ RoutesPickable'
<1>1. CASE ips = {}
  BY <1>1 DEF RT!Add, RT!AddAccepts, TypeOK, RT!TypeOK, RoutesPickable, RT!HasRoute
<1>2. CASE ips # {}
  <2>1. /\ DOMAIN routingTable' = DOMAIN routingTable \cup {f}
        /\ routingTable' = [g \in DOMAIN routingTable' |->
                              IF g = f THEN [ips |-> ips, isActive |-> TRUE] ELSE routingTable[g]]
        /\ reverseRoutingTable' = [ip \in IPs |-> IF ip \in ips THEN f ELSE reverseRoutingTable[ip]]
    BY <1>2 DEF RT!Add, RT!AddAccepts, RT!SetRoute, RT!Route, RT!Attribute
  <2>2. [ips |-> ips, isActive |-> TRUE] \in RT!Routes
    BY DEF RT!Routes
  <2>3. \A g \in DOMAIN routingTable' : routingTable'[g] \in RT!Routes
    BY <2>1, <2>2 DEF TypeOK, RT!TypeOK
  <2>4. RT!TypeOK'
    BY <2>1, <2>3 DEF TypeOK, RT!TypeOK
  <2>5. RoutesPickable'
    BY <1>2, <2>1 DEF RoutesPickable, RT!HasRoute
  <2> QED BY <2>4, <2>5
<1> QED BY <1>1, <1>2

LEMMA DelRoutes ==
  ASSUME TypeOK, RoutesPickable, NEW f \in Functions, RT!Del(f)
  PROVE  RT!TypeOK' /\ RoutesPickable'
<1>1. CASE ~RT!HasRoute(f)
  BY <1>1 DEF RT!Del, TypeOK, RT!TypeOK, RoutesPickable, RT!HasRoute
<1>2. CASE RT!HasRoute(f)
  <2>1. /\ DOMAIN routingTable' = DOMAIN routingTable \ {f}
        /\ routingTable' = [g \in DOMAIN routingTable' |-> routingTable[g]]
        /\ reverseRoutingTable' = RT!Attribute(routingTable[f].ips, None)
    BY <1>2 DEF RT!Del
  <2>2. RT!TypeOK'
    BY <2>1 DEF TypeOK, RT!TypeOK, RT!Attribute
  <2>3. RoutesPickable'
    BY <2>1 DEF RoutesPickable, RT!HasRoute
  <2> QED BY <2>2, <2>3
<1> QED BY <1>1, <1>2

LEMMA UpdateRoutes ==
  ASSUME TypeOK, RoutesPickable, NEW f \in Functions, RT!Update(f)
  PROVE  RT!TypeOK' /\ RoutesPickable'
<1>1. CASE ~RT!HasRoute(f)
  BY <1>1 DEF RT!Update, TypeOK, RT!TypeOK, RoutesPickable, RT!HasRoute
<1>2. CASE RT!HasRoute(f)
  <2>1. /\ DOMAIN routingTable' = DOMAIN routingTable
        /\ routingTable' = [g \in DOMAIN routingTable' |->
                              IF g = f THEN [ips |-> {}, isActive |-> FALSE] ELSE routingTable[g]]
        /\ reverseRoutingTable' = RT!Attribute(routingTable[f].ips, None)
    BY <1>2 DEF RT!Update, RT!SetRoute, RT!Route, RT!HasRoute
  <2>2. [ips |-> {}, isActive |-> FALSE] \in RT!Routes
    BY DEF RT!Routes
  <2>3. \A g \in DOMAIN routingTable' : routingTable'[g] \in RT!Routes
    BY <2>1, <2>2 DEF TypeOK, RT!TypeOK
  <2>4. RT!TypeOK'
    BY <2>1, <2>3 DEF TypeOK, RT!TypeOK, RT!Attribute
  <2>5. RoutesPickable'
    BY <2>1 DEF RoutesPickable, RT!HasRoute
  <2> QED BY <2>4, <2>5
<1> QED BY <1>1, <1>2

\* What the contract allows an operation to answer.
LEMMA StateTyped ==
  ASSUME NEW p \in Phase, NEW image \in BOOLEAN, NEW ips \in SUBSET IPs
  PROVE  [phase |-> p, image |-> image, ips |-> ips] \in HandlerState(IPs)
  BY DEF HandlerState

LEMMA StartAnswers ==
  ASSUME TypeOK, NEW h \in Handlers, NEW r \in StartResults(handler[h], FreeIPs, replicas)
  PROVE  r.ok \in BOOLEAN /\ r.state \in HandlerState(IPs) /\ r.state.image = handler[h].image
<1>1. handler[h] \in HandlerState(IPs) /\ handler[h].image \in BOOLEAN
  BY DEF TypeOK, HandlerState
<1>2. CASE handler[h].phase = "up"
  <2>1. r = [ok |-> TRUE, state |-> handler[h]]
    BY <1>2 DEF StartResults, Outcome
  <2> QED BY <1>1, <2>1
<1>3. CASE handler[h].phase # "up"
  <2>1. PICK ok \in BOOLEAN, p \in Phase, ips \in SUBSET IPs :
          r = [ok |-> ok, state |-> [phase |-> p, image |-> handler[h].image, ips |-> ips]]
    BY <1>3 DEF StartResults, Outcome, WithRuntime, Placements, FreeIPs, Phase
  <2> QED BY <1>1, <2>1, StateTyped
<1> QED BY <1>2, <1>3

LEMMA StopAnswers ==
  ASSUME TypeOK, NEW h \in Handlers, NEW r \in StopResults(handler[h])
  PROVE  r.ok \in BOOLEAN /\ r.state \in HandlerState(IPs) /\ r.state.image = handler[h].image
<1>1. handler[h] \in HandlerState(IPs) /\ handler[h].image \in BOOLEAN
  BY DEF TypeOK, HandlerState
<1>2. CASE handler[h].phase = "down"
  <2>1. r = [ok |-> TRUE, state |-> handler[h]]
    BY <1>2 DEF StopResults, Outcome
  <2> QED BY <1>1, <2>1
<1>3. CASE handler[h].phase # "down"
  <2>1. PICK ok \in BOOLEAN, p \in Phase :
          r = [ok |-> ok, state |-> [phase |-> p, image |-> handler[h].image, ips |-> {}]]
    BY <1>3 DEF StopResults, Outcome, WithRuntime, Phase
  <2> QED BY <1>1, <2>1, StateTyped
<1> QED BY <1>2, <1>3

LEMMA DestroyAnswers ==
  ASSUME TypeOK, NEW h \in Handlers, NEW r \in DestroyResults(handler[h])
  PROVE  /\ r.ok \in BOOLEAN /\ r.state \in HandlerState(IPs) /\ r.state.ips = {}
         /\ r.ok => r.state.phase = "down" /\ ~r.state.image
<1>1. handler[h].image \in BOOLEAN
  BY DEF TypeOK, HandlerState
<1>2. CASE r = [ok |-> TRUE, state |-> [phase |-> "down", image |-> FALSE, ips |-> {}]]
  BY <1>2, StateTyped DEF Phase
<1>3. ASSUME NEW p \in {"partial", "down"}, NEW image \in BOOLEAN,
             r = [ok |-> FALSE, state |-> [phase |-> p, image |-> image, ips |-> {}]]
      PROVE  r.ok \in BOOLEAN /\ ~r.ok /\ r.state \in HandlerState(IPs) /\ r.state.ips = {}
  BY <1>3, StateTyped DEF Phase
<1>4. r \in {Outcome(TRUE, [phase |-> "down", image |-> FALSE, ips |-> {}])} \/
      r \in {Outcome(FALSE, [phase |-> pi[1], image |-> pi[2], ips |-> {}]) :
             pi \in {<<"partial", FALSE>>, <<"partial", handler[h].image>>, <<"down", handler[h].image>>}}
  BY DEF DestroyResults
<1>5. CASE r \in {Outcome(TRUE, [phase |-> "down", image |-> FALSE, ips |-> {}])}
  BY <1>2, <1>5 DEF Outcome
<1>6. CASE r \in {Outcome(FALSE, [phase |-> pi[1], image |-> pi[2], ips |-> {}]) :
             pi \in {<<"partial", FALSE>>, <<"partial", handler[h].image>>, <<"down", handler[h].image>>}}
  <2>1. PICK pi \in {<<"partial", FALSE>>, <<"partial", handler[h].image>>, <<"down", handler[h].image>>} :
          r = [ok |-> FALSE, state |-> [phase |-> pi[1], image |-> pi[2], ips |-> {}]]
    BY <1>6 DEF Outcome
  <2>2. CASE pi = <<"partial", FALSE>>
    BY <1>3, <2>1, <2>2
  <2>3. CASE pi = <<"partial", handler[h].image>>
    BY <1>1, <1>3, <2>1, <2>3
  <2>4. CASE pi = <<"down", handler[h].image>>
    BY <1>1, <1>3, <2>1, <2>4
  <2> QED BY <2>1, <2>2, <2>3, <2>4
<1> QED BY <1>4, <1>5, <1>6

LEMMA PerformMoves ==
  ASSUME TypeOK, NEW t \in Threads, NEW h \in Handlers, NEW o, NEW results,
         \A r \in results : r.ok \in BOOLEAN /\ r.state \in HandlerState(IPs),
         NEW okLabel \in PcLabels, NEW errLabel \in PcLabels,
         NEW okLocal \in LocalType, NEW errLocal \in LocalType,
         Perform(o, h, results, t, okLabel, okLocal, errLabel, errLocal)
  PROVE  /\ handler' \in [Handlers -> HandlerState(IPs)] /\ UNCHANGED deployed
         /\ \A g \in Handlers : g # h => handler'[g] = handler[g]
         /\ \E r \in results :
              /\ r.ok \/ o \in Faults \/ \A q \in results : ~q.ok
              /\ handler'[h] = r.state
              /\ \/ r.ok /\ Moves(t, okLabel, okLocal)
                 \/ ~r.ok /\ Moves(t, errLabel, errLocal)
<1>1. PICK r \in results :
        /\ r.ok \/ o \in Faults \/ \A q \in results : ~q.ok
        /\ handler' = [handler EXCEPT ![h] = r.state]
        /\ IF r.ok THEN Goto(t, okLabel, okLocal) ELSE Goto(t, errLabel, errLocal)
        /\ UNCHANGED deployed
  BY DEF Perform
<1>2. IF r.ok THEN Moves(t, okLabel, okLocal) ELSE Moves(t, errLabel, errLocal)
  BY <1>1, GotoMoves
<1> QED BY <1>1, <1>2 DEF TypeOK

-----------------------------------------------------------------------------
(* Parts of the invariant that a step does not disturb. *)

\* No request begins or ends.
LEMMA CountsKept ==
  ASSUME Counts, NEW t \in Threads, NEW label, NEW v, Moves(t, label, v),
         label # "http", ~At(t, "http"),
         \A f \in Functions : autoscaler'[f].inFlight \in {autoscaler[f].inFlight, 0},
         \A f \in Functions : autoscaler[f].inFlight \in Nat
  PROVE  Counts'
<1>1. ASSUME NEW f \in Functions PROVE Serving(f)' = Serving(f)
  BY Distinct DEF Serving, Moves, At
<1>2. ASSUME NEW f \in Functions
      PROVE  Cardinality(Serving(f)) \in Nat
  <2>1. IsFiniteSet(Serving(f))
    BY ThreadsAssumption, FS_Subset DEF Serving
  <2> QED BY <2>1, FS_CardinalityType
<1> QED BY <1>1, <1>2 DEF Counts, InFlightNotLeaked

LEMMA ServingFinite ==
  ASSUME NEW f \in Functions
  PROVE  IsFiniteSet(Serving(f)) /\ Cardinality(Serving(f)) \in Nat
<1>1. IsFiniteSet(Serving(f))
  BY ThreadsAssumption, FS_Subset DEF Serving
<1> QED BY <1>1, FS_CardinalityType

\* A request begins: the callee serves one more than before.
LEMMA CountsBegin ==
  ASSUME TypeOK, Counts, NEW t \in Callers, NEW v, Moves(t, "http", v), At(t, "begin"),
         NEW f \in Functions, v.fn = f, Changes(f),
         autoscaler'[f].inFlight \in {autoscaler[f].inFlight, autoscaler[f].inFlight + 1},
         ~AutoscalerEnabled => UNCHANGED autoscaler
  PROVE  Counts'
<1>1. Serving(f)' = Serving(f) \cup {t} /\ t \notin Serving(f)
  BY Distinct DEF Serving, Moves, At
<1>2. \A g \in Functions : g # f => Serving(g)' = Serving(g)
  BY Distinct DEF Serving, Moves, At
<1>3. Cardinality(Serving(f)') = Cardinality(Serving(f)) + 1
  BY <1>1, ServingFinite, FS_AddElement
<1>4. /\ autoscaler[f].inFlight \in Nat
      /\ autoscaler[f].inFlight <= Cardinality(Serving(f))
  BY EntryTyped DEF Counts, InFlightNotLeaked
<1>5. autoscaler'[f].inFlight <= Cardinality(Serving(f)')
  BY <1>3, <1>4, ServingFinite
<1> QED BY <1>2, <1>5 DEF Counts, InFlightNotLeaked, Changes

\* A request ends: one less.
LEMMA CountsEnd ==
  ASSUME TypeOK, Counts, NEW t \in Callers, Moves(t, "idle", Reset), At(t, "http"),
         NEW f \in Functions, f = local[t].fn, Changes(f),
         AutoscalerEnabled => autoscaler'[f].inFlight =
           IF autoscaler[f].inFlight > 0 THEN autoscaler[f].inFlight - 1 ELSE 0,
         ~AutoscalerEnabled => UNCHANGED autoscaler
  PROVE  Counts'
<1>1. Serving(f)' = Serving(f) \ {t} /\ t \in Serving(f)
  BY Distinct DEF Serving, Moves, At
<1>2. \A g \in Functions : g # f => Serving(g)' = Serving(g)
  BY Distinct DEF Serving, Moves, At
<1>3. Cardinality(Serving(f)') = Cardinality(Serving(f)) - 1
  BY <1>1, ServingFinite, FS_RemoveElement
<1>4. /\ autoscaler[f].inFlight \in Nat
      /\ autoscaler[f].inFlight <= Cardinality(Serving(f))
  BY EntryTyped DEF Counts, InFlightNotLeaked
<1>5. ~AutoscalerEnabled => autoscaler[f].inFlight = 0
  BY DEF Counts
<1>6. Cardinality(Serving(f)') \in Nat
  BY <1>1, ServingFinite, FS_RemoveElement, FS_CardinalityType
<1>7. autoscaler'[f].inFlight <= Cardinality(Serving(f)')
  BY <1>3, <1>4, <1>5, <1>6, ServingFinite
<1> QED BY <1>2, <1>7 DEF Counts, InFlightNotLeaked, Changes

LEMMA HandlerTyped ==
  ASSUME TypeOK, NEW h \in Handlers
  PROVE  handler[h] \in HandlerState(IPs) /\ handler[h].ips \in SUBSET IPs
  BY DEF TypeOK, HandlerState

LEMMA ClaimedMoves ==
  ASSUME TypeOK, NEW t \in Threads, NEW f \in Functions, autoscaler[f].entry \in Handlers,
         NEW label \in {"downLookup", "upLookup"}, Claimed(t, f, label)
  PROVE  \E v \in LocalType :
           /\ v.fn = f /\ v.entry = autoscaler[f].entry
           /\ v.old = local[t].old /\ v.new = local[t].new
           /\ Moves(t, label, v)
<1> DEFINE v == [local[t] EXCEPT !.fn = f, !.entry = autoscaler[f].entry]
<1>1. /\ v \in LocalType /\ v.fn = f /\ v.entry = autoscaler[f].entry
      /\ v.old = local[t].old /\ v.new = local[t].new
  BY LocalTyped DEF LocalType
<1>2. Goto(t, label, v) /\ label \in PcLabels
  BY DEF Claimed, PcLabels
<1> HIDE DEF v
<1> QED BY <1>1, <1>2, GotoMoves

LEMMA LookupMoves ==
  ASSUME TypeOK, NEW t \in Threads, local[t].fn \in Functions,
         NEW found \in PcLabels, NEW missing \in PcLabels, Lookup(t, found, missing)
  PROVE  \E v \in LocalType, label \in {found, missing} :
           /\ v.fn = local[t].fn /\ v.entry = local[t].entry
           /\ v.old = local[t].old /\ v.new = local[t].new
           /\ v.h = functionHandlers[local[t].fn]
           /\ label # missing => v.h \in Handlers
           /\ Moves(t, label, v)
<1> DEFINE h == functionHandlers[local[t].fn]
           v == [local[t] EXCEPT !.h = h, !.ok = h # None]
<1>1. h \in Handlers \cup {None}
  BY DEF TypeOK
<1>2. PICK label \in {found, missing} : Goto(t, label, v) /\ (label # missing => h # None)
  BY DEF Lookup
<1>3. /\ v \in LocalType /\ v.fn = local[t].fn /\ v.entry = local[t].entry
      /\ v.old = local[t].old /\ v.new = local[t].new /\ v.h = h
  BY <1>1, LocalTyped DEF LocalType
<1> HIDE DEF v
<1> QED BY <1>1, <1>2, <1>3, GotoMoves

LEMMA ResumeMoves ==
  ASSUME TypeOK, NEW t \in Deployers \cup Callers \cup Scalers, Resume(t)
  PROVE  \E v \in LocalType, label \in {"start", "abort", "waitRoute", "idle"} :
           /\ Moves(t, label, v)
           /\ t \in Deployers => label \in {"start", "abort"}
           /\ t \in Callers => label \in {"waitRoute", "idle"}
           /\ t \in Scalers => label = "idle"
           /\ label # "idle" =>
                v.fn = local[t].fn /\ v.old = local[t].old /\ v.new = local[t].new
<1> DEFINE v == [local[t] EXCEPT !.h = None, !.ips = {}, !.entry = None, !.ok = TRUE]
<1>1. /\ v \in LocalType /\ v.fn = local[t].fn
      /\ v.old = local[t].old /\ v.new = local[t].new
  <2>1. local[t] \in LocalType
    BY LocalTyped, Distinct
  <2> QED BY <2>1 DEF LocalType
<1>2. {"start", "abort", "waitRoute", "idle"} \subseteq PcLabels
  BY DEF PcLabels
<1>3. CASE t \in Deployers
  <2>1. PICK label \in {"start", "abort"} : Goto(t, label, v)
    BY <1>3, Distinct DEF Resume
  <2> HIDE DEF v
  <2>2. Moves(t, label, v)
    BY <1>1, <1>2, <2>1, GotoMoves, Distinct
  <2> QED BY <1>1, <1>3, <2>1, <2>2, Distinct
<1>4. CASE t \in Callers /\ local[t].ok
  <2>1. Goto(t, "waitRoute", v)
    BY <1>4, Distinct DEF Resume
  <2> HIDE DEF v
  <2>2. Moves(t, "waitRoute", v)
    BY <1>1, <1>2, <2>1, GotoMoves, Distinct
  <2> QED BY <1>1, <1>4, <2>2, Distinct
<1>5. CASE t \notin Deployers /\ ~(t \in Callers /\ local[t].ok)
  <2>1. Return(t)
    BY <1>5, Distinct DEF Resume
  <2>2. Moves(t, "idle", Reset)
    BY <2>1, ReturnMoves, Distinct
  <2> QED BY <1>5, <2>2, ResetTyped, Distinct
<1> QED BY <1>3, <1>4, <1>5

LEMMA NextDeleteMoves ==
  ASSUME TypeOK, NEW t \in Threads, NEW f \in Functions, NextDelete(t, f)
  PROVE  \E v \in LocalType, label \in {"idle", "deleteLock"} :
           Moves(t, label, v) /\ v.new = None /\ v.old = None
<1> DEFINE v == [Reset EXCEPT !.todo = local[t].todo \ {f}]
<1>1. v \in LocalType /\ v.new = None /\ v.old = None
  BY LocalTyped DEF LocalType, Reset
<1>2. Return(t) \/ Goto(t, "deleteLock", v)
  BY DEF NextDelete
<1>3. "deleteLock" \in PcLabels
  BY DEF PcLabels
<1>4. Reset.new = None /\ Reset.old = None
  BY DEF Reset
<1> HIDE DEF v
<1> QED BY <1>1, <1>2, <1>3, <1>4, ReturnMoves, ResetTyped, GotoMoves

LEMMA LocalMoveInv ==
  ASSUME TypeOK, IInv, NEW t \in Threads, NEW label, NEW v, LocalMove(t, label, v),
         RoutesPickable' \/ UNCHANGED routingTable
  PROVE  IInv'
<1> USE DEF LocalMove
<1>1. Roles'
  BY DEF Moves, IInv, Roles, Role
<1>2. Operands'
  BY DEF Moves, IInv, Operands, Operand
<1>3. Fresh'
  BY Distinct DEF Moves, IInv, Fresh, Holding, Preparing, ScaleLabels
<1>4. Claims'
  BY DEF Moves, IInv, Claims, AS!Scaling, AS!InState
<1>5. Counts'
  BY CountsKept, EntryTyped DEF IInv, At
<1>6. RoutesPickable'
  BY DEF IInv, RoutesPickable, RT!HasRoute
<1> QED BY <1>1, <1>2, <1>3, <1>4, <1>5, <1>6 DEF IInv

-----------------------------------------------------------------------------
(* Every action keeps the invariant.  Each lemma first says what the action *)
(* changes, then takes the parts of the invariant in turn.                  *)

LEMMA DownLookupInv ==
  ASSUME TypeOK, IInv, NEW t \in Deployers \cup Callers \cup Scalers, DownLookup(t)
  PROVE  TypeOK' /\ IInv'
<1>1. /\ At(t, "downLookup")
      /\ UNCHANGED <<functionHandlers, routingTable, reverseRoutingTable, autoscaler,
                     handler, deployed, mux>>
      /\ t \in Threads /\ local[t].fn \in Functions /\ local[t].entry \in Handlers
  BY Distinct DEF DownLookup, Lookup, tables, runtime, IInv, Operands, Operand, At,
     ScaleLabels
<1>2. /\ Lookup(t, "downIPs", "downDone")
      /\ "downIPs" \in PcLabels
      /\ "downDone" \in PcLabels
  BY DEF DownLookup, PcLabels
<1>3. PICK v \in LocalType, label \in {"downIPs", "downDone"} :
        /\ v.fn = local[t].fn /\ v.entry = local[t].entry
        /\ v.old = local[t].old /\ v.new = local[t].new
        /\ label # "downDone" => v.h \in Handlers
        /\ Moves(t, label, v)
  BY <1>1, <1>2, LookupMoves
<1>4. TypeOK'
  BY <1>1, <1>3 DEF TypeOK, Moves, LocalType, RT!TypeOK, AS!TypeOK
<1>5. LocalMove(t, label, v)
  BY <1>1, <1>3, Distinct DEF LocalMove, Preparing, Holding, Role, Operand, IInv,
     Roles, Operands, At, ScaleLabels, DownLabels, UpLabels, MuxLabels
<1> QED BY <1>1, <1>3, <1>4, <1>5, LocalMoveInv

LEMMA UpLookupInv ==
  ASSUME TypeOK, IInv, NEW t \in Deployers \cup Callers \cup Scalers, UpLookup(t)
  PROVE  TypeOK' /\ IInv'
<1>1. /\ At(t, "upLookup")
      /\ UNCHANGED <<functionHandlers, routingTable, reverseRoutingTable, autoscaler,
                     handler, deployed, mux>>
      /\ t \in Threads /\ local[t].fn \in Functions /\ local[t].entry \in Handlers
  BY Distinct DEF UpLookup, Lookup, tables, runtime, IInv, Operands, Operand, At,
     ScaleLabels
<1>2. /\ Lookup(t, "upRestart", "upDone")
      /\ "upRestart" \in PcLabels
      /\ "upDone" \in PcLabels
  BY DEF UpLookup, PcLabels
<1>3. PICK v \in LocalType, label \in {"upRestart", "upDone"} :
        /\ v.fn = local[t].fn /\ v.entry = local[t].entry
        /\ v.old = local[t].old /\ v.new = local[t].new
        /\ label # "upDone" => v.h \in Handlers
        /\ Moves(t, label, v)
  BY <1>1, <1>2, LookupMoves
<1>4. TypeOK'
  BY <1>1, <1>3 DEF TypeOK, Moves, LocalType, RT!TypeOK, AS!TypeOK
<1>5. LocalMove(t, label, v)
  BY <1>1, <1>3, Distinct DEF LocalMove, Preparing, Holding, Role, Operand, IInv,
     Roles, Operands, At, ScaleLabels, DownLabels, UpLabels, MuxLabels
<1> QED BY <1>1, <1>3, <1>4, <1>5, LocalMoveInv

LEMMA DownIPsInv ==
  ASSUME TypeOK, IInv, NEW t \in Deployers \cup Callers \cup Scalers, DownIPs(t)
  PROVE  TypeOK' /\ IInv'
<1>1. /\ At(t, "downIPs")
      /\ UNCHANGED <<functionHandlers, routingTable, reverseRoutingTable, autoscaler,
                     handler, deployed, mux>>
      /\ t \in Threads
      /\ local[t].fn \in Functions
      /\ local[t].entry \in Handlers
      /\ local[t].h \in Handlers
  BY Distinct DEF DownIPs, tables, runtime, IInv, Operands, Operand, At, ScaleLabels,
     DownLabels, UpLabels, MuxLabels
<1> DEFINE v == [local[t] EXCEPT !.ips = handler[local[t].h].ips]
<1>2. /\ v \in LocalType
      /\ v.fn = local[t].fn /\ v.old = local[t].old /\ v.new = local[t].new
      /\ v.h = local[t].h /\ v.entry = local[t].entry /\ v.ips = handler[local[t].h].ips
  BY <1>1, HandlerTyped, LocalTyped DEF LocalType
<1>3. Goto(t, "downUpdate", v) /\ "downUpdate" \in PcLabels
  BY DEF DownIPs, PcLabels
<1> HIDE DEF v
<1>4. Moves(t, "downUpdate", v)
  BY <1>1, <1>2, <1>3, GotoMoves
<1>5. TypeOK'
  BY <1>1, <1>2, <1>4 DEF TypeOK, Moves, LocalType, RT!TypeOK, AS!TypeOK
<1>6. LocalMove(t, "downUpdate", v)
  BY <1>1, <1>2, <1>4, Distinct DEF LocalMove, Preparing, Holding, Role, Operand,
     IInv, Roles, Operands, At, ScaleLabels, DownLabels, UpLabels, MuxLabels
<1> QED BY <1>1, <1>2, <1>4, <1>5, <1>6, LocalMoveInv

LEMMA DownUpdateInv ==
  ASSUME TypeOK, IInv, NEW t \in Deployers \cup Callers \cup Scalers, DownUpdate(t)
  PROVE  TypeOK' /\ IInv'
<1>1. /\ At(t, "downUpdate")
      /\ UNCHANGED <<functionHandlers, autoscaler, handler, deployed, mux>>
      /\ t \in Threads
      /\ local[t].fn \in Functions
      /\ local[t].entry \in Handlers
      /\ local[t].h \in Handlers
      /\ RT!Update(local[t].fn)
  BY Distinct DEF DownUpdate, tables, runtime, IInv, Operands, Operand, At,
     ScaleLabels, DownLabels, UpLabels, MuxLabels
<1>2. Moves(t, "downStop", local[t])
  BY <1>1, ContinueMoves DEF DownUpdate, PcLabels
<1>3. RT!TypeOK' /\ RoutesPickable'
  BY <1>1, UpdateRoutes DEF IInv
<1>4. TypeOK'
  BY <1>1, <1>2, <1>3 DEF TypeOK, Moves, LocalType, AS!TypeOK
<1>5. LocalMove(t, "downStop", local[t])
  BY <1>1, <1>2, <1>3, Distinct DEF LocalMove, Preparing, Holding, Role, Operand,
     IInv, Roles, Operands, At, ScaleLabels, DownLabels, UpLabels, MuxLabels
<1> QED BY <1>1, <1>2, <1>3, <1>4, <1>5, LocalMoveInv

LEMMA DownStopInv ==
  ASSUME TypeOK, IInv, NEW t \in Deployers \cup Callers \cup Scalers, DownStop(t)
  PROVE  TypeOK' /\ IInv'
<1>1. /\ At(t, "downStop")
      /\ UNCHANGED <<functionHandlers, routingTable, reverseRoutingTable, autoscaler,
                     mux>>
      /\ t \in Threads
      /\ local[t].fn \in Functions
      /\ local[t].entry \in Handlers
      /\ local[t].h \in Handlers
  BY Distinct DEF DownStop, tables, runtime, IInv, Operands, Operand, At, ScaleLabels,
     DownLabels, UpLabels, MuxLabels
<1> DEFINE u == [local[t] EXCEPT !.ok = FALSE]
           results == StopResults(handler[local[t].h])
<1>2. /\ u \in LocalType /\ u.fn = local[t].fn /\ u.entry = local[t].entry
      /\ u.old = local[t].old /\ u.new = local[t].new /\ u.h = local[t].h
  BY <1>1, LocalTyped DEF LocalType
<1>3. Perform("stop", local[t].h, results, t, "downDone", local[t], "downRestore", u)
  BY DEF DownStop, StopHandler
<1>4. "downDone" \in PcLabels /\ "downRestore" \in PcLabels /\ local[t] \in LocalType
      /\ u \in LocalType /\ t \in Threads /\ local[t].h \in Handlers
  BY <1>1, <1>2, LocalTyped DEF PcLabels
<1>5. \A r \in results : r.ok \in BOOLEAN /\ r.state \in HandlerState(IPs)
  BY <1>1, StopAnswers
<1> HIDE DEF u, results
<1>6. /\ handler' \in [Handlers -> HandlerState(IPs)] /\ UNCHANGED deployed
      /\ Moves(t, "downDone", local[t]) \/ Moves(t, "downRestore", u)
  BY <1>3, <1>4, <1>5, PerformMoves
<1>7. PICK v \in LocalType, label \in {"downDone", "downRestore"} :
        /\ v.fn = local[t].fn /\ v.entry = local[t].entry
        /\ v.old = local[t].old /\ v.new = local[t].new /\ v.h = local[t].h
        /\ Moves(t, label, v)
  BY <1>2, <1>4, <1>6
<1>8. TypeOK'
  BY <1>1, <1>6, <1>7 DEF TypeOK, Moves, LocalType, RT!TypeOK, AS!TypeOK
<1>9. LocalMove(t, label, v)
  BY <1>1, <1>6, <1>7, Distinct DEF LocalMove, Preparing, Holding, Role, Operand,
     IInv, Roles, Operands, At, ScaleLabels, DownLabels, UpLabels, MuxLabels
<1> QED BY <1>1, <1>6, <1>7, <1>8, <1>9, LocalMoveInv

LEMMA DownRestoreInv ==
  ASSUME TypeOK, IInv, NEW t \in Deployers \cup Callers \cup Scalers, DownRestore(t)
  PROVE  TypeOK' /\ IInv'
<1>1. /\ At(t, "downRestore")
      /\ UNCHANGED <<functionHandlers, autoscaler, handler, deployed, mux>>
      /\ t \in Threads
      /\ local[t].fn \in Functions
      /\ local[t].entry \in Handlers
      /\ local[t].h \in Handlers
      /\ RT!Add(local[t].fn, local[t].ips)
  BY Distinct DEF DownRestore, tables, runtime, IInv, Operands, Operand, At,
     ScaleLabels, DownLabels, UpLabels, MuxLabels
<1>2. Moves(t, "downDone", local[t])
  BY <1>1, ContinueMoves DEF DownRestore, PcLabels
<1>3. local[t].ips \in SUBSET IPs
  BY <1>1, LocalTyped DEF LocalType
<1>4. RT!TypeOK' /\ RoutesPickable'
  BY <1>1, <1>3, AddRoutes DEF IInv
<1>5. TypeOK'
  BY <1>1, <1>2, <1>4 DEF TypeOK, Moves, LocalType, AS!TypeOK
<1>6. LocalMove(t, "downDone", local[t])
  BY <1>1, <1>2, <1>4, Distinct DEF LocalMove, Preparing, Holding, Role, Operand,
     IInv, Roles, Operands, At, ScaleLabels, DownLabels, UpLabels, MuxLabels
<1> QED BY <1>1, <1>2, <1>4, <1>5, <1>6, LocalMoveInv

LEMMA UpRestartInv ==
  ASSUME TypeOK, IInv, NEW t \in Deployers \cup Callers \cup Scalers, UpRestart(t)
  PROVE  TypeOK' /\ IInv'
<1>1. /\ At(t, "upRestart")
      /\ UNCHANGED <<functionHandlers, routingTable, reverseRoutingTable, autoscaler,
                     mux>>
      /\ t \in Threads
      /\ local[t].fn \in Functions
      /\ local[t].entry \in Handlers
      /\ local[t].h \in Handlers
  BY Distinct DEF UpRestart, tables, runtime, IInv, Operands, Operand, At,
     ScaleLabels, DownLabels, UpLabels, MuxLabels
<1> DEFINE u == [local[t] EXCEPT !.ok = FALSE]
           results == StartResults(handler[local[t].h], FreeIPs, replicas)
<1>2. /\ u \in LocalType /\ u.fn = local[t].fn /\ u.entry = local[t].entry
      /\ u.old = local[t].old /\ u.new = local[t].new /\ u.h = local[t].h
  BY <1>1, LocalTyped DEF LocalType
<1>3. Perform("start", local[t].h, results, t, "upIPs", local[t], "upDone", u)
  BY DEF UpRestart, StartHandler
<1>4. "upIPs" \in PcLabels /\ "upDone" \in PcLabels /\ local[t] \in LocalType
      /\ u \in LocalType /\ t \in Threads /\ local[t].h \in Handlers
  BY <1>1, <1>2, LocalTyped DEF PcLabels
<1>5. \A r \in results : r.ok \in BOOLEAN /\ r.state \in HandlerState(IPs)
  BY <1>1, StartAnswers
<1> HIDE DEF u, results
<1>6. /\ handler' \in [Handlers -> HandlerState(IPs)] /\ UNCHANGED deployed
      /\ Moves(t, "upIPs", local[t]) \/ Moves(t, "upDone", u)
  BY <1>3, <1>4, <1>5, PerformMoves
<1>7. PICK v \in LocalType, label \in {"upIPs", "upDone"} :
        /\ v.fn = local[t].fn /\ v.entry = local[t].entry
        /\ v.old = local[t].old /\ v.new = local[t].new /\ v.h = local[t].h
        /\ Moves(t, label, v)
  BY <1>2, <1>4, <1>6
<1>8. TypeOK'
  BY <1>1, <1>6, <1>7 DEF TypeOK, Moves, LocalType, RT!TypeOK, AS!TypeOK
<1>9. LocalMove(t, label, v)
  BY <1>1, <1>6, <1>7, Distinct DEF LocalMove, Preparing, Holding, Role, Operand,
     IInv, Roles, Operands, At, ScaleLabels, DownLabels, UpLabels, MuxLabels
<1> QED BY <1>1, <1>6, <1>7, <1>8, <1>9, LocalMoveInv

LEMMA UpIPsInv ==
  ASSUME TypeOK, IInv, NEW t \in Deployers \cup Callers \cup Scalers, UpIPs(t)
  PROVE  TypeOK' /\ IInv'
<1>1. /\ At(t, "upIPs")
      /\ UNCHANGED <<functionHandlers, routingTable, reverseRoutingTable, autoscaler,
                     handler, deployed, mux>>
      /\ t \in Threads
      /\ local[t].fn \in Functions
      /\ local[t].entry \in Handlers
      /\ local[t].h \in Handlers
  BY Distinct DEF UpIPs, tables, runtime, IInv, Operands, Operand, At, ScaleLabels,
     DownLabels, UpLabels, MuxLabels
<1> DEFINE v == [local[t] EXCEPT !.ips = handler[local[t].h].ips]
<1>2. /\ v \in LocalType
      /\ v.fn = local[t].fn /\ v.old = local[t].old /\ v.new = local[t].new
      /\ v.h = local[t].h /\ v.entry = local[t].entry /\ v.ips = handler[local[t].h].ips
  BY <1>1, HandlerTyped, LocalTyped DEF LocalType
<1>3. Goto(t, "upAdd", v) /\ "upAdd" \in PcLabels
  BY DEF UpIPs, PcLabels
<1> HIDE DEF v
<1>4. Moves(t, "upAdd", v)
  BY <1>1, <1>2, <1>3, GotoMoves
<1>5. TypeOK'
  BY <1>1, <1>2, <1>4 DEF TypeOK, Moves, LocalType, RT!TypeOK, AS!TypeOK
<1>6. LocalMove(t, "upAdd", v)
  BY <1>1, <1>2, <1>4, Distinct DEF LocalMove, Preparing, Holding, Role, Operand,
     IInv, Roles, Operands, At, ScaleLabels, DownLabels, UpLabels, MuxLabels
<1> QED BY <1>1, <1>2, <1>4, <1>5, <1>6, LocalMoveInv

LEMMA UpAddInv ==
  ASSUME TypeOK, IInv, NEW t \in Deployers \cup Callers \cup Scalers, UpAdd(t)
  PROVE  TypeOK' /\ IInv'
<1>1. /\ At(t, "upAdd")
      /\ UNCHANGED <<functionHandlers, autoscaler, handler, deployed, mux>>
      /\ t \in Threads
      /\ local[t].fn \in Functions
      /\ local[t].entry \in Handlers
      /\ local[t].h \in Handlers
      /\ RT!Add(local[t].fn, local[t].ips)
  BY Distinct DEF UpAdd, tables, runtime, IInv, Operands, Operand, At, ScaleLabels,
     DownLabels, UpLabels, MuxLabels
<1> DEFINE v == [local[t] EXCEPT !.ok = RT!AddAccepts(local[t].ips), !.ips = {}]
<1>2. /\ v \in LocalType
      /\ v.fn = local[t].fn /\ v.old = local[t].old /\ v.new = local[t].new
      /\ v.h = local[t].h /\ v.entry = local[t].entry /\ v.ips = {}
  BY <1>1, LocalTyped DEF RT!AddAccepts, LocalType
<1>3. Goto(t, "upDone", v) /\ "upDone" \in PcLabels
  BY DEF UpAdd, PcLabels
<1> HIDE DEF v
<1>4. Moves(t, "upDone", v)
  BY <1>1, <1>2, <1>3, GotoMoves
<1>5. local[t].ips \in SUBSET IPs
  BY <1>1, LocalTyped DEF LocalType
<1>6. RT!TypeOK' /\ RoutesPickable'
  BY <1>1, <1>5, AddRoutes DEF IInv
<1>7. TypeOK'
  BY <1>1, <1>2, <1>4, <1>6 DEF TypeOK, Moves, LocalType, AS!TypeOK
<1>8. LocalMove(t, "upDone", v)
  BY <1>1, <1>2, <1>4, <1>6, Distinct DEF LocalMove, Preparing, Holding, Role,
     Operand, IInv, Roles, Operands, At, ScaleLabels, DownLabels, UpLabels, MuxLabels
<1> QED BY <1>1, <1>2, <1>4, <1>6, <1>7, <1>8, LocalMoveInv

LEMMA ScaleDoneInv ==
  ASSUME TypeOK, IInv, NEW t \in Deployers \cup Callers \cup Scalers, ScaleDone(t)
  PROVE  TypeOK' /\ IInv'
<1> DEFINE f == local[t].fn
<1>1. /\ pc[t] \in {"downDone", "upDone"}
      /\ UNCHANGED <<functionHandlers, routingTable, reverseRoutingTable, handler,
                     deployed, mux>>
      /\ t \in Threads /\ f \in Functions /\ local[t].entry \in Handlers
      /\ \E active \in BOOLEAN : AS!Settle(f, local[t].entry, active)
  BY LocalTyped, Distinct DEF ScaleDone, tables, runtime, IInv, Operands, Operand, At,
     ScaleLabels, LocalType
<1>2. PICK v \in LocalType, label \in {"start", "abort", "waitRoute", "idle"} :
        /\ Moves(t, label, v)
        /\ t \in Deployers => label \in {"start", "abort"}
        /\ t \in Callers => label \in {"waitRoute", "idle"}
        /\ t \in Scalers => label = "idle"
        /\ label # "idle" => v.fn = f /\ v.old = local[t].old /\ v.new = local[t].new
  BY ResumeMoves DEF ScaleDone
<1>3. /\ Changes(f)
      /\ autoscaler[f].entry = local[t].entry =>
           autoscaler'[f].state \in {"Active", "ScaledDown"}
      /\ autoscaler[f].entry # local[t].entry => autoscaler'[f] = autoscaler[f]
      /\ autoscaler'[f].entry = autoscaler[f].entry
      /\ autoscaler'[f].inFlight = autoscaler[f].inFlight
  BY <1>1, SettleChanges
<1>4. f = local[t].fn
  OBVIOUS
<1> HIDE DEF f
<1>5. TypeOK'
  BY <1>1, <1>2, <1>3, <1>4 DEF TypeOK, Moves, LocalType, RT!TypeOK, Changes
<1>6. Roles' /\ Operands'
  BY <1>1, <1>2, <1>3, <1>4, Distinct DEF Moves, Role, Operand, IInv, Roles, Operands,
     At, ScaleLabels, DownLabels, UpLabels, MuxLabels
<1>7. Fresh'
  BY <1>1, <1>2, <1>3, <1>4, EntryTyped, Distinct DEF Moves, Fresh, Holding,
     Preparing, Role, Operand, IInv, Roles, Operands, At, ScaleLabels, DownLabels,
     UpLabels, MuxLabels, Changes
<1>8. Claims'
  BY <1>1, <1>2, <1>3, <1>4, Distinct DEF Moves, Claims, AS!Scaling, AS!InState, Role,
     Operand, IInv, Roles, Operands, At, ScaleLabels, DownLabels, UpLabels, MuxLabels,
     Changes
<1>9. Counts'
  BY <1>1, <1>2, <1>3, <1>4, CountsKept, EntryTyped DEF IInv, At, Changes
<1>10. RoutesPickable'
  BY <1>1, <1>2, <1>3, <1>4 DEF IInv, RoutesPickable, RT!HasRoute
<1> QED BY <1>5, <1>6, <1>7, <1>8, <1>9, <1>10 DEF IInv

LEMMA DeployLookupInv ==
  ASSUME TypeOK, IInv, NEW t \in Deployers, NEW f \in Functions, DeployLookup(t, f)
  PROVE  TypeOK' /\ IInv'
<1>1. /\ At(t, "idle")
      /\ UNCHANGED <<functionHandlers, routingTable, reverseRoutingTable, autoscaler,
                     handler, deployed, mux>>
      /\ t \in Threads
      /\ functionHandlers[f] \in Handlers \cup {None}
  BY Distinct DEF DeployLookup, tables, runtime, TypeOK
<1> DEFINE v == [Reset EXCEPT !.fn = f, !.old = functionHandlers[f]]
<1>2. /\ v \in LocalType
      /\ v.fn = f /\ v.old = functionHandlers[f] /\ v.new = None
      /\ v.h = None /\ v.entry = None /\ v.ips = {}
  BY <1>1, LocalTyped DEF LocalType, Reset
<1>3. Goto(t, "create", v) /\ "create" \in PcLabels
  BY DEF DeployLookup, PcLabels
<1> HIDE DEF v
<1>4. Moves(t, "create", v)
  BY <1>1, <1>2, <1>3, GotoMoves
<1>5. TypeOK'
  BY <1>1, <1>2, <1>4 DEF TypeOK, Moves, LocalType, RT!TypeOK, AS!TypeOK
<1>6. LocalMove(t, "create", v)
  BY <1>1, <1>2, <1>4, Distinct DEF LocalMove, Preparing, Holding, Role, Operand,
     IInv, Roles, Operands, At, ScaleLabels, DownLabels, UpLabels, MuxLabels
<1> QED BY <1>1, <1>2, <1>4, <1>5, <1>6, LocalMoveInv

LEMMA DeployCreateInv ==
  ASSUME TypeOK, IInv, NEW t \in Deployers, DeployCreate(t)
  PROVE  TypeOK' /\ IInv'
<1>1. /\ At(t, "create")
      /\ UNCHANGED <<functionHandlers, routingTable, reverseRoutingTable, autoscaler,
                     mux>>
      /\ t \in Threads /\ local[t].fn \in Functions
  BY Distinct DEF DeployCreate, tables, runtime, IInv, Operands, Operand, At,
     ScaleLabels, DownLabels, UpLabels, MuxLabels
<1>2. PICK h \in Handlers, label \in {"drain", "start"} :
        /\ deployed[h] = None /\ deployed' = [deployed EXCEPT ![h] = local[t].fn]
        /\ handler' = [handler EXCEPT ![h] = Created]
        /\ Goto(t, label, [local[t] EXCEPT !.new = h])
  BY DEF DeployCreate
<1> DEFINE v == [local[t] EXCEPT !.new = h]
<1>3. /\ v \in LocalType
      /\ v.fn = local[t].fn /\ v.old = local[t].old /\ v.new = h
      /\ v.h = local[t].h /\ v.entry = local[t].entry /\ v.ips = local[t].ips
  BY <1>1, LocalTyped DEF LocalType
<1>4. Goto(t, label, v) /\ label \in PcLabels
  BY <1>2 DEF PcLabels
<1> HIDE DEF v
<1>5. Moves(t, label, v)
  BY <1>1, <1>3, <1>4, GotoMoves
<1>6. /\ deployed' \in [Handlers -> Functions \cup {None}] /\ deployed'[h] = local[t].fn
      /\ \A g \in Handlers : g # h => deployed'[g] = deployed[g]
      /\ handler' \in [Handlers -> HandlerState(IPs)]
  <2>1. Created \in HandlerState(IPs)
    BY StateTyped DEF Created, Phase
  <2> QED BY <1>1, <1>2, <2>1 DEF TypeOK
<1>7. TypeOK'
  BY <1>1, <1>2, <1>3, <1>5, <1>6 DEF TypeOK, Moves, LocalType, RT!TypeOK, AS!TypeOK
<1>8. Roles' /\ Operands'
  BY <1>1, <1>2, <1>3, <1>5, <1>6, Distinct DEF Moves, Role, Operand, IInv, Roles,
     Operands, At, ScaleLabels, DownLabels, UpLabels, MuxLabels
<1>9. Fresh'
  BY <1>1, <1>2, <1>3, <1>5, <1>6, EntryTyped, Distinct DEF Moves, Fresh, Holding,
     Preparing, Role, Operand, IInv, Roles, Operands, At, ScaleLabels, DownLabels,
     UpLabels, MuxLabels
<1>10. Claims'
  BY <1>1, <1>2, <1>3, <1>5, <1>6, Distinct DEF Moves, Claims, AS!Scaling, AS!InState,
     Role, Operand, IInv, Roles, Operands, At, ScaleLabels, DownLabels, UpLabels,
     MuxLabels
<1>11. Counts'
  BY <1>1, <1>2, <1>3, <1>5, <1>6, CountsKept, EntryTyped DEF IInv, At
<1>12. RoutesPickable'
  BY <1>1, <1>2, <1>3, <1>5, <1>6 DEF IInv, RoutesPickable, RT!HasRoute
<1> QED BY <1>7, <1>8, <1>9, <1>10, <1>11, <1>12 DEF IInv

LEMMA DeployDrainInv ==
  ASSUME TypeOK, IInv, NEW t \in Deployers, DeployDrain(t)
  PROVE  TypeOK' /\ IInv'
<1>1. /\ At(t, "drain")
      /\ UNCHANGED <<functionHandlers, routingTable, reverseRoutingTable, handler,
                     deployed, mux>>
      /\ t \in Threads /\ local[t].fn \in Functions
      /\ AS!ClaimScaleDown(local[t].fn) /\ Claimed(t, local[t].fn, "downLookup")
  BY Distinct DEF DeployDrain, BeginScaleDown, tables, runtime, IInv, Operands,
     Operand, At
<1>2. /\ Changes(local[t].fn)
      /\ autoscaler[local[t].fn].state \in {"Active", "ScaledDown"}
      /\ autoscaler'[local[t].fn].state \in {"ScalingDown", "ScalingUp"}
      /\ autoscaler'[local[t].fn].entry = autoscaler[local[t].fn].entry
      /\ autoscaler[local[t].fn].entry \in Handlers
      /\ autoscaler'[local[t].fn].inFlight = autoscaler[local[t].fn].inFlight
  BY <1>1, ClaimDownChanges
<1>3. PICK v \in LocalType :
        /\ v.fn = local[t].fn /\ v.entry = autoscaler[local[t].fn].entry
        /\ v.old = local[t].old /\ v.new = local[t].new
        /\ Moves(t, "downLookup", v)
  BY <1>1, <1>2, ClaimedMoves
<1>4. TypeOK'
  BY <1>1, <1>2, <1>3 DEF TypeOK, Moves, LocalType, RT!TypeOK, Changes
<1>5. Roles' /\ Operands'
  BY <1>1, <1>2, <1>3, Distinct DEF Moves, Role, Operand, IInv, Roles, Operands, At,
     ScaleLabels, DownLabels, UpLabels, MuxLabels
<1>6. Fresh'
  BY <1>1, <1>2, <1>3, EntryTyped, Distinct DEF Moves, Fresh, Holding, Preparing,
     Role, Operand, IInv, Roles, Operands, At, ScaleLabels, DownLabels, UpLabels,
     MuxLabels, Changes
<1>7. Claims'
  BY <1>1, <1>2, <1>3, Distinct DEF Moves, Claims, AS!Scaling, AS!InState, Role,
     Operand, IInv, Roles, Operands, At, ScaleLabels, DownLabels, UpLabels, MuxLabels,
     Changes
<1>8. Counts'
  BY <1>1, <1>2, <1>3, CountsKept, EntryTyped DEF IInv, At, Changes
<1>9. RoutesPickable'
  BY <1>1, <1>2, <1>3 DEF IInv, RoutesPickable, RT!HasRoute
<1> QED BY <1>4, <1>5, <1>6, <1>7, <1>8, <1>9 DEF IInv

LEMMA DeployDrainedInv ==
  ASSUME TypeOK, IInv, NEW t \in Deployers, DeployDrained(t)
  PROVE  TypeOK' /\ IInv'
<1>1. /\ At(t, "drain")
      /\ UNCHANGED <<functionHandlers, routingTable, reverseRoutingTable, autoscaler,
                     handler, deployed, mux>>
      /\ t \in Threads /\ local[t].fn \in Functions /\ local[t].new \in Handlers
  BY Distinct DEF DeployDrained, tables, runtime, IInv, Operands, Operand, At,
     ScaleLabels, DownLabels, UpLabels, MuxLabels
<1>2. PICK label \in {"start", "abort"} : Continue(t, label)
  BY DEF DeployDrained
<1>3. Moves(t, label, local[t])
  BY <1>1, <1>2, ContinueMoves DEF PcLabels
<1>4. TypeOK'
  BY <1>1, <1>2, <1>3 DEF TypeOK, Moves, LocalType, RT!TypeOK, AS!TypeOK
<1>5. LocalMove(t, label, local[t])
  BY <1>1, <1>2, <1>3, Distinct DEF LocalMove, Preparing, Holding, Role, Operand,
     IInv, Roles, Operands, At, ScaleLabels, DownLabels, UpLabels, MuxLabels
<1> QED BY <1>1, <1>2, <1>3, <1>4, <1>5, LocalMoveInv

LEMMA DeployStartInv ==
  ASSUME TypeOK, IInv, NEW t \in Deployers, DeployStart(t)
  PROVE  TypeOK' /\ IInv'
<1>1. /\ At(t, "start")
      /\ UNCHANGED <<functionHandlers, routingTable, reverseRoutingTable, autoscaler,
                     mux>>
      /\ t \in Threads /\ local[t].fn \in Functions /\ local[t].new \in Handlers
  BY Distinct DEF DeployStart, tables, runtime, IInv, Operands, Operand, At,
     ScaleLabels, DownLabels, UpLabels, MuxLabels
<1> DEFINE u == local[t]
           results == StartResults(handler[local[t].new], FreeIPs, replicas)
<1>2. /\ u \in LocalType /\ u.fn = local[t].fn /\ u.entry = local[t].entry
      /\ u.old = local[t].old /\ u.new = local[t].new /\ u.h = local[t].h
  BY <1>1, LocalTyped DEF LocalType
<1>3. Perform("start", local[t].new, results, t, "add", local[t], "abort", u)
  BY DEF DeployStart, StartHandler
<1>4. "add" \in PcLabels /\ "abort" \in PcLabels /\ local[t] \in LocalType
      /\ u \in LocalType /\ t \in Threads /\ local[t].new \in Handlers
  BY <1>1, <1>2, LocalTyped DEF PcLabels
<1>5. \A r \in results : r.ok \in BOOLEAN /\ r.state \in HandlerState(IPs)
  BY <1>1, StartAnswers
<1> HIDE DEF u, results
<1>6. /\ handler' \in [Handlers -> HandlerState(IPs)] /\ UNCHANGED deployed
      /\ Moves(t, "add", local[t]) \/ Moves(t, "abort", u)
  BY <1>3, <1>4, <1>5, PerformMoves
<1>7. PICK v \in LocalType, label \in {"add", "abort"} :
        /\ v.fn = local[t].fn /\ v.entry = local[t].entry
        /\ v.old = local[t].old /\ v.new = local[t].new /\ v.h = local[t].h
        /\ Moves(t, label, v)
  BY <1>2, <1>4, <1>6
<1>8. TypeOK'
  BY <1>1, <1>6, <1>7 DEF TypeOK, Moves, LocalType, RT!TypeOK, AS!TypeOK
<1>9. LocalMove(t, label, v)
  BY <1>1, <1>6, <1>7, Distinct DEF LocalMove, Preparing, Holding, Role, Operand,
     IInv, Roles, Operands, At, ScaleLabels, DownLabels, UpLabels, MuxLabels
<1> QED BY <1>1, <1>6, <1>7, <1>8, <1>9, LocalMoveInv

LEMMA DeployAddInv ==
  ASSUME TypeOK, IInv, NEW t \in Deployers, DeployAdd(t)
  PROVE  TypeOK' /\ IInv'
<1> DEFINE ips == handler[local[t].new].ips
<1>1. /\ At(t, "add")
      /\ UNCHANGED <<functionHandlers, autoscaler, handler, deployed, mux>>
      /\ t \in Threads
      /\ local[t].fn \in Functions
      /\ local[t].new \in Handlers
      /\ RT!Add(local[t].fn, ips)
  BY Distinct DEF DeployAdd, tables, runtime, IInv, Operands, Operand, At,
     ScaleLabels, DownLabels, UpLabels, MuxLabels
<1>2. PICK label \in {"commit", "abort"} : Continue(t, label)
  BY DEF DeployAdd
<1>3. Moves(t, label, local[t])
  BY <1>1, <1>2, ContinueMoves DEF PcLabels
<1>4. ips \in SUBSET IPs
  BY <1>1, HandlerTyped
<1>5. RT!TypeOK' /\ RoutesPickable'
  BY <1>1, <1>4, AddRoutes DEF IInv
<1> HIDE DEF ips
<1>6. TypeOK'
  BY <1>1, <1>2, <1>3, <1>5 DEF TypeOK, Moves, LocalType, AS!TypeOK
<1>7. LocalMove(t, label, local[t])
  BY <1>1, <1>2, <1>3, <1>5, Distinct DEF LocalMove, Preparing, Holding, Role,
     Operand, IInv, Roles, Operands, At, ScaleLabels, DownLabels, UpLabels, MuxLabels
<1> QED BY <1>1, <1>2, <1>3, <1>5, <1>6, <1>7, LocalMoveInv

LEMMA DeployCommitInv ==
  ASSUME TypeOK, IInv, NEW t \in Deployers, DeployCommit(t)
  PROVE  TypeOK' /\ IInv'
<1>1. /\ At(t, "commit")
      /\ UNCHANGED <<routingTable, reverseRoutingTable, autoscaler, handler, deployed,
                     mux>>
      /\ t \in Threads /\ local[t].fn \in Functions /\ local[t].new \in Handlers
  BY Distinct DEF DeployCommit, tables, runtime, IInv, Operands, Operand, At,
     ScaleLabels, DownLabels, UpLabels, MuxLabels
<1>2. functionHandlers' \in [Functions -> Handlers \cup {None}]
  BY <1>1 DEF DeployCommit, TypeOK
<1>3. Moves(t, "register", local[t])
  BY <1>1, ContinueMoves DEF DeployCommit, PcLabels
<1>4. TypeOK'
  BY <1>1, <1>2, <1>3 DEF TypeOK, Moves, LocalType, RT!TypeOK, AS!TypeOK
<1>5. LocalMove(t, "register", local[t])
  BY <1>1, <1>2, <1>3, Distinct DEF LocalMove, Preparing, Holding, Role, Operand,
     IInv, Roles, Operands, At, ScaleLabels, DownLabels, UpLabels, MuxLabels
<1> QED BY <1>1, <1>2, <1>3, <1>4, <1>5, LocalMoveInv

LEMMA DeployRegisterInv ==
  ASSUME TypeOK, IInv, NEW t \in Deployers, DeployRegister(t)
  PROVE  TypeOK' /\ IInv'
<1> DEFINE f == local[t].fn
<1>1. /\ At(t, "register")
      /\ UNCHANGED <<functionHandlers, routingTable, reverseRoutingTable, handler,
                     deployed, mux>>
      /\ t \in Threads /\ f \in Functions /\ local[t].new \in Handlers
  BY Distinct DEF DeployRegister, tables, runtime, IInv, Operands, Operand, At
<1>2. /\ Changes(f)
      /\ \/ /\ autoscaler'[f].state = "Active"
            /\ autoscaler'[f].entry = local[t].new /\ autoscaler'[f].inFlight = 0
         \/ UNCHANGED autoscaler
  BY <1>1, RegisterChanges DEF DeployRegister, Changes, TypeOK, AS!TypeOK
<1>3. PICK v \in LocalType, label \in {"idle", "destroyOld"} :
        /\ Moves(t, label, v)
        /\ (label = "destroyOld" => v = local[t] /\ local[t].old \in Handlers)
  <2>1. CASE local[t].old = None
    <3>1. Moves(t, "idle", Reset)
      BY <1>1, <2>1, ReturnMoves DEF DeployRegister
    <3> QED BY <3>1, ResetTyped
  <2>2. CASE local[t].old # None
    <3>1. Moves(t, "destroyOld", local[t])
      BY <1>1, <2>2, ContinueMoves DEF DeployRegister, PcLabels
    <3>2. local[t] \in LocalType /\ local[t].old \in Handlers
      BY <1>1, <2>2, LocalTyped DEF LocalType
    <3> QED BY <3>1, <3>2
  <2> QED BY <2>1, <2>2
<1>4. f = local[t].fn
  OBVIOUS
<1> HIDE DEF f
<1>5. TypeOK'
  BY <1>1, <1>2, <1>3, <1>4 DEF TypeOK, Moves, LocalType, RT!TypeOK, Changes
<1>6. Roles' /\ Operands'
  BY <1>1, <1>2, <1>3, <1>4, Distinct DEF Moves, Role, Operand, IInv, Roles, Operands,
     At, ScaleLabels, DownLabels, UpLabels, MuxLabels
<1>7. Fresh'
  BY <1>1, <1>2, <1>3, <1>4, EntryTyped, Distinct DEF Moves, Fresh, Holding,
     Preparing, Role, Operand, IInv, Roles, Operands, At, ScaleLabels, DownLabels,
     UpLabels, MuxLabels, Changes
<1>8. Claims'
  BY <1>1, <1>2, <1>3, <1>4, Distinct DEF Moves, Claims, AS!Scaling, AS!InState, Role,
     Operand, IInv, Roles, Operands, At, ScaleLabels, DownLabels, UpLabels, MuxLabels,
     Changes, Fresh, Holding, Preparing
<1>9. Counts'
  BY <1>1, <1>2, <1>3, <1>4, CountsKept, EntryTyped DEF IInv, At, Changes
<1>10. RoutesPickable'
  BY <1>1, <1>2, <1>3, <1>4 DEF IInv, RoutesPickable, RT!HasRoute
<1> QED BY <1>5, <1>6, <1>7, <1>8, <1>9, <1>10 DEF IInv

LEMMA DeployDestroyOldInv ==
  ASSUME TypeOK, IInv, NEW t \in Deployers, DeployDestroyOld(t)
  PROVE  TypeOK' /\ IInv'
<1>1. /\ At(t, "destroyOld")
      /\ UNCHANGED <<functionHandlers, routingTable, reverseRoutingTable, autoscaler,
                     mux>>
      /\ t \in Threads /\ local[t].fn \in Functions /\ local[t].old \in Handlers
  BY Distinct DEF DeployDestroyOld, tables, runtime, IInv, Operands, Operand, At,
     ScaleLabels, DownLabels, UpLabels, MuxLabels
<1>2. Perform("destroy", local[t].old, DestroyResults(handler[local[t].old]), t, "idle",
              Reset, "idle", Reset)
  BY DEF DeployDestroyOld, DestroyHandler
<1>3. \A r \in DestroyResults(handler[local[t].old]) :
        r.ok \in BOOLEAN /\ r.state \in HandlerState(IPs)
  BY <1>1, DestroyAnswers
<1>4. "idle" \in PcLabels
  BY DEF PcLabels
<1>5. /\ handler' \in [Handlers -> HandlerState(IPs)] /\ UNCHANGED deployed
      /\ Moves(t, "idle", Reset)
  BY <1>1, <1>2, <1>3, <1>4, PerformMoves, ResetTyped
<1>6. TypeOK'
  BY <1>1, <1>5 DEF TypeOK, Moves, LocalType, RT!TypeOK, AS!TypeOK
<1>7. LocalMove(t, "idle", Reset)
  BY <1>1, <1>5, Distinct DEF LocalMove, Preparing, Holding, Role, Operand, IInv,
     Roles, Operands, At, ScaleLabels, DownLabels, UpLabels, MuxLabels
<1> QED BY <1>1, <1>5, <1>6, <1>7, LocalMoveInv

LEMMA DeployAbortInv ==
  ASSUME TypeOK, IInv, NEW t \in Deployers, DeployAbort(t)
  PROVE  TypeOK' /\ IInv'
<1>1. /\ At(t, "abort")
      /\ UNCHANGED <<functionHandlers, routingTable, reverseRoutingTable, autoscaler,
                     mux>>
      /\ t \in Threads /\ local[t].fn \in Functions /\ local[t].new \in Handlers
  BY Distinct DEF DeployAbort, tables, runtime, IInv, Operands, Operand, At,
     ScaleLabels, DownLabels, UpLabels, MuxLabels
<1>2. Perform("destroy", local[t].new, DestroyResults(handler[local[t].new]), t, "idle",
              Reset, "idle", Reset)
  BY DEF DeployAbort, DestroyHandler
<1>3. \A r \in DestroyResults(handler[local[t].new]) :
        r.ok \in BOOLEAN /\ r.state \in HandlerState(IPs)
  BY <1>1, DestroyAnswers
<1>4. "idle" \in PcLabels
  BY DEF PcLabels
<1>5. /\ handler' \in [Handlers -> HandlerState(IPs)] /\ UNCHANGED deployed
      /\ Moves(t, "idle", Reset)
  BY <1>1, <1>2, <1>3, <1>4, PerformMoves, ResetTyped
<1>6. TypeOK'
  BY <1>1, <1>5 DEF TypeOK, Moves, LocalType, RT!TypeOK, AS!TypeOK
<1>7. LocalMove(t, "idle", Reset)
  BY <1>1, <1>5, Distinct DEF LocalMove, Preparing, Holding, Role, Operand, IInv,
     Roles, Operands, At, ScaleLabels, DownLabels, UpLabels, MuxLabels
<1> QED BY <1>1, <1>5, <1>6, <1>7, LocalMoveInv

LEMMA DeleteRequestInv ==
  ASSUME TypeOK, IInv, NEW t \in Deleters, DeleteRequest(t)
  PROVE  TypeOK' /\ IInv'
<1>1. /\ At(t, "idle")
      /\ UNCHANGED <<functionHandlers, routingTable, reverseRoutingTable, autoscaler,
                     handler, deployed, mux>>
      /\ t \in Threads
  BY Distinct DEF DeleteRequest, tables, runtime
<1>2. PICK names \in SUBSET Functions : Goto(t, "deleteLock", [Reset EXCEPT !.todo = names])
  BY DEF DeleteRequest
<1> DEFINE v == [Reset EXCEPT !.todo = names]
<1>3. /\ v \in LocalType
      /\ v.fn = None /\ v.old = None /\ v.new = None
      /\ v.h = None /\ v.entry = None /\ v.ips = {}
  BY LocalTyped DEF LocalType, Reset
<1>4. Goto(t, "deleteLock", v) /\ "deleteLock" \in PcLabels
  BY <1>2 DEF PcLabels
<1> HIDE DEF v
<1>5. Moves(t, "deleteLock", v)
  BY <1>1, <1>3, <1>4, GotoMoves
<1>6. TypeOK'
  BY <1>1, <1>3, <1>5 DEF TypeOK, Moves, LocalType, RT!TypeOK, AS!TypeOK
<1>7. LocalMove(t, "deleteLock", v)
  BY <1>1, <1>3, <1>5, Distinct DEF LocalMove, Preparing, Holding, Role, Operand,
     IInv, Roles, Operands, At, ScaleLabels, DownLabels, UpLabels, MuxLabels
<1> QED BY <1>1, <1>3, <1>5, <1>6, <1>7, LocalMoveInv

LEMMA DeleteLockInv ==
  ASSUME TypeOK, IInv, NEW t \in Deleters, DeleteLock(t)
  PROVE  TypeOK' /\ IInv'
<1>1. /\ At(t, "deleteLock")
      /\ UNCHANGED <<functionHandlers, routingTable, reverseRoutingTable, autoscaler,
                     handler, deployed>>
      /\ t \in Threads
  BY Distinct DEF DeleteLock, tables, runtime
<1>2. PICK f \in local[t].todo :
        \/ NextDelete(t, f) /\ UNCHANGED mux
        \/ /\ functionHandlers[f] # None /\ mux' = t
           /\ Goto(t, "deleteDestroy", [local[t] EXCEPT !.fn = f, !.h = functionHandlers[f]])
  BY DEF DeleteLock
<1>3. f \in Functions /\ functionHandlers[f] \in Handlers \cup {None}
  <2>1. f \in Functions
    BY <1>1, <1>2, LocalTyped DEF LocalType
  <2> QED BY <2>1 DEF TypeOK
<1>4. CASE NextDelete(t, f) /\ UNCHANGED mux
  <2>1. PICK v \in LocalType, label \in {"idle", "deleteLock"} : Moves(t, label, v)
    BY <1>1, <1>3, <1>4, NextDeleteMoves
  <2>2. TypeOK'
    BY <1>1, <1>4, <2>1 DEF TypeOK, Moves, LocalType, RT!TypeOK, AS!TypeOK
  <2>3. LocalMove(t, label, v)
    BY <1>1, <1>4, <2>1, Distinct DEF LocalMove, Preparing, Holding, Role, Operand,
       IInv, Roles, Operands, At, ScaleLabels, DownLabels, UpLabels, MuxLabels
  <2> QED BY <1>1, <1>4, <2>1, <2>2, <2>3, LocalMoveInv
<1>5. CASE /\ functionHandlers[f] # None /\ mux' = t
           /\ Goto(t, "deleteDestroy", [local[t] EXCEPT !.fn = f, !.h = functionHandlers[f]])
  <2>0. functionHandlers[f] \in Handlers
    BY <1>3, <1>5
  <2> DEFINE v == [local[t] EXCEPT !.fn = f, !.h = functionHandlers[f]]
  <2>1. /\ v \in LocalType
        /\ v.fn = f /\ v.old = local[t].old /\ v.new = local[t].new
        /\ v.h = functionHandlers[f] /\ v.entry = local[t].entry /\ v.ips = local[t].ips
    BY <1>1, <1>3, LocalTyped DEF LocalType
  <2>2. Goto(t, "deleteDestroy", v) /\ "deleteDestroy" \in PcLabels
    BY <1>5 DEF PcLabels
  <2> HIDE DEF v
  <2>3. Moves(t, "deleteDestroy", v)
    BY <1>1, <2>1, <2>2, GotoMoves
  <2>4. TypeOK'
    BY <1>1, <1>3, <1>5, <2>0, <2>1, <2>3 DEF TypeOK, Moves, LocalType, RT!TypeOK,
       AS!TypeOK
  <2>5. LocalMove(t, "deleteDestroy", v)
    BY <1>1, <1>3, <1>5, <2>0, <2>1, <2>3, Distinct DEF LocalMove, Preparing,
       Holding, Role, Operand, IInv, Roles, Operands, At, ScaleLabels, DownLabels,
       UpLabels, MuxLabels
  <2> QED BY <1>1, <1>3, <1>5, <2>0, <2>1, <2>3, <2>4, <2>5, LocalMoveInv
<1> QED BY <1>2, <1>4, <1>5

LEMMA DeleteDestroyInv ==
  ASSUME TypeOK, IInv, NEW t \in Deleters, DeleteDestroy(t)
  PROVE  TypeOK' /\ IInv'
<1>1. /\ At(t, "deleteDestroy")
      /\ UNCHANGED <<functionHandlers, routingTable, reverseRoutingTable, autoscaler,
                     mux>>
      /\ t \in Threads /\ local[t].fn \in Functions /\ local[t].h \in Handlers
  BY Distinct DEF DeleteDestroy, tables, runtime, IInv, Operands, Operand, At,
     ScaleLabels, DownLabels, UpLabels, MuxLabels
<1> DEFINE u == local[t]
           results == DestroyResults(handler[local[t].h])
<1>2. /\ u \in LocalType /\ u.fn = local[t].fn /\ u.entry = local[t].entry
      /\ u.old = local[t].old /\ u.new = local[t].new /\ u.h = local[t].h
  BY <1>1, LocalTyped DEF LocalType
<1>3. Perform("destroy", local[t].h, results, t, "deleteRoute", local[t],
              "deleteFailed", u)
  BY DEF DeleteDestroy, DestroyHandler
<1>4. /\ "deleteRoute" \in PcLabels
      /\ "deleteFailed" \in PcLabels
      /\ local[t] \in LocalType
      /\ u \in LocalType /\ t \in Threads /\ local[t].h \in Handlers
  BY <1>1, <1>2, LocalTyped DEF PcLabels
<1>5. \A r \in results : r.ok \in BOOLEAN /\ r.state \in HandlerState(IPs)
  BY <1>1, DestroyAnswers
<1> HIDE DEF u, results
<1>6. /\ handler' \in [Handlers -> HandlerState(IPs)] /\ UNCHANGED deployed
      /\ Moves(t, "deleteRoute", local[t]) \/ Moves(t, "deleteFailed", u)
  BY <1>3, <1>4, <1>5, PerformMoves
<1>7. PICK v \in LocalType, label \in {"deleteRoute", "deleteFailed"} :
        /\ v.fn = local[t].fn /\ v.entry = local[t].entry
        /\ v.old = local[t].old /\ v.new = local[t].new /\ v.h = local[t].h
        /\ Moves(t, label, v)
  BY <1>2, <1>4, <1>6
<1>8. TypeOK'
  BY <1>1, <1>6, <1>7 DEF TypeOK, Moves, LocalType, RT!TypeOK, AS!TypeOK
<1>9. LocalMove(t, label, v)
  BY <1>1, <1>6, <1>7, Distinct DEF LocalMove, Preparing, Holding, Role, Operand,
     IInv, Roles, Operands, At, ScaleLabels, DownLabels, UpLabels, MuxLabels
<1> QED BY <1>1, <1>6, <1>7, <1>8, <1>9, LocalMoveInv

LEMMA DeleteFailedInv ==
  ASSUME TypeOK, IInv, NEW t \in Deleters, DeleteFailed(t)
  PROVE  TypeOK' /\ IInv'
<1>1. /\ At(t, "deleteFailed")
      /\ UNCHANGED <<functionHandlers, routingTable, reverseRoutingTable, autoscaler,
                     handler, deployed>>
      /\ t \in Threads /\ local[t].fn \in Functions /\ mux' = None
  BY Distinct DEF DeleteFailed, tables, runtime, IInv, Operands, Operand, At, MuxLabels
<1>2. PICK v \in LocalType, label \in {"idle", "deleteLock"} : Moves(t, label, v)
  BY <1>1, NextDeleteMoves DEF DeleteFailed
<1>3. TypeOK'
  BY <1>1, <1>2 DEF TypeOK, Moves, LocalType, RT!TypeOK, AS!TypeOK
<1>4. LocalMove(t, label, v)
  BY <1>1, <1>2, Distinct DEF LocalMove, Preparing, Holding, Role, Operand, IInv,
     Roles, Operands, At, ScaleLabels, DownLabels, UpLabels, MuxLabels
<1> QED BY <1>1, <1>2, <1>3, <1>4, LocalMoveInv

LEMMA DeleteRouteInv ==
  ASSUME TypeOK, IInv, NEW t \in Deleters, DeleteRoute(t)
  PROVE  TypeOK' /\ IInv'
<1>1. /\ At(t, "deleteRoute")
      /\ UNCHANGED <<functionHandlers, autoscaler, handler, deployed, mux>>
      /\ t \in Threads
      /\ local[t].fn \in Functions
      /\ local[t].h \in Handlers
      /\ RT!Del(local[t].fn)
  BY Distinct DEF DeleteRoute, tables, runtime, IInv, Operands, Operand, At,
     ScaleLabels, DownLabels, UpLabels, MuxLabels
<1>2. Moves(t, "deleteFinish", local[t])
  BY <1>1, ContinueMoves DEF DeleteRoute, PcLabels
<1>3. RT!TypeOK' /\ RoutesPickable'
  BY <1>1, DelRoutes DEF IInv
<1>4. TypeOK'
  BY <1>1, <1>2, <1>3 DEF TypeOK, Moves, LocalType, AS!TypeOK
<1>5. LocalMove(t, "deleteFinish", local[t])
  BY <1>1, <1>2, <1>3, Distinct DEF LocalMove, Preparing, Holding, Role, Operand,
     IInv, Roles, Operands, At, ScaleLabels, DownLabels, UpLabels, MuxLabels
<1> QED BY <1>1, <1>2, <1>3, <1>4, <1>5, LocalMoveInv

LEMMA DeleteFinishInv ==
  ASSUME TypeOK, IInv, NEW t \in Deleters, DeleteFinish(t)
  PROVE  TypeOK' /\ IInv'
<1> DEFINE f == local[t].fn
<1>1. /\ At(t, "deleteFinish")
      /\ UNCHANGED <<routingTable, reverseRoutingTable, handler, deployed>>
      /\ t \in Threads /\ f \in Functions /\ mux' = None
      /\ functionHandlers' = [functionHandlers EXCEPT ![f] = None]
      /\ AS!UnregisterFunction(f)
  BY Distinct DEF DeleteFinish, tables, runtime, IInv, Operands, Operand, At, MuxLabels
<1>2. PICK v \in LocalType, label \in {"idle", "deleteLock"} : Moves(t, label, v)
  BY <1>1, NextDeleteMoves DEF DeleteFinish
<1>3. /\ Changes(f) /\ autoscaler'[f].state = "Unregistered"
      /\ autoscaler'[f].entry = None /\ autoscaler'[f].inFlight = 0
  BY <1>1, UnregisterChanges
<1>4. functionHandlers' \in [Functions -> Handlers \cup {None}]
  BY <1>1 DEF TypeOK
<1> HIDE DEF f
<1>5. TypeOK'
  BY <1>1, <1>2, <1>3, <1>4 DEF TypeOK, Moves, LocalType, RT!TypeOK, Changes
<1>6. Roles' /\ Operands'
  BY <1>1, <1>2, <1>3, <1>4, Distinct DEF Moves, Role, Operand, IInv, Roles, Operands,
     At, ScaleLabels, DownLabels, UpLabels, MuxLabels
<1>7. Fresh'
  BY <1>1, <1>2, <1>3, <1>4, EntryTyped, Distinct DEF Moves, Fresh, Holding,
     Preparing, Role, Operand, IInv, Roles, Operands, At, ScaleLabels, DownLabels,
     UpLabels, MuxLabels, Changes
<1>8. Claims'
  BY <1>1, <1>2, <1>3, <1>4, Distinct DEF Moves, Claims, AS!Scaling, AS!InState, Role,
     Operand, IInv, Roles, Operands, At, ScaleLabels, DownLabels, UpLabels, MuxLabels,
     Changes
<1>9. Counts'
  BY <1>1, <1>2, <1>3, <1>4, CountsKept, EntryTyped DEF IInv, At, Changes
<1>10. RoutesPickable'
  BY <1>1, <1>2, <1>3, <1>4 DEF IInv, RoutesPickable, RT!HasRoute
<1> QED BY <1>5, <1>6, <1>7, <1>8, <1>9, <1>10 DEF IInv

LEMMA CallSnapshotInv ==
  ASSUME TypeOK, IInv, NEW t \in Callers, NEW f \in Functions, CallSnapshot(t, f)
  PROVE  TypeOK' /\ IInv'
<1>1. /\ At(t, "idle")
      /\ UNCHANGED <<functionHandlers, routingTable, reverseRoutingTable, autoscaler,
                     handler, deployed, mux>>
      /\ t \in Threads
  BY Distinct DEF CallSnapshot, tables, runtime
<1>2. PICK label \in {"begin", "coldStart"} :
        /\ Goto(t, label, [Reset EXCEPT !.fn = f, !.ips = routingTable[f].ips])
        /\ label = "begin" => routingTable[f].ips # {}
  BY DEF CallSnapshot, Ready
<1>3. routingTable[f].ips \in SUBSET IPs
  BY DEF CallSnapshot, RT!HasRoute, TypeOK, RT!TypeOK, RT!Routes
<1> DEFINE v == [Reset EXCEPT !.fn = f, !.ips = routingTable[f].ips]
<1>4. /\ v \in LocalType
      /\ v.fn = f /\ v.old = None /\ v.new = None
      /\ v.h = None /\ v.entry = None /\ v.ips = routingTable[f].ips
  BY <1>3, LocalTyped DEF LocalType, Reset
<1>5. Goto(t, label, v) /\ label \in PcLabels
  BY <1>2 DEF PcLabels
<1> HIDE DEF v
<1>6. Moves(t, label, v)
  BY <1>1, <1>4, <1>5, GotoMoves
<1>7. TypeOK'
  BY <1>1, <1>2, <1>4, <1>6 DEF TypeOK, Moves, LocalType, RT!TypeOK, AS!TypeOK
<1>8. LocalMove(t, label, v)
  BY <1>1, <1>2, <1>4, <1>6, Distinct DEF LocalMove, Preparing, Holding, Role,
     Operand, IInv, Roles, Operands, At, ScaleLabels, DownLabels, UpLabels, MuxLabels
<1> QED BY <1>1, <1>2, <1>4, <1>6, <1>7, <1>8, LocalMoveInv

LEMMA CallColdStartInv ==
  ASSUME TypeOK, IInv, NEW t \in Callers, CallColdStart(t)
  PROVE  TypeOK' /\ IInv'
<1>1. /\ At(t, "coldStart")
      /\ UNCHANGED <<functionHandlers, routingTable, reverseRoutingTable, handler,
                     deployed, mux>>
      /\ t \in Threads /\ local[t].fn \in Functions
      /\ AS!ClaimScaleUp(local[t].fn) /\ Claimed(t, local[t].fn, "upLookup")
  BY Distinct DEF CallColdStart, BeginScaleUp, tables, runtime, IInv, Operands,
     Operand, At
<1>2. /\ Changes(local[t].fn)
      /\ autoscaler[local[t].fn].state \in {"Active", "ScaledDown"}
      /\ autoscaler'[local[t].fn].state \in {"ScalingDown", "ScalingUp"}
      /\ autoscaler'[local[t].fn].entry = autoscaler[local[t].fn].entry
      /\ autoscaler[local[t].fn].entry \in Handlers
      /\ autoscaler'[local[t].fn].inFlight = autoscaler[local[t].fn].inFlight
  BY <1>1, ClaimUpChanges
<1>3. PICK v \in LocalType :
        /\ v.fn = local[t].fn /\ v.entry = autoscaler[local[t].fn].entry
        /\ v.old = local[t].old /\ v.new = local[t].new
        /\ Moves(t, "upLookup", v)
  BY <1>1, <1>2, ClaimedMoves
<1>4. TypeOK'
  BY <1>1, <1>2, <1>3 DEF TypeOK, Moves, LocalType, RT!TypeOK, Changes
<1>5. Roles' /\ Operands'
  BY <1>1, <1>2, <1>3, Distinct DEF Moves, Role, Operand, IInv, Roles, Operands, At,
     ScaleLabels, DownLabels, UpLabels, MuxLabels
<1>6. Fresh'
  BY <1>1, <1>2, <1>3, EntryTyped, Distinct DEF Moves, Fresh, Holding, Preparing,
     Role, Operand, IInv, Roles, Operands, At, ScaleLabels, DownLabels, UpLabels,
     MuxLabels, Changes
<1>7. Claims'
  BY <1>1, <1>2, <1>3, Distinct DEF Moves, Claims, AS!Scaling, AS!InState, Role,
     Operand, IInv, Roles, Operands, At, ScaleLabels, DownLabels, UpLabels, MuxLabels,
     Changes
<1>8. Counts'
  BY <1>1, <1>2, <1>3, CountsKept, EntryTyped DEF IInv, At, Changes
<1>9. RoutesPickable'
  BY <1>1, <1>2, <1>3 DEF IInv, RoutesPickable, RT!HasRoute
<1> QED BY <1>4, <1>5, <1>6, <1>7, <1>8, <1>9 DEF IInv

LEMMA CallColdStartedInv ==
  ASSUME TypeOK, IInv, NEW t \in Callers, CallColdStarted(t)
  PROVE  TypeOK' /\ IInv'
<1>1. /\ At(t, "coldStart")
      /\ UNCHANGED <<functionHandlers, routingTable, reverseRoutingTable, autoscaler,
                     handler, deployed, mux>>
      /\ t \in Threads /\ local[t].fn \in Functions
  BY Distinct DEF CallColdStarted, tables, runtime, IInv, Operands, Operand, At,
     ScaleLabels, DownLabels, UpLabels, MuxLabels
<1>2. Return(t) \/ Continue(t, "waitRoute")
  BY DEF CallColdStarted
<1>3. PICK v \in LocalType, label \in {"idle", "waitRoute"} :
        Moves(t, label, v) /\ (label = "waitRoute" => v.fn = local[t].fn)
  BY <1>1, <1>2, ReturnMoves, ContinueMoves, ResetTyped, LocalTyped DEF PcLabels
<1>4. TypeOK'
  BY <1>1, <1>3 DEF TypeOK, Moves, LocalType, RT!TypeOK, AS!TypeOK
<1>5. LocalMove(t, label, v)
  BY <1>1, <1>3, Distinct DEF LocalMove, Preparing, Holding, Role, Operand, IInv,
     Roles, Operands, At, ScaleLabels, DownLabels, UpLabels, MuxLabels
<1> QED BY <1>1, <1>3, <1>4, <1>5, LocalMoveInv

LEMMA CallWaitRouteInv ==
  ASSUME TypeOK, IInv, NEW t \in Callers, CallWaitRoute(t)
  PROVE  TypeOK' /\ IInv'
<1>1. /\ At(t, "waitRoute")
      /\ UNCHANGED <<functionHandlers, routingTable, reverseRoutingTable, autoscaler,
                     handler, deployed, mux>>
      /\ t \in Threads /\ local[t].fn \in Functions
  BY Distinct DEF CallWaitRoute, tables, runtime, IInv, Operands, Operand, At,
     ScaleLabels, DownLabels, UpLabels, MuxLabels
<1> DEFINE f == local[t].fn
<1>2. CASE RT!HasRoute(f) /\ Ready(routingTable[f])
  <2>0. routingTable[f].ips \in SUBSET IPs /\ routingTable[f].ips # {}
    BY <1>2 DEF Ready, RT!HasRoute, TypeOK, RT!TypeOK, RT!Routes
  <2> DEFINE v == [local[t] EXCEPT !.ips = routingTable[f].ips]
  <2>1. /\ v \in LocalType
        /\ v.fn = local[t].fn /\ v.old = local[t].old /\ v.new = local[t].new
        /\ v.h = local[t].h /\ v.entry = local[t].entry /\ v.ips = routingTable[f].ips
    BY <1>1, <2>0, LocalTyped DEF LocalType
  <2>2. Goto(t, "begin", v) /\ "begin" \in PcLabels
    BY <1>2 DEF CallWaitRoute, PcLabels
  <2> HIDE DEF v
  <2>3. Moves(t, "begin", v)
    BY <1>1, <2>1, <2>2, GotoMoves
  <2> HIDE DEF f
  <2>4. TypeOK'
    BY <1>1, <2>0, <2>1, <2>3 DEF TypeOK, Moves, LocalType, RT!TypeOK, AS!TypeOK
  <2>5. LocalMove(t, "begin", v)
    BY <1>1, <2>0, <2>1, <2>3, Distinct DEF LocalMove, Preparing, Holding, Role,
       Operand, IInv, Roles, Operands, At, ScaleLabels, DownLabels, UpLabels,
       MuxLabels
  <2> QED BY <1>1, <2>0, <2>1, <2>3, <2>4, <2>5, LocalMoveInv
<1>3. CASE ~(RT!HasRoute(f) /\ Ready(routingTable[f]))
  <2>1. Moves(t, "idle", Reset)
    BY <1>1, <1>3, ReturnMoves DEF CallWaitRoute
  <2>2. TypeOK'
    BY <1>1, <2>1 DEF TypeOK, Moves, LocalType, RT!TypeOK, AS!TypeOK
  <2>3. LocalMove(t, "idle", Reset)
    BY <1>1, <2>1, Distinct DEF LocalMove, Preparing, Holding, Role, Operand, IInv,
       Roles, Operands, At, ScaleLabels, DownLabels, UpLabels, MuxLabels
  <2> QED BY <1>1, <2>1, <2>2, <2>3, LocalMoveInv
<1> QED BY <1>2, <1>3

LEMMA CallBeginInv ==
  ASSUME TypeOK, IInv, NEW t \in Callers, CallBegin(t)
  PROVE  TypeOK' /\ IInv'
<1> DEFINE f == local[t].fn
<1>1. /\ At(t, "begin")
      /\ UNCHANGED <<functionHandlers, routingTable, reverseRoutingTable, handler,
                     deployed, mux>>
      /\ t \in Threads /\ f \in Functions
  BY Distinct DEF CallBegin, tables, runtime, IInv, Operands, Operand, At
<1>2. PICK ip \in local[t].ips : Goto(t, "http", [local[t] EXCEPT !.ip = ip, !.ips = {}])
  BY DEF CallBegin
<1>3. ip \in IPs
  BY <1>1, <1>2, LocalTyped DEF LocalType
<1> DEFINE v == [local[t] EXCEPT !.ip = ip, !.ips = {}]
<1>4. /\ v \in LocalType
      /\ v.fn = local[t].fn /\ v.old = local[t].old /\ v.new = local[t].new
      /\ v.h = local[t].h /\ v.entry = local[t].entry /\ v.ips = {}
  BY <1>1, <1>3, LocalTyped DEF LocalType
<1>5. Goto(t, "http", v) /\ "http" \in PcLabels
  BY <1>2 DEF PcLabels
<1> HIDE DEF v
<1>6. Moves(t, "http", v)
  BY <1>1, <1>4, <1>5, GotoMoves
<1>7. /\ Changes(f) /\ autoscaler'[f].state = autoscaler[f].state
      /\ autoscaler'[f].entry = autoscaler[f].entry
      /\ autoscaler'[f].inFlight \in {autoscaler[f].inFlight, autoscaler[f].inFlight + 1}
      /\ ~AutoscalerEnabled => UNCHANGED autoscaler
  BY <1>1, StartChanges, SettingsAssumption DEF CallBegin, Changes, TypeOK, AS!TypeOK
<1>8. f = local[t].fn
  OBVIOUS
<1> HIDE DEF f
<1>9. Counts'
  BY <1>1, <1>4, <1>6, <1>7, <1>8, CountsBegin DEF IInv
<1>10. TypeOK'
  BY <1>1, <1>4, <1>6, <1>7, <1>8 DEF TypeOK, Moves, LocalType, RT!TypeOK, Changes
<1>11. Roles' /\ Operands'
  BY <1>1, <1>4, <1>6, <1>7, <1>8, Distinct DEF Moves, Role, Operand, IInv, Roles,
     Operands, At, ScaleLabels, DownLabels, UpLabels, MuxLabels
<1>12. Fresh'
  BY <1>1, <1>4, <1>6, <1>7, <1>8, EntryTyped, Distinct DEF Moves, Fresh, Holding,
     Preparing, Role, Operand, IInv, Roles, Operands, At, ScaleLabels, DownLabels,
     UpLabels, MuxLabels, Changes
<1>13. Claims'
  BY <1>1, <1>4, <1>6, <1>7, <1>8, Distinct DEF Moves, Claims, AS!Scaling, AS!InState,
     Role, Operand, IInv, Roles, Operands, At, ScaleLabels, DownLabels, UpLabels,
     MuxLabels, Changes
<1>14. Counts'
  BY <1>9
<1>15. RoutesPickable'
  BY <1>1, <1>4, <1>6, <1>7, <1>8 DEF IInv, RoutesPickable, RT!HasRoute
<1> QED BY <1>10, <1>11, <1>12, <1>13, <1>14, <1>15 DEF IInv

LEMMA CallRefusedInv ==
  ASSUME TypeOK, IInv, NEW t \in Callers, CallRefused(t)
  PROVE  TypeOK' /\ IInv'
<1>1. /\ At(t, "begin")
      /\ UNCHANGED <<functionHandlers, routingTable, reverseRoutingTable, autoscaler,
                     handler, deployed, mux>>
      /\ t \in Threads /\ local[t].fn \in Functions
  BY Distinct DEF CallRefused, tables, runtime, IInv, Operands, Operand, At,
     ScaleLabels, DownLabels, UpLabels, MuxLabels
<1>2. Moves(t, "idle", Reset)
  BY <1>1, ReturnMoves DEF CallRefused
<1>3. TypeOK'
  BY <1>1, <1>2 DEF TypeOK, Moves, LocalType, RT!TypeOK, AS!TypeOK
<1>4. LocalMove(t, "idle", Reset)
  BY <1>1, <1>2, Distinct DEF LocalMove, Preparing, Holding, Role, Operand, IInv,
     Roles, Operands, At, ScaleLabels, DownLabels, UpLabels, MuxLabels
<1> QED BY <1>1, <1>2, <1>3, <1>4, LocalMoveInv

LEMMA CallFinishInv ==
  ASSUME TypeOK, IInv, NEW t \in Callers, CallFinish(t)
  PROVE  TypeOK' /\ IInv'
<1> DEFINE f == local[t].fn
<1>1. /\ At(t, "http")
      /\ UNCHANGED <<functionHandlers, routingTable, reverseRoutingTable, handler,
                     deployed, mux>>
      /\ t \in Threads /\ f \in Functions
  BY Distinct DEF CallFinish, tables, runtime, IInv, Operands, Operand, At
<1>2. Moves(t, "idle", Reset)
  BY <1>1, ReturnMoves DEF CallFinish
<1>3. /\ Changes(f) /\ autoscaler'[f].state = autoscaler[f].state
      /\ autoscaler'[f].entry = autoscaler[f].entry
  BY <1>1, EndChanges DEF CallFinish, Changes, TypeOK, AS!TypeOK
<1>4. /\ AutoscalerEnabled => autoscaler'[f].inFlight =
           IF autoscaler[f].inFlight > 0 THEN autoscaler[f].inFlight - 1 ELSE 0
      /\ ~AutoscalerEnabled => UNCHANGED autoscaler
  BY <1>1, EndChanges DEF CallFinish
<1>5. f = local[t].fn
  OBVIOUS
<1> HIDE DEF f
<1>6. Counts'
  BY <1>1, <1>2, <1>3, <1>4, <1>5, CountsEnd DEF IInv
<1>7. TypeOK'
  BY <1>1, <1>2, <1>3, <1>4, <1>5 DEF TypeOK, Moves, LocalType, RT!TypeOK, Changes
<1>8. Roles' /\ Operands'
  BY <1>1, <1>2, <1>3, <1>4, <1>5, Distinct DEF Moves, Role, Operand, IInv, Roles,
     Operands, At, ScaleLabels, DownLabels, UpLabels, MuxLabels
<1>9. Fresh'
  BY <1>1, <1>2, <1>3, <1>4, <1>5, EntryTyped, Distinct DEF Moves, Fresh, Holding,
     Preparing, Role, Operand, IInv, Roles, Operands, At, ScaleLabels, DownLabels,
     UpLabels, MuxLabels, Changes
<1>10. Claims'
  BY <1>1, <1>2, <1>3, <1>4, <1>5, Distinct DEF Moves, Claims, AS!Scaling, AS!InState,
     Role, Operand, IInv, Roles, Operands, At, ScaleLabels, DownLabels, UpLabels,
     MuxLabels, Changes
<1>11. Counts'
  BY <1>6
<1>12. RoutesPickable'
  BY <1>1, <1>2, <1>3, <1>4, <1>5 DEF IInv, RoutesPickable, RT!HasRoute
<1> QED BY <1>7, <1>8, <1>9, <1>10, <1>11, <1>12 DEF IInv

LEMMA IdleScaleDownInv ==
  ASSUME TypeOK, IInv, NEW t \in Scalers, NEW f \in Functions, IdleScaleDown(t, f)
  PROVE  TypeOK' /\ IInv'
<1>1. /\ At(t, "idle")
      /\ UNCHANGED <<functionHandlers, routingTable, reverseRoutingTable, handler,
                     deployed, mux>>
      /\ t \in Threads /\ f \in Functions
      /\ AS!ClaimScaleDown(f) /\ Claimed(t, f, "downLookup")
  BY Distinct DEF IdleScaleDown, BeginScaleDown, tables, runtime, IInv, Operands,
     Operand, At
<1>2. /\ Changes(f)
      /\ autoscaler[f].state \in {"Active", "ScaledDown"}
      /\ autoscaler'[f].state \in {"ScalingDown", "ScalingUp"}
      /\ autoscaler'[f].entry = autoscaler[f].entry /\ autoscaler[f].entry \in Handlers
      /\ autoscaler'[f].inFlight = autoscaler[f].inFlight
  BY <1>1, ClaimDownChanges
<1>3. PICK v \in LocalType :
        /\ v.fn = f /\ v.entry = autoscaler[f].entry
        /\ v.old = local[t].old /\ v.new = local[t].new
        /\ Moves(t, "downLookup", v)
  BY <1>1, <1>2, ClaimedMoves
<1>4. TypeOK'
  BY <1>1, <1>2, <1>3 DEF TypeOK, Moves, LocalType, RT!TypeOK, Changes
<1>5. Roles' /\ Operands'
  BY <1>1, <1>2, <1>3, Distinct DEF Moves, Role, Operand, IInv, Roles, Operands, At,
     ScaleLabels, DownLabels, UpLabels, MuxLabels
<1>6. Fresh'
  BY <1>1, <1>2, <1>3, EntryTyped, Distinct DEF Moves, Fresh, Holding, Preparing,
     Role, Operand, IInv, Roles, Operands, At, ScaleLabels, DownLabels, UpLabels,
     MuxLabels, Changes
<1>7. Claims'
  BY <1>1, <1>2, <1>3, Distinct DEF Moves, Claims, AS!Scaling, AS!InState, Role,
     Operand, IInv, Roles, Operands, At, ScaleLabels, DownLabels, UpLabels, MuxLabels,
     Changes
<1>8. Counts'
  BY <1>1, <1>2, <1>3, CountsKept, EntryTyped DEF IInv, At, Changes
<1>9. RoutesPickable'
  BY <1>1, <1>2, <1>3 DEF IInv, RoutesPickable, RT!HasRoute
<1> QED BY <1>4, <1>5, <1>6, <1>7, <1>8, <1>9 DEF IInv

LEMMA PrewarmInv ==
  ASSUME TypeOK, IInv, NEW t \in Scalers, NEW f \in Functions, Prewarm(t, f)
  PROVE  TypeOK' /\ IInv'
<1>1. /\ At(t, "idle")
      /\ UNCHANGED <<functionHandlers, routingTable, reverseRoutingTable, handler,
                     deployed, mux>>
      /\ t \in Threads /\ f \in Functions
      /\ AS!ClaimScaleUp(f) /\ Claimed(t, f, "upLookup")
  BY Distinct DEF Prewarm, BeginScaleUp, tables, runtime, IInv, Operands, Operand, At
<1>2. /\ Changes(f)
      /\ autoscaler[f].state \in {"Active", "ScaledDown"}
      /\ autoscaler'[f].state \in {"ScalingDown", "ScalingUp"}
      /\ autoscaler'[f].entry = autoscaler[f].entry /\ autoscaler[f].entry \in Handlers
      /\ autoscaler'[f].inFlight = autoscaler[f].inFlight
  BY <1>1, ClaimUpChanges
<1>3. PICK v \in LocalType :
        /\ v.fn = f /\ v.entry = autoscaler[f].entry
        /\ v.old = local[t].old /\ v.new = local[t].new
        /\ Moves(t, "upLookup", v)
  BY <1>1, <1>2, ClaimedMoves
<1>4. TypeOK'
  BY <1>1, <1>2, <1>3 DEF TypeOK, Moves, LocalType, RT!TypeOK, Changes
<1>5. Roles' /\ Operands'
  BY <1>1, <1>2, <1>3, Distinct DEF Moves, Role, Operand, IInv, Roles, Operands, At,
     ScaleLabels, DownLabels, UpLabels, MuxLabels
<1>6. Fresh'
  BY <1>1, <1>2, <1>3, EntryTyped, Distinct DEF Moves, Fresh, Holding, Preparing,
     Role, Operand, IInv, Roles, Operands, At, ScaleLabels, DownLabels, UpLabels,
     MuxLabels, Changes
<1>7. Claims'
  BY <1>1, <1>2, <1>3, Distinct DEF Moves, Claims, AS!Scaling, AS!InState, Role,
     Operand, IInv, Roles, Operands, At, ScaleLabels, DownLabels, UpLabels, MuxLabels,
     Changes
<1>8. Counts'
  BY <1>1, <1>2, <1>3, CountsKept, EntryTyped DEF IInv, At, Changes
<1>9. RoutesPickable'
  BY <1>1, <1>2, <1>3 DEF IInv, RoutesPickable, RT!HasRoute
<1> QED BY <1>4, <1>5, <1>6, <1>7, <1>8, <1>9 DEF IInv

-----------------------------------------------------------------------------
(* The invariant holds initially and after every step. *)

LEMMA InitInv == Init => TypeOK /\ IInv
<1> SUFFICES ASSUME Init PROVE TypeOK /\ IInv
  OBVIOUS
<1>1. \A t \in Threads : pc[t] = "idle" /\ local[t] = Reset
  BY DEF Init
<1>2. \A f \in Functions : autoscaler[f] = AS!Unregistered
  BY DEF Init, AS!Init
<1>3. \A f \in Functions : ~RT!HasRoute(f)
  BY DEF Init, RT!Init, RT!HasRoute
<1>4. TypeOK
  <2>1. RT!TypeOK
    BY DEF Init, RT!Init, RT!TypeOK
  <2>2. AS!TypeOK
    BY DEF Init, AS!Init, AS!TypeOK
  <2>3. handler \in [Handlers -> HandlerState(IPs)]
    BY StateTyped DEF Init, Phase
  <2>4. pc \in [Threads -> PcLabels] /\ local \in [Threads -> LocalType]
    BY ResetTyped DEF Init, PcLabels
  <2> QED BY <2>1, <2>2, <2>3, <2>4 DEF Init, TypeOK, LocalType
<1>5. Roles /\ Operands
  BY <1>1, Distinct DEF Roles, Role, Operands, Operand, ScaleLabels, MuxLabels
<1>6. Fresh /\ Claims
  BY <1>1, <1>2, Distinct DEF Fresh, Holding, Preparing, Claims, AS!Scaling, AS!InState,
     AS!Unregistered, ScaleLabels
<1>7. Counts
  BY <1>2, ServingFinite DEF Counts, InFlightNotLeaked, AS!Unregistered
<1>8. RoutesPickable
  BY <1>3 DEF RoutesPickable
<1> QED BY <1>4, <1>5, <1>6, <1>7, <1>8 DEF IInv

LEMMA StutterInv ==
  ASSUME TypeOK, IInv, UNCHANGED vars
  PROVE  TypeOK' /\ IInv'
<1> USE DEF vars, tables, runtime
<1>1. TypeOK'
  BY DEF TypeOK, RT!TypeOK, AS!TypeOK
<1>2. Roles' /\ Operands'
  BY DEF IInv, Roles, Operands
<1>3. Fresh' /\ Claims'
  BY DEF IInv, Fresh, Holding, Claims, AS!Scaling, AS!InState
<1>4. Counts' /\ RoutesPickable'
  BY DEF IInv, Counts, InFlightNotLeaked, Serving, RoutesPickable, RT!HasRoute, At
<1> QED BY <1>1, <1>2, <1>3, <1>4 DEF IInv

LEMMA StepInv ==
  ASSUME TypeOK, IInv, [Next]_vars
  PROVE  TypeOK' /\ IInv'
<1>1. CASE UNCHANGED vars
  BY <1>1, StutterInv
<1>2. CASE Request
  BY <1>2, DeployLookupInv, CallSnapshotInv, IdleScaleDownInv, PrewarmInv DEF Request
<1>3. ASSUME NEW t \in Deployers, DeployStep(t)
      PROVE  TypeOK' /\ IInv'
  BY <1>3, DeployCreateInv, DeployDrainInv, DeployDrainedInv, DeployStartInv,
     DeployAddInv,
     DeployCommitInv, DeployRegisterInv, DeployDestroyOldInv, DeployAbortInv DEF DeployStep
<1>4. ASSUME NEW t \in Deleters, DeleteRequest(t) \/ DeleteStep(t)
      PROVE  TypeOK' /\ IInv'
  BY <1>4, DeleteRequestInv, DeleteLockInv, DeleteDestroyInv, DeleteFailedInv,
     DeleteRouteInv, DeleteFinishInv DEF DeleteStep
<1>5. ASSUME NEW t \in Callers, CallStep(t) \/ CallFinish(t)
      PROVE  TypeOK' /\ IInv'
  BY <1>5, CallColdStartInv, CallColdStartedInv, CallWaitRouteInv, CallBeginInv,
     CallRefusedInv, CallFinishInv DEF CallStep
<1>6. ASSUME NEW t \in Deployers \cup Callers \cup Scalers, ScaleStep(t)
      PROVE  TypeOK' /\ IInv'
  BY <1>6, DownLookupInv, DownIPsInv, DownUpdateInv, DownStopInv, DownRestoreInv,
     UpLookupInv, UpRestartInv, UpIPsInv, UpAddInv, ScaleDoneInv DEF ScaleStep
<1> QED BY <1>1, <1>2, <1>3, <1>4, <1>5, <1>6 DEF Next

LEMMA Invariance == Spec => [](TypeOK /\ IInv)
<1>1. Init => TypeOK /\ IInv
  BY InitInv
<1>2. (TypeOK /\ IInv) /\ [Next]_vars => (TypeOK /\ IInv)'
  BY StepInv
<1> QED BY <1>1, <1>2, PTL DEF Spec
-----------------------------------------------------------------------------
(* What follows from it. *)

\* Whatever is deployed, called, deleted and scaled at the same time, and
\* whatever fails, the server's tables, its handlers and the variables of its
\* goroutines keep their types.
THEOREM TypeCorrect == Spec => []TypeOK
  BY Invariance, PTL

\* invoke never has a route without an address to choose from (server.go:468).
THEOREM AlwaysPickable == Spec => []Pickable
<1>1. IInv => Pickable
  BY Distinct DEF IInv, RoutesPickable, Operands, Operand, Pickable, At
<1> QED BY <1>1, Invariance, PTL

\* No count of requests in flight leaks: it never exceeds the requests being
\* served, so that nothing but requests keeps a function from being scaled down.
THEOREM NeverLeaksInFlight == Spec => []InFlightNotLeaked
<1>1. IInv => InFlightNotLeaked
  BY DEF IInv, Counts
<1> QED BY <1>1, Invariance, PTL

\* A function is being scaled only while the goroutine that claimed it is at
\* work, and only that one settles it.
THEOREM AlwaysScalingOwned == Spec => []ScalingOwned
<1>1. IInv => ScalingOwned
  BY DEF IInv, Claims, ScalingOwned, ScalingThreads
<1> QED BY <1>1, Invariance, PTL
=============================================================================
