---------------------------- MODULE DispatchProofs ---------------------------
(***************************************************************************)
(* Theorems about Dispatch, for any number of functions, deployments and   *)
(* invocations, with the call graph for any of them, with or without the   *)
(* autoscaler.                                                             *)
(***************************************************************************)
EXTENDS Dispatch, FiniteSetTheorems, TLAPS

LocalType ==
  [fn : Functions \cup {None}, kind : Kinds,
   caller : Tracked \cup {None, "external"}, ready : BOOLEAN,
   entry : Handlers \cup {None}, ok : BOOLEAN, failed : {None, "request", "exchange"}]

\* Nothing has been told to the call graph before the edge is recorded.
Unrecorded == {"idle", "accept", "snapshot", "callerRoute", "edge"} \cup ColdStartLabels

Executing == {"request", "http", "endExecution"}

CountedLabels == {"start", "finish"} \cup Executing

\* What an invocation at a label has told the call graph, given its variables v,
\* its context c, its edge e and its outcome o.
Story(label, v, c, e, o) ==
  /\ label \notin {"idle", "done"} => v.fn \in Functions
  /\ label \in {"restart", "settle"} => v.entry \in Handlers
  /\ label \in ColdStartLabels \cup {"edge"} => v.caller # None
  /\ label = "edge" => v.ready
  /\ label \in Unrecorded => e = None
  /\ label \notin Unrecorded \cup {"done"} /\ v.fn \in Tracked => e # None
  /\ e # None => v.ready /\ e.callee = v.fn
  /\ label \in Unrecorded \cup {"begin", "start"} => c = "none"
  /\ c # "none" => v.fn \in Tracked /\ e # None
  /\ label \in Executing /\ v.fn \in Tracked => c = "open"
  /\ label = "finish" /\ v.fn \in Tracked /\ v.failed # "exchange" => c = "ended"
  /\ label \in {"finish", "done"} /\ c = "open" => v.failed = "exchange"
  /\ v.failed # None => label \in {"endExecution", "finish", "done"}
  /\ v.failed = "exchange" => label # "endExecution"
  /\ label # "done" => o = 0
  /\ o = 200 /\ v.fn \in Tracked => c = "ended"
  /\ o \in {404, 503} => c = "none"

Stories == \A i \in Invocations : Story(pc[i], local[i], context[i], edge[i], outcome[i])

Counts == InFlightExact /\ \A f \in Functions : IsFiniteSet(Counted(f))

IInv == Stories /\ Counts

\* Only the invocation i moves.
Moved(i) ==
  /\ pc' \in [Invocations -> PcLabels] /\ local' \in [Invocations -> LocalType]
  /\ outcome' \in [Invocations -> Statuses]
  /\ \A j \in Invocations \ {i} :
       pc'[j] = pc[j] /\ local'[j] = local[j] /\ outcome'[j] = outcome[j]

\* So does what the call graph knows.
Told(i) ==
  /\ context' \in [Invocations -> {"none", "open", "ended"}]
  /\ edge' \in [Invocations -> {None} \cup [caller : Tracked \cup {"external"},
                                            callee : Tracked, kind : Kinds]]
  /\ \A j \in Invocations \ {i} : context'[j] = context[j] /\ edge'[j] = edge[j]
-----------------------------------------------------------------------------
(* Facts about the constants and about Goto and Return. *)

LEMMA Distinct ==
  /\ None \notin Functions
  /\ None \notin Handlers
  /\ None \notin Tracked
  /\ None \notin {"external", "request", "exchange"}
  /\ Tracked \subseteq Functions
  BY InvocationsAssumption

LEMMA LocalTyped ==
  ASSUME TypeOK, NEW i \in Invocations
  PROVE  local[i] \in LocalType
  BY DEF TypeOK, LocalType

LEMMA GotoMoves ==
  ASSUME TypeOK, NEW i \in Invocations, NEW label \in PcLabels, NEW v \in LocalType,
         Goto(i, label, v)
  PROVE  Moved(i) /\ pc'[i] = label /\ local'[i] = v /\ outcome'[i] = outcome[i]
  BY DEF TypeOK, Goto, Moved, LocalType

LEMMA ContinueMoves ==
  ASSUME TypeOK, NEW i \in Invocations, NEW label \in PcLabels, Continue(i, label)
  PROVE  Moved(i) /\ pc'[i] = label /\ local'[i] = local[i] /\ outcome'[i] = outcome[i]
  BY GotoMoves, LocalTyped DEF Continue

LEMMA ReturnMoves ==
  ASSUME TypeOK, NEW i \in Invocations, NEW status \in Statuses, Return(i, status)
  PROVE  /\ Moved(i) /\ pc'[i] = "done" /\ outcome'[i] = status
         /\ local'[i].fn = local[i].fn /\ local'[i].ready = local[i].ready
         /\ local'[i].failed = local[i].failed
<1> DEFINE v == [local[i] EXCEPT !.entry = None, !.ok = FALSE]
<1>1. /\ v \in LocalType /\ v.fn = local[i].fn /\ v.ready = local[i].ready
      /\ v.failed = local[i].failed
  BY LocalTyped DEF LocalType
<1>2. /\ pc' = [pc EXCEPT ![i] = "done"] /\ outcome' = [outcome EXCEPT ![i] = status]
      /\ local' = [local EXCEPT ![i] = v]
  BY DEF Return, TypeOK
<1>3. "done" \in PcLabels
  BY DEF PcLabels
<1> HIDE DEF v
<1> QED BY <1>1, <1>2, <1>3 DEF TypeOK, Moved, LocalType

LEMMA ToldNothing ==
  ASSUME TypeOK, NEW i \in Invocations, UNCHANGED tracker
  PROVE  Told(i) /\ context'[i] = context[i] /\ edge'[i] = edge[i]
  BY DEF TypeOK, Told, tracker

LEMMA StoryOf ==
  ASSUME IInv, NEW i \in Invocations
  PROVE  Story(pc[i], local[i], context[i], edge[i], outcome[i])
  BY DEF IInv, Stories

LEMMA StoriesKept ==
  ASSUME IInv, NEW i \in Invocations, Moved(i), Told(i),
         Story(pc'[i], local'[i], context'[i], edge'[i], outcome'[i])
  PROVE  Stories'
<1>1. ASSUME NEW j \in Invocations
      PROVE  Story(pc'[j], local'[j], context'[j], edge'[j], outcome'[j])
  <2>1. CASE j = i
    BY <2>1
  <2>2. CASE j # i
    <3>1. /\ pc'[j] = pc[j] /\ local'[j] = local[j] /\ outcome'[j] = outcome[j]
          /\ context'[j] = context[j] /\ edge'[j] = edge[j]
      BY <2>2 DEF Moved, Told
    <3> QED BY <3>1, StoryOf
  <2> QED BY <2>1, <2>2
<1> QED BY <1>1 DEF Stories

\* A step that neither begins nor ends a request.
Uncounted(i) ==
  /\ pc'[i] \in CountedLabels <=> pc[i] \in CountedLabels
  /\ pc[i] \in CountedLabels => local'[i].fn = local[i].fn

LEMMA CountedKept ==
  ASSUME NEW i \in Invocations, Moved(i), Uncounted(i), NEW f \in Functions
  PROVE  Counted(f)' = Counted(f)
  BY DEF Counted, Moved, Uncounted, CountedLabels, Executing

LEMMA CountedFinite ==
  ASSUME IInv, NEW f \in Functions
  PROVE  IsFiniteSet(Counted(f)) /\ Cardinality(Counted(f)) \in Nat
<1>1. IsFiniteSet(Counted(f))
  BY DEF IInv, Counts
<1> QED BY <1>1, FS_CardinalityType

\* A step of one invocation that counts nothing.
LEMMA StepKept ==
  ASSUME TypeOK, IInv, NEW i \in Invocations, Moved(i), Told(i), Uncounted(i),
         Story(pc'[i], local'[i], context'[i], edge'[i], outcome'[i]),
         AS!TypeOK', route' \in [Functions -> {"none", "inactive", "active"}],
         \A f \in Functions : autoscaler'[f].inFlight = autoscaler[f].inFlight
  PROVE  TypeOK' /\ IInv'
<1>1. TypeOK'
  BY DEF TypeOK, Moved, Told, LocalType
<1>2. Stories'
  BY StoriesKept
<1>3. Counts'
  BY CountedKept DEF IInv, Counts, InFlightExact
<1> QED BY <1>1, <1>2, <1>3 DEF IInv

\* The usual case: nothing but the invocation's own variables changes.
LEMMA OwnStepKept ==
  ASSUME TypeOK, IInv, NEW i \in Invocations, Moved(i), Uncounted(i),
         UNCHANGED <<environment, tracker>>,
         Story(pc'[i], local'[i], context[i], edge[i], outcome'[i])
  PROVE  TypeOK' /\ IInv'
<1>1. /\ Told(i) /\ context'[i] = context[i] /\ edge'[i] = edge[i]
      /\ Story(pc'[i], local'[i], context'[i], edge'[i], outcome'[i])
  <2>1. Told(i) /\ context'[i] = context[i] /\ edge'[i] = edge[i]
    BY ToldNothing DEF tracker
  <2> QED BY <2>1
<1>2. AS!TypeOK' /\ route' \in [Functions -> {"none", "inactive", "active"}]
  BY DEF TypeOK, AS!TypeOK, environment
<1>3. route' = route /\ autoscaler' = autoscaler
  BY DEF environment
<1> QED BY <1>1, <1>2, <1>3, StepKept

-----------------------------------------------------------------------------
(* The autoscaler's operations, entry by entry. *)

LEMMA EntryTyped ==
  ASSUME TypeOK, NEW f \in Functions
  PROVE  /\ autoscaler[f].inFlight \in Nat /\ autoscaler[f].entry \in Handlers \cup {None}
         /\ autoscaler[f].entry # None =>
              autoscaler[f] \in [state : AS!ScalingState, inFlight : Nat, entry : Handlers]
         /\ autoscaler[f].entry = None => autoscaler[f] = AS!Unregistered
  BY Distinct DEF TypeOK, AS!TypeOK, AS!Unregistered

\* One entry of the autoscaler's changes, the others do not.
Changes(f) ==
  /\ AS!TypeOK'
  /\ \A g \in Functions : g # f => autoscaler'[g] = autoscaler[g]

LEMMA ClaimUpChanges ==
  ASSUME TypeOK, NEW f \in Functions, AS!ClaimScaleUp(f)
  PROVE  /\ Changes(f) /\ autoscaler[f].state = "ScaledDown" /\ autoscaler'[f].state = "ScalingUp"
         /\ autoscaler'[f].entry = autoscaler[f].entry
         /\ autoscaler[f].entry \in Handlers
         /\ autoscaler'[f].inFlight = autoscaler[f].inFlight
<1>1. autoscaler[f] \in [state : AS!ScalingState, inFlight : Nat, entry : Handlers]
  BY DEF TypeOK, AS!TypeOK, AS!Unregistered, AS!ClaimScaleUp, AS!InState
<1>2. autoscaler[f].state = "ScaledDown"
      /\ autoscaler' = [autoscaler EXCEPT ![f].state = "ScalingUp"]
  BY DEF AS!ClaimScaleUp, AS!InState
<1> QED BY <1>1, <1>2 DEF Changes, TypeOK, AS!TypeOK, AS!ScalingState

LEMMA SettleChanges ==
  ASSUME TypeOK, NEW f \in Functions, NEW entry \in Handlers, NEW active \in BOOLEAN,
         AS!Settle(f, entry, active)
  PROVE  /\ Changes(f)
         /\ autoscaler[f].entry = entry =>
              autoscaler'[f].state \in {"Active", "ScaledDown"}
         /\ autoscaler[f].entry # entry => autoscaler'[f] = autoscaler[f]
         /\ autoscaler'[f].entry = autoscaler[f].entry
         /\ autoscaler'[f].inFlight = autoscaler[f].inFlight
<1>1. CASE autoscaler[f].entry = entry
  <2>1. autoscaler[f] \in [state : AS!ScalingState, inFlight : Nat, entry : Handlers]
    BY <1>1, EntryTyped, Distinct
  <2>2. PICK s \in {"Active", "ScaledDown"} : autoscaler' = [autoscaler EXCEPT ![f].state = s]
    BY <1>1 DEF AS!Settle
  <2> QED BY <1>1, <2>1, <2>2 DEF Changes, TypeOK, AS!TypeOK, AS!ScalingState
<1>2. CASE autoscaler[f].entry # entry
  BY <1>2 DEF AS!Settle, Changes, TypeOK, AS!TypeOK
<1> QED BY <1>1, <1>2

LEMMA RegisterChanges ==
  ASSUME TypeOK, NEW f \in Functions, NEW entry \in Handlers, AS!RegisterFunction(f, entry)
  PROVE  /\ Changes(f) /\ autoscaler'[f].state = "Active"
         /\ autoscaler'[f].entry = entry /\ autoscaler'[f].inFlight = 0
  BY DEF AS!RegisterFunction, Changes, TypeOK, AS!TypeOK, AS!ScalingState

LEMMA UnregisterChanges ==
  ASSUME TypeOK, NEW f \in Functions, AS!UnregisterFunction(f)
  PROVE  /\ Changes(f) /\ autoscaler'[f].state = "Unregistered"
         /\ autoscaler'[f].entry = None /\ autoscaler'[f].inFlight = 0
  BY DEF AS!UnregisterFunction, AS!Unregistered, Changes, TypeOK, AS!TypeOK

LEMMA StartChanges ==
  ASSUME TypeOK, NEW f \in Functions, AS!StartInvocation(f)
  PROVE  /\ Changes(f) /\ autoscaler'[f].state = autoscaler[f].state
         /\ autoscaler'[f].entry = autoscaler[f].entry
         /\ autoscaler'[f].inFlight = autoscaler[f].inFlight + 1
<1>1. autoscaler[f] \in [state : AS!ScalingState, inFlight : Nat, entry : Handlers]
  BY DEF TypeOK, AS!TypeOK, AS!Unregistered, AS!StartInvocation, AS!InState
<1>2. autoscaler' = [autoscaler EXCEPT ![f].inFlight = autoscaler[f].inFlight + 1]
  BY DEF AS!StartInvocation
<1>3. autoscaler[f].inFlight + 1 \in Nat
  BY <1>1
<1> QED BY <1>1, <1>2, <1>3 DEF Changes, TypeOK, AS!TypeOK

LEMMA EndChanges ==
  ASSUME TypeOK, NEW f \in Functions, AS!EndInvocation(f)
  PROVE  /\ Changes(f) /\ autoscaler'[f].state = autoscaler[f].state
         /\ autoscaler'[f].entry = autoscaler[f].entry
         /\ autoscaler'[f].inFlight =
              IF autoscaler[f].inFlight > 0 THEN autoscaler[f].inFlight - 1 ELSE 0
<1> DEFINE n == IF autoscaler[f].inFlight > 0 THEN autoscaler[f].inFlight - 1 ELSE 0
<1>1. n \in Nat
  BY EntryTyped
<1>2. autoscaler' = [autoscaler EXCEPT ![f].inFlight = n]
  BY DEF AS!EndInvocation
<1>3. CASE autoscaler[f] \in [state : AS!ScalingState, inFlight : Nat, entry : Handlers]
  <2> HIDE DEF n
  <2>1. /\ Changes(f) /\ autoscaler'[f].state = autoscaler[f].state
        /\ autoscaler'[f].entry = autoscaler[f].entry /\ autoscaler'[f].inFlight = n
    BY <1>1, <1>2, <1>3 DEF Changes, TypeOK, AS!TypeOK
  <2> QED BY <2>1 DEF n
<1>4. CASE autoscaler[f] = AS!Unregistered
  <2>1. n = 0
    BY <1>4 DEF AS!Unregistered
  <2> HIDE DEF n
  <2>2. /\ Changes(f) /\ autoscaler'[f].state = autoscaler[f].state
        /\ autoscaler'[f].entry = autoscaler[f].entry /\ autoscaler'[f].inFlight = n
    BY <1>2, <1>4, <2>1 DEF Changes, TypeOK, AS!TypeOK, AS!Unregistered
  <2> QED BY <2>2 DEF n
<1> QED BY <1>3, <1>4 DEF TypeOK, AS!TypeOK

-----------------------------------------------------------------------------
(* invoke, up to a route that is ready. *)

LEMMA ArriveInv ==
  ASSUME TypeOK, IInv, NEW i \in Invocations, NEW f \in Functions, NEW kind \in Kinds,
         Arrive(i, f, kind)
  PROVE  TypeOK' /\ IInv'
<1>1. /\ At(i, "idle") /\ UNCHANGED <<environment, tracker>>
      /\ Story(pc[i], local[i], context[i], edge[i], outcome[i])
      /\ {"accept", "snapshot"} \subseteq PcLabels /\ {400, 500} \subseteq Statuses
  BY StoryOf DEF Arrive, PcLabels, Statuses
<1> DEFINE v == [Reset EXCEPT !.fn = f, !.kind = kind]
<1>2. v \in LocalType /\ v.fn = f /\ v.failed = None
  BY DEF Reset, LocalType, Kinds
<1>3. \/ Goto(i, IF kind = "async" THEN "accept" ELSE "snapshot", v)
      \/ Return(i, 400) \/ Return(i, 500)
  BY DEF Arrive
<1> HIDE DEF v
<1>4. CASE Return(i, 400) \/ Return(i, 500)
  <2>1. /\ Moved(i) /\ pc'[i] = "done" /\ outcome'[i] \in {400, 500}
        /\ local'[i].fn = local[i].fn /\ local'[i].ready = local[i].ready
        /\ local'[i].failed = local[i].failed
    BY <1>1, <1>4, ReturnMoves
  <2>2. /\ Uncounted(i)
        /\ Story(pc'[i], local'[i], context[i], edge[i], outcome'[i])
    BY <1>1, <2>1 DEF Story, Uncounted, At, Unrecorded, Executing, CountedLabels,
       ColdStartLabels
  <2> QED BY <1>1, <2>1, <2>2, OwnStepKept
<1>5. CASE Goto(i, IF kind = "async" THEN "accept" ELSE "snapshot", v)
  <2>1. /\ Moved(i) /\ pc'[i] \in {"accept", "snapshot"} /\ outcome'[i] = outcome[i]
        /\ local'[i] = v
    BY <1>1, <1>2, <1>5, GotoMoves
  <2>2. /\ Uncounted(i)
        /\ Story(pc'[i], local'[i], context[i], edge[i], outcome'[i])
    BY <1>1, <1>2, <2>1 DEF Story, Uncounted, At, Unrecorded, Executing,
       CountedLabels, ColdStartLabels
  <2> QED BY <1>1, <2>1, <2>2, OwnStepKept
<1> QED BY <1>3, <1>4, <1>5

LEMMA AcceptInv ==
  ASSUME TypeOK, IInv, NEW i \in Invocations, Accept(i)
  PROVE  TypeOK' /\ IInv'
<1>1. /\ At(i, "accept") /\ UNCHANGED <<environment, tracker>>
      /\ Story(pc[i], local[i], context[i], edge[i], outcome[i])
      /\ "snapshot" \in PcLabels /\ 404 \in Statuses
  BY StoryOf DEF Accept, PcLabels, Statuses
<1>2. /\ Moved(i) /\ local'[i].fn = local[i].fn /\ local'[i].ready = local[i].ready
      /\ local'[i].failed = local[i].failed
      /\ \/ pc'[i] = "snapshot" /\ outcome'[i] = outcome[i]
         \/ pc'[i] = "done" /\ outcome'[i] = 404
  BY <1>1, ContinueMoves, ReturnMoves DEF Accept
<1>3. /\ Uncounted(i)
      /\ Story(pc'[i], local'[i], context[i], edge[i], outcome'[i])
  BY <1>1, <1>2 DEF Story, Uncounted, At, Unrecorded, Executing, CountedLabels,
     ColdStartLabels
<1> QED BY <1>1, <1>2, <1>3, OwnStepKept

LEMMA SnapshotInv ==
  ASSUME TypeOK, IInv, NEW i \in Invocations, Snapshot(i)
  PROVE  TypeOK' /\ IInv'
<1>1. /\ At(i, "snapshot") /\ UNCHANGED <<environment, tracker>>
      /\ Story(pc[i], local[i], context[i], edge[i], outcome[i])
      /\ "callerRoute" \in PcLabels /\ 404 \in Statuses
  BY StoryOf DEF Snapshot, PcLabels, Statuses
<1> DEFINE v == [local[i] EXCEPT !.ready = route[local[i].fn] = "active"]
<1>2. v \in LocalType /\ v.fn = local[i].fn /\ v.failed = local[i].failed
  BY LocalTyped DEF LocalType
<1>3. Goto(i, "callerRoute", v) \/ Return(i, 404)
  BY DEF Snapshot
<1> HIDE DEF v
<1>4. /\ Moved(i) /\ local'[i].fn = local[i].fn /\ local'[i].failed = local[i].failed
      /\ \/ pc'[i] = "callerRoute" /\ outcome'[i] = outcome[i]
         \/ pc'[i] = "done" /\ outcome'[i] = 404
  BY <1>1, <1>2, <1>3, GotoMoves, ReturnMoves
<1>5. /\ Uncounted(i)
      /\ Story(pc'[i], local'[i], context[i], edge[i], outcome'[i])
  BY <1>1, <1>4 DEF Story, Uncounted, At, Unrecorded, Executing, CountedLabels,
     ColdStartLabels
<1> QED BY <1>1, <1>4, <1>5, OwnStepKept

LEMMA CallerRouteInv ==
  ASSUME TypeOK, IInv, NEW i \in Invocations, CallerRoute(i)
  PROVE  TypeOK' /\ IInv'
<1>1. /\ At(i, "callerRoute") /\ UNCHANGED <<environment, tracker>>
      /\ Story(pc[i], local[i], context[i], edge[i], outcome[i])
      /\ {"edge", "coldStart"} \subseteq PcLabels /\ 503 \in Statuses
  BY StoryOf DEF CallerRoute, PcLabels, ColdStartLabels, Statuses
<1>2. PICK g \in Functions \cup {None} : Route(i, EffectiveCaller(g))
  BY DEF CallerRoute
<1>3. EffectiveCaller(g) \in Tracked \cup {"external"}
  BY DEF EffectiveCaller
<1> DEFINE v == [local[i] EXCEPT !.caller = EffectiveCaller(g)]
<1>4. /\ v \in LocalType /\ v.fn = local[i].fn /\ v.failed = local[i].failed
      /\ v.caller # None /\ v.ready = local[i].ready
  BY <1>3, LocalTyped, Distinct DEF LocalType
<1>5. \/ v.ready /\ Goto(i, "edge", v)
      \/ Goto(i, "coldStart", v)
      \/ Return(i, 503)
  BY <1>2, InvocationsAssumption DEF Route
<1> HIDE DEF v
<1>6. CASE \/ v.ready /\ Goto(i, "edge", v)
           \/ Goto(i, "coldStart", v)
  <2>1. /\ Moved(i) /\ local'[i] = v /\ outcome'[i] = outcome[i]
        /\ \/ pc'[i] = "coldStart"
           \/ v.ready /\ pc'[i] = "edge"
    BY <1>1, <1>4, <1>6, GotoMoves
  <2>2. /\ Uncounted(i)
        /\ Story(pc'[i], local'[i], context[i], edge[i], outcome'[i])
    BY <1>1, <1>4, <2>1 DEF Story, Uncounted, At, Unrecorded, Executing,
       CountedLabels, ColdStartLabels
  <2> QED BY <1>1, <2>1, <2>2, OwnStepKept
<1>7. CASE Return(i, 503)
  <2>1. /\ Moved(i) /\ pc'[i] = "done" /\ outcome'[i] = 503
        /\ local'[i].fn = local[i].fn /\ local'[i].ready = local[i].ready
        /\ local'[i].failed = local[i].failed
    BY <1>1, <1>7, ReturnMoves
  <2>2. /\ Uncounted(i)
        /\ Story(pc'[i], local'[i], context[i], edge[i], outcome'[i])
    BY <1>1, <2>1 DEF Story, Uncounted, At, Unrecorded, Executing, CountedLabels,
       ColdStartLabels
  <2> QED BY <1>1, <2>1, <2>2, OwnStepKept
<1> QED BY <1>5, <1>6, <1>7

LEMMA ColdStartInv ==
  ASSUME TypeOK, IInv, NEW i \in Invocations, ColdStart(i)
  PROVE  TypeOK' /\ IInv'
<1>1. /\ At(i, "coldStart") /\ UNCHANGED <<route, tracker>> /\ local[i].fn \in Functions
      /\ Story(pc[i], local[i], context[i], edge[i], outcome[i])
      /\ {"restart", "waitRoute"} \subseteq PcLabels /\ 503 \in Statuses
  BY StoryOf DEF ColdStart, PcLabels, ColdStartLabels, Statuses, Story, At
<1> DEFINE f == local[i].fn
           v == [local[i] EXCEPT !.entry = autoscaler[f].entry]
<1>2. CASE AS!ClaimScaleUp(f) /\ Goto(i, "restart", v)
  <2>1. /\ Changes(f) /\ autoscaler[f].state = "ScaledDown"
        /\ autoscaler'[f].state = "ScalingUp" /\ autoscaler[f].entry \in Handlers
        /\ autoscaler'[f].inFlight = autoscaler[f].inFlight
    BY <1>1, <1>2, ClaimUpChanges
  <2>2. /\ v \in LocalType /\ v.fn = local[i].fn /\ v.failed = local[i].failed
        /\ v.caller = local[i].caller /\ v.entry \in Handlers
    BY <2>1, LocalTyped DEF LocalType
  <2> HIDE DEF v
  <2>3. Moved(i) /\ local'[i] = v /\ outcome'[i] = outcome[i] /\ pc'[i] = "restart"
    BY <1>1, <1>2, <2>2, GotoMoves
  <2>4. Told(i) /\ context'[i] = context[i] /\ edge'[i] = edge[i]
    BY <1>1, ToldNothing
  <2>5. /\ Uncounted(i)
        /\ Story(pc'[i], local'[i], context'[i], edge'[i], outcome'[i])
    BY <1>1, <2>2, <2>3, <2>4 DEF Story, Uncounted, At, Unrecorded, Executing,
       CountedLabels, ColdStartLabels
  <2>6. /\ AS!TypeOK' /\ route' \in [Functions -> {"none", "inactive", "active"}]
        /\ \A g \in Functions : autoscaler'[g].inFlight = autoscaler[g].inFlight
    BY <1>1, <2>1 DEF TypeOK, Changes
  <2> QED BY <2>3, <2>4, <2>5, <2>6, StepKept
<1>3. CASE UNCHANGED autoscaler /\ (Continue(i, "waitRoute") \/ Return(i, 503))
  <2>1. /\ Moved(i) /\ local'[i].fn = local[i].fn /\ local'[i].failed = local[i].failed
        /\ \/ pc'[i] = "waitRoute" /\ local'[i] = local[i] /\ outcome'[i] = outcome[i]
           \/ pc'[i] = "done" /\ outcome'[i] = 503
    BY <1>1, <1>3, ContinueMoves, ReturnMoves
  <2>2. /\ Uncounted(i)
        /\ Story(pc'[i], local'[i], context[i], edge[i], outcome'[i])
    BY <1>1, <2>1 DEF Story, Uncounted, At, Unrecorded, Executing, CountedLabels,
       ColdStartLabels
  <2> QED BY <1>1, <1>3, <2>1, <2>2, OwnStepKept DEF environment
<1> QED BY <1>2, <1>3 DEF ColdStart

LEMMA RestartInv ==
  ASSUME TypeOK, IInv, NEW i \in Invocations, Restart(i)
  PROVE  TypeOK' /\ IInv'
<1>1. /\ At(i, "restart")
      /\ UNCHANGED <<autoscaler, tracker>>
      /\ local[i].fn \in Functions
      /\ Story(pc[i], local[i], context[i], edge[i], outcome[i])
      /\ "settle" \in PcLabels
  BY StoryOf DEF Restart, PcLabels, ColdStartLabels, Story, At
<1> DEFINE v == [local[i] EXCEPT !.ok = TRUE]
<1>2. /\ v \in LocalType /\ v.fn = local[i].fn /\ v.failed = local[i].failed
      /\ v.caller = local[i].caller /\ v.entry = local[i].entry
  BY LocalTyped DEF LocalType
<1>3. /\ Goto(i, "settle", v) \/ Continue(i, "settle")
      /\ \/ route' = [route EXCEPT ![local[i].fn] = "active"]
         \/ UNCHANGED route
  BY DEF Restart
<1> HIDE DEF v
<1>4. /\ Moved(i) /\ pc'[i] = "settle" /\ outcome'[i] = outcome[i]
      /\ local'[i].fn = local[i].fn /\ local'[i].failed = local[i].failed
      /\ local'[i].caller = local[i].caller /\ local'[i].entry = local[i].entry
  BY <1>1, <1>2, <1>3, GotoMoves, ContinueMoves
<1>5. Told(i) /\ context'[i] = context[i] /\ edge'[i] = edge[i]
  BY <1>1, ToldNothing
<1>6. /\ Uncounted(i)
      /\ Story(pc'[i], local'[i], context'[i], edge'[i], outcome'[i])
  BY <1>1, <1>4, <1>5 DEF Story, Uncounted, At, Unrecorded, Executing, CountedLabels,
     ColdStartLabels
<1>7. AS!TypeOK' /\ route' \in [Functions -> {"none", "inactive", "active"}]
  BY <1>1, <1>3 DEF TypeOK, AS!TypeOK
<1> QED BY <1>1, <1>4, <1>5, <1>6, <1>7, StepKept

LEMMA SettleInv ==
  ASSUME TypeOK, IInv, NEW i \in Invocations, Settle(i)
  PROVE  TypeOK' /\ IInv'
<1>1. /\ At(i, "settle") /\ UNCHANGED <<route, tracker>> /\ local[i].fn \in Functions
      /\ local[i].entry \in Handlers /\ local[i].ok \in BOOLEAN
      /\ Story(pc[i], local[i], context[i], edge[i], outcome[i])
      /\ "waitRoute" \in PcLabels /\ 503 \in Statuses
  BY StoryOf, LocalTyped DEF Settle, PcLabels, ColdStartLabels, Statuses, Story, At,
     LocalType
<1>2. /\ Changes(local[i].fn)
      /\ autoscaler'[local[i].fn].inFlight = autoscaler[local[i].fn].inFlight
  BY <1>1, SettleChanges, EntryTyped, Distinct DEF Settle, AS!ScalingState
<1> DEFINE v == [local[i] EXCEPT !.entry = None, !.ok = FALSE]
<1>3. /\ v \in LocalType /\ v.fn = local[i].fn /\ v.failed = local[i].failed
      /\ v.caller = local[i].caller
  BY LocalTyped DEF LocalType
<1>4. Goto(i, "waitRoute", v) \/ Return(i, 503)
  BY DEF Settle
<1> HIDE DEF v
<1>5. /\ Moved(i) /\ local'[i].fn = local[i].fn /\ local'[i].failed = local[i].failed
      /\ \/ /\ pc'[i] = "waitRoute" /\ outcome'[i] = outcome[i]
            /\ local'[i].caller = local[i].caller
         \/ pc'[i] = "done" /\ outcome'[i] = 503
  BY <1>1, <1>3, <1>4, GotoMoves, ReturnMoves
<1>6. Told(i) /\ context'[i] = context[i] /\ edge'[i] = edge[i]
  BY <1>1, ToldNothing
<1>7. /\ Uncounted(i)
      /\ Story(pc'[i], local'[i], context'[i], edge'[i], outcome'[i])
  BY <1>1, <1>5, <1>6 DEF Story, Uncounted, At, Unrecorded, Executing, CountedLabels,
     ColdStartLabels
<1>8. /\ AS!TypeOK' /\ route' \in [Functions -> {"none", "inactive", "active"}]
      /\ \A g \in Functions : autoscaler'[g].inFlight = autoscaler[g].inFlight
  BY <1>1, <1>2 DEF TypeOK, Changes
<1> QED BY <1>5, <1>6, <1>7, <1>8, StepKept

LEMMA WaitRouteInv ==
  ASSUME TypeOK, IInv, NEW i \in Invocations, WaitRoute(i)
  PROVE  TypeOK' /\ IInv'
<1>1. /\ At(i, "waitRoute") /\ UNCHANGED <<environment, tracker>>
      /\ Story(pc[i], local[i], context[i], edge[i], outcome[i])
      /\ "edge" \in PcLabels /\ 503 \in Statuses
  BY StoryOf DEF WaitRoute, PcLabels, Statuses
<1> DEFINE v == [local[i] EXCEPT !.ready = TRUE]
<1>2. /\ v \in LocalType /\ v.fn = local[i].fn /\ v.failed = local[i].failed
      /\ v.caller = local[i].caller /\ v.ready
  BY LocalTyped DEF LocalType
<1>3. Goto(i, "edge", v) \/ Return(i, 503)
  BY DEF WaitRoute
<1> HIDE DEF v
<1>4. /\ Moved(i) /\ local'[i].fn = local[i].fn /\ local'[i].failed = local[i].failed
      /\ \/ /\ pc'[i] = "edge" /\ outcome'[i] = outcome[i]
            /\ local'[i].caller = local[i].caller /\ local'[i].ready
         \/ pc'[i] = "done" /\ outcome'[i] = 503
  BY <1>1, <1>2, <1>3, GotoMoves, ReturnMoves
<1>5. /\ Uncounted(i)
      /\ Story(pc'[i], local'[i], context[i], edge[i], outcome'[i])
  BY <1>1, <1>4 DEF Story, Uncounted, At, Unrecorded, Executing, CountedLabels,
     ColdStartLabels
<1> QED BY <1>1, <1>4, <1>5, OwnStepKept

-----------------------------------------------------------------------------
(* invoke, from the ready route to the answer. *)

\* A step of the call graph that leaves everything shared alone.
LEMMA ToldStepKept ==
  ASSUME TypeOK, IInv, NEW i \in Invocations, Moved(i), Told(i), Uncounted(i),
         UNCHANGED environment,
         Story(pc'[i], local'[i], context'[i], edge'[i], outcome'[i])
  PROVE  TypeOK' /\ IInv'
<1>1. AS!TypeOK' /\ route' \in [Functions -> {"none", "inactive", "active"}]
  BY DEF TypeOK, AS!TypeOK, environment
<1>2. route' = route /\ autoscaler' = autoscaler
  BY DEF environment
<1> QED BY <1>1, <1>2, StepKept

LEMMA EdgeInv ==
  ASSUME TypeOK, IInv, NEW i \in Invocations, Edge(i)
  PROVE  TypeOK' /\ IInv'
<1>1. /\ At(i, "edge") /\ UNCHANGED <<environment, context>>
      /\ Story(pc[i], local[i], context[i], edge[i], outcome[i])
      /\ "begin" \in PcLabels /\ local[i] \in LocalType
  BY StoryOf, LocalTyped DEF Edge, PcLabels
<1> DEFINE v == [local[i] EXCEPT !.caller = None]
           e == [caller |-> local[i].caller, callee |-> local[i].fn, kind |-> local[i].kind]
<1>2. /\ v \in LocalType /\ v.fn = local[i].fn /\ v.failed = local[i].failed
      /\ v.ready = local[i].ready
  BY LocalTyped DEF LocalType
<1>3. Goto(i, "begin", v)
  BY DEF Edge
<1> HIDE DEF v
<1>4. /\ Moved(i) /\ pc'[i] = "begin" /\ local'[i] = v /\ outcome'[i] = outcome[i]
  BY <1>1, <1>2, <1>3, GotoMoves
<1>5. /\ local[i].caller \in Tracked \cup {"external"} /\ local[i].kind \in Kinds
      /\ edge[i] = None
  BY <1>1 DEF Story, At, Unrecorded, LocalType
<1>6. local[i].fn \in Tracked =>
        /\ e \in [caller : Tracked \cup {"external"}, callee : Tracked, kind : Kinds]
        /\ e.callee = local[i].fn
        /\ e # None
  BY <1>5, InvocationsAssumption
<1>7. edge' = IF local[i].fn \in Tracked THEN [edge EXCEPT ![i] = e] ELSE edge
  BY DEF Edge, RecordEdge
<1> HIDE DEF e
<1>8. /\ Told(i) /\ context'[i] = context[i]
      /\ edge'[i] = IF local[i].fn \in Tracked THEN e ELSE None
  BY <1>1, <1>5, <1>6, <1>7 DEF TypeOK, Told
<1>9. /\ Uncounted(i)
      /\ Story(pc'[i], local'[i], context'[i], edge'[i], outcome'[i])
  BY <1>1, <1>2, <1>4, <1>6, <1>8 DEF Story, Uncounted, At, Unrecorded, Executing,
     CountedLabels, ColdStartLabels
<1> QED BY <1>1, <1>4, <1>8, <1>9, ToldStepKept

\* A request enters the set of those counted.
LEMMA CountedMore ==
  ASSUME TypeOK, IInv, NEW i \in Invocations, Moved(i), NEW f \in Functions,
         local[i].fn = f, local'[i].fn = f, pc[i] \notin CountedLabels,
         pc'[i] \in CountedLabels, Changes(f),
         AutoscalerEnabled => autoscaler'[f].inFlight = autoscaler[f].inFlight + 1
  PROVE  Counts'
<1>1. Counted(f)' = Counted(f) \cup {i} /\ i \notin Counted(f)
  BY DEF Counted, Moved, CountedLabels, Executing
<1>2. \A g \in Functions : g # f => Counted(g)' = Counted(g)
  BY DEF Counted, Moved, CountedLabels, Executing
<1>3. /\ IsFiniteSet(Counted(f)')
      /\ Cardinality(Counted(f)') = Cardinality(Counted(f)) + 1
  BY <1>1, CountedFinite, FS_AddElement
<1>4. autoscaler[f].inFlight \in Nat
  BY EntryTyped
<1>5. AutoscalerEnabled =>
        /\ autoscaler'[f].inFlight <= Cardinality(Counted(f)')
        /\ f \notin Removable => autoscaler'[f].inFlight = Cardinality(Counted(f)')
  BY <1>3, <1>4, CountedFinite DEF IInv, Counts, InFlightExact
<1> QED BY <1>2, <1>3, <1>5 DEF IInv, Counts, InFlightExact, Changes

\* A request leaves it, and the count that it was given, if it still counts.
LEMMA CountedLess ==
  ASSUME TypeOK, IInv, NEW i \in Invocations, Moved(i), NEW f \in Functions,
         local[i].fn = f, local'[i].fn = f, pc[i] \in CountedLabels,
         pc'[i] \notin CountedLabels, Changes(f),
         AutoscalerEnabled => autoscaler'[f].inFlight =
           IF autoscaler[f].inFlight > 0 THEN autoscaler[f].inFlight - 1 ELSE 0
  PROVE  Counts'
<1>1. Counted(f)' = Counted(f) \ {i} /\ i \in Counted(f)
  BY DEF Counted, Moved, CountedLabels, Executing
<1>2. \A g \in Functions : g # f => Counted(g)' = Counted(g)
  BY DEF Counted, Moved, CountedLabels, Executing
<1>3. Cardinality(Counted(f)') = Cardinality(Counted(f)) - 1
  BY <1>1, CountedFinite, FS_RemoveElement
<1>4. IsFiniteSet(Counted(f)') /\ Cardinality(Counted(f)') \in Nat
  BY <1>1, CountedFinite, FS_RemoveElement, FS_CardinalityType
<1>5. autoscaler[f].inFlight \in Nat
  BY EntryTyped
<1>6. AutoscalerEnabled =>
        /\ autoscaler'[f].inFlight <= Cardinality(Counted(f)')
        /\ f \notin Removable => autoscaler'[f].inFlight = Cardinality(Counted(f)')
  BY <1>3, <1>4, <1>5, CountedFinite DEF IInv, Counts, InFlightExact
<1> QED BY <1>2, <1>4, <1>6 DEF IInv, Counts, InFlightExact, Changes

LEMMA BeginInv ==
  ASSUME TypeOK, IInv, NEW i \in Invocations, Begin(i)
  PROVE  TypeOK' /\ IInv'
<1>1. /\ At(i, "begin") /\ UNCHANGED <<route, tracker>> /\ local[i].fn \in Functions
      /\ Story(pc[i], local[i], context[i], edge[i], outcome[i])
      /\ "start" \in PcLabels /\ 503 \in Statuses
      /\ Told(i) /\ context'[i] = context[i] /\ edge'[i] = edge[i]
  BY StoryOf, ToldNothing DEF Begin, PcLabels, Unrecorded, ColdStartLabels, Statuses,
     Story, At
<1>2. CASE UNCHANGED autoscaler /\ Return(i, 503)
  <2>1. /\ Moved(i) /\ pc'[i] = "done" /\ outcome'[i] = 503
        /\ local'[i].fn = local[i].fn /\ local'[i].ready = local[i].ready
        /\ local'[i].failed = local[i].failed
    BY <1>1, <1>2, ReturnMoves
  <2>2. /\ Uncounted(i)
        /\ Story(pc'[i], local'[i], context[i], edge[i], outcome'[i])
    BY <1>1, <2>1 DEF Story, Uncounted, At, Unrecorded, Executing, CountedLabels,
       ColdStartLabels
  <2> QED BY <1>1, <1>2, <2>1, <2>2, OwnStepKept DEF environment
<1>3. CASE /\ Continue(i, "start")
           /\ IF AutoscalerEnabled THEN AS!StartInvocation(local[i].fn)
                                   ELSE UNCHANGED autoscaler
  <2>1. PICK f \in Functions : f = local[i].fn
    BY <1>1
  <2>2. Moved(i) /\ pc'[i] = "start" /\ local'[i] = local[i] /\ outcome'[i] = outcome[i]
    BY <1>1, <1>3, ContinueMoves
  <2>3. /\ Changes(f) /\ autoscaler'[f].state = autoscaler[f].state
        /\ AutoscalerEnabled => autoscaler'[f].inFlight = autoscaler[f].inFlight + 1
    <3>1. CASE AutoscalerEnabled
      BY <1>3, <2>1, <3>1, StartChanges
    <3>2. CASE ~AutoscalerEnabled
      BY <1>3, <3>2 DEF TypeOK, Changes, AS!TypeOK
    <3> QED BY <3>1, <3>2
  <2>4. Story(pc'[i], local'[i], context'[i], edge'[i], outcome'[i])
    BY <1>1, <2>2 DEF Story, Uncounted, At, Unrecorded, Executing, CountedLabels,
       ColdStartLabels
  <2>5. pc[i] \notin CountedLabels /\ pc'[i] \in CountedLabels
    BY <1>1, <2>2 DEF At, CountedLabels, Executing
  <2>6. Counts'
    BY <2>1, <2>2, <2>3, <2>5, CountedMore
  <2>7. TypeOK'
    BY <1>1, <2>2, <2>3 DEF TypeOK, Moved, Told, LocalType, Changes
  <2>8. Stories'
    BY <1>1, <2>2, <2>4, StoriesKept
  <2> QED BY <2>6, <2>7, <2>8 DEF IInv
<1> QED BY <1>2, <1>3 DEF Begin

LEMMA FinishInv ==
  ASSUME TypeOK, IInv, NEW i \in Invocations, Finish(i)
  PROVE  TypeOK' /\ IInv'
<1>1. /\ At(i, "finish") /\ UNCHANGED <<route, tracker>> /\ local[i].fn \in Functions
      /\ Story(pc[i], local[i], context[i], edge[i], outcome[i])
      /\ 200 \in Statuses /\ 500 \in Statuses
      /\ Told(i) /\ context'[i] = context[i] /\ edge'[i] = edge[i]
  BY StoryOf, ToldNothing DEF Finish, Statuses, Story, At
<1>2. PICK f \in Functions : f = local[i].fn
  BY <1>1
<1>3. /\ Moved(i) /\ pc'[i] = "done"
      /\ outcome'[i] = IF local[i].failed = None THEN 200 ELSE 500
      /\ local'[i].fn = local[i].fn /\ local'[i].ready = local[i].ready
      /\ local'[i].failed = local[i].failed
  BY <1>1, ReturnMoves DEF Finish
<1>4. /\ Changes(f) /\ autoscaler'[f].state = autoscaler[f].state
      /\ AutoscalerEnabled => autoscaler'[f].inFlight =
           IF autoscaler[f].inFlight > 0 THEN autoscaler[f].inFlight - 1 ELSE 0
  <2>1. CASE AutoscalerEnabled
    BY <1>2, <2>1, EndChanges DEF Finish
  <2>2. CASE ~AutoscalerEnabled
    BY <2>2 DEF Finish, TypeOK, Changes, AS!TypeOK
  <2> QED BY <2>1, <2>2
<1>5. Story(pc'[i], local'[i], context'[i], edge'[i], outcome'[i])
  BY <1>1, <1>3, Distinct DEF Story, Uncounted, At, Unrecorded, Executing,
     CountedLabels, ColdStartLabels
<1>6. pc[i] \in CountedLabels /\ pc'[i] \notin CountedLabels
  BY <1>1, <1>3 DEF At, CountedLabels, Executing
<1>7. Counts'
  BY <1>2, <1>3, <1>4, <1>6, CountedLess
<1>8. TypeOK'
  BY <1>1, <1>3, <1>4 DEF TypeOK, Moved, Told, LocalType, Changes
<1>9. Stories'
  BY <1>1, <1>3, <1>5, StoriesKept
<1> QED BY <1>7, <1>8, <1>9 DEF IInv

LEMMA ContextTold ==
  ASSUME TypeOK, NEW i \in Invocations, NEW c \in {"none", "open", "ended"},
         SetContext(i, c), UNCHANGED edge
  PROVE  /\ Told(i) /\ edge'[i] = edge[i]
         /\ context'[i] = IF local[i].fn \in Tracked THEN c ELSE context[i]
  BY DEF TypeOK, Told, SetContext

LEMMA StartExecutionInv ==
  ASSUME TypeOK, IInv, NEW i \in Invocations, StartExecution(i)
  PROVE  TypeOK' /\ IInv'
<1>1. /\ At(i, "start") /\ UNCHANGED environment
      /\ Story(pc[i], local[i], context[i], edge[i], outcome[i])
      /\ "request" \in PcLabels
      /\ Told(i) /\ edge'[i] = edge[i]
      /\ context'[i] = IF local[i].fn \in Tracked THEN "open" ELSE context[i]
  BY StoryOf, ContextTold DEF StartExecution, PcLabels
<1>2. Moved(i) /\ pc'[i] = "request" /\ local'[i] = local[i] /\ outcome'[i] = outcome[i]
  BY <1>1, ContinueMoves DEF StartExecution
<1>3. /\ Uncounted(i)
      /\ Story(pc'[i], local'[i], context'[i], edge'[i], outcome'[i])
  BY <1>1, <1>2 DEF Story, Uncounted, At, Unrecorded, Executing, CountedLabels,
     ColdStartLabels
<1> QED BY <1>1, <1>2, <1>3, ToldStepKept

LEMMA EndExecutionInv ==
  ASSUME TypeOK, IInv, NEW i \in Invocations, EndExecution(i)
  PROVE  TypeOK' /\ IInv'
<1>1. /\ At(i, "endExecution") /\ UNCHANGED environment
      /\ Story(pc[i], local[i], context[i], edge[i], outcome[i])
      /\ "finish" \in PcLabels
      /\ Told(i) /\ edge'[i] = edge[i]
      /\ context'[i] = IF local[i].fn \in Tracked THEN "ended" ELSE context[i]
  BY StoryOf, ContextTold DEF EndExecution, PcLabels
<1>2. Moved(i) /\ pc'[i] = "finish" /\ local'[i] = local[i] /\ outcome'[i] = outcome[i]
  BY <1>1, ContinueMoves DEF EndExecution
<1>3. /\ Uncounted(i)
      /\ Story(pc'[i], local'[i], context'[i], edge'[i], outcome'[i])
  BY <1>1, <1>2 DEF Story, Uncounted, At, Unrecorded, Executing, CountedLabels,
     ColdStartLabels
<1> QED BY <1>1, <1>2, <1>3, ToldStepKept

LEMMA NewRequestInv ==
  ASSUME TypeOK, IInv, NEW i \in Invocations, NewRequest(i)
  PROVE  TypeOK' /\ IInv'
<1>1. /\ At(i, "request") /\ UNCHANGED <<environment, tracker>>
      /\ Story(pc[i], local[i], context[i], edge[i], outcome[i])
      /\ {"http", "endExecution"} \subseteq PcLabels
  BY StoryOf DEF NewRequest, PcLabels
<1> DEFINE v == [local[i] EXCEPT !.failed = "request"]
<1>2. /\ v \in LocalType /\ v.fn = local[i].fn /\ v.failed = "request"
      /\ v.ready = local[i].ready
  BY LocalTyped DEF LocalType
<1>3. Continue(i, "http") \/ Goto(i, "endExecution", v)
  BY DEF NewRequest
<1> HIDE DEF v
<1>4. /\ Moved(i) /\ local'[i].fn = local[i].fn /\ local'[i].ready = local[i].ready
      /\ outcome'[i] = outcome[i]
      /\ \/ pc'[i] = "http" /\ local'[i].failed = local[i].failed
         \/ pc'[i] = "endExecution" /\ local'[i].failed = "request"
  BY <1>1, <1>2, <1>3, GotoMoves, ContinueMoves
<1>5. /\ Uncounted(i)
      /\ Story(pc'[i], local'[i], context[i], edge[i], outcome'[i])
  BY <1>1, <1>4, Distinct DEF Story, Uncounted, At, Unrecorded, Executing,
     CountedLabels, ColdStartLabels
<1> QED BY <1>1, <1>4, <1>5, OwnStepKept

LEMMA ExchangeInv ==
  ASSUME TypeOK, IInv, NEW i \in Invocations, Exchange(i)
  PROVE  TypeOK' /\ IInv'
<1>1. /\ At(i, "http") /\ UNCHANGED <<environment, tracker>>
      /\ Story(pc[i], local[i], context[i], edge[i], outcome[i])
      /\ {"finish", "endExecution"} \subseteq PcLabels
  BY StoryOf DEF Exchange, PcLabels
<1> DEFINE v == [local[i] EXCEPT !.failed = "exchange"]
<1>2. /\ v \in LocalType /\ v.fn = local[i].fn /\ v.failed = "exchange"
      /\ v.ready = local[i].ready
  BY LocalTyped DEF LocalType
<1>3. Continue(i, "endExecution") \/ Goto(i, "finish", v)
  BY DEF Exchange
<1> HIDE DEF v
<1>4. /\ Moved(i) /\ local'[i].fn = local[i].fn /\ local'[i].ready = local[i].ready
      /\ outcome'[i] = outcome[i]
      /\ \/ pc'[i] = "endExecution" /\ local'[i].failed = local[i].failed
         \/ pc'[i] = "finish" /\ local'[i].failed = "exchange"
  BY <1>1, <1>2, <1>3, GotoMoves, ContinueMoves
<1>5. /\ Uncounted(i)
      /\ Story(pc'[i], local'[i], context[i], edge[i], outcome'[i])
  BY <1>1, <1>4, Distinct DEF Story, Uncounted, At, Unrecorded, Executing,
     CountedLabels, ColdStartLabels
<1> QED BY <1>1, <1>4, <1>5, OwnStepKept

-----------------------------------------------------------------------------
(* Deployments, deletes and the idle check. *)

\* They move no invocation.
LEMMA EnvironmentKept ==
  ASSUME TypeOK, IInv, UNCHANGED <<tracker, outcome, pc, local>>
  PROVE  Stories' /\ \A f \in Functions : Counted(f)' = Counted(f)
  BY DEF IInv, Stories, Counted, tracker

LEMMA DeployInv ==
  ASSUME TypeOK, IInv, NEW f \in Functions, Deploy(f)
  PROVE  TypeOK' /\ IInv'
<1>1. /\ ~Deployed(f) /\ route' = [route EXCEPT ![f] = "active"]
      /\ UNCHANGED <<tracker, outcome, pc, local>>
  BY DEF Deploy
<1>2. /\ Stories'
      /\ \A g \in Functions : Counted(g)' = Counted(g)
  BY <1>1, EnvironmentKept
<1>3. /\ Changes(f)
      /\ AutoscalerEnabled =>
           autoscaler'[f].state = "Active" /\ autoscaler'[f].inFlight = 0
  <2>1. CASE AutoscalerEnabled
    BY <2>1, RegisterChanges DEF Deploy
  <2>2. CASE ~AutoscalerEnabled
    BY <2>2 DEF Deploy, TypeOK, Changes, AS!TypeOK
  <2> QED BY <2>1, <2>2
<1>4. TypeOK'
  BY <1>1, <1>3 DEF TypeOK, Changes, tracker
<1>5. AutoscalerEnabled /\ f \notin Removable => autoscaler[f].inFlight = 0
  <2>1. AutoscalerEnabled => autoscaler[f] = AS!Unregistered
    BY <1>1 DEF Deployed, AS!InState, TypeOK, AS!TypeOK, AS!ScalingState
  <2> QED BY <2>1 DEF AS!Unregistered
<1>6. AutoscalerEnabled =>
        /\ autoscaler'[f].inFlight <= Cardinality(Counted(f)')
        /\ f \notin Removable => autoscaler'[f].inFlight = Cardinality(Counted(f)')
  BY <1>2, <1>3, <1>5, CountedFinite DEF IInv, Counts, InFlightExact
<1>7. Counts'
  BY <1>2, <1>3, <1>6 DEF IInv, Counts, InFlightExact, Changes
<1> QED BY <1>2, <1>4, <1>7 DEF IInv

LEMMA DeleteInv ==
  ASSUME TypeOK, IInv, NEW f \in Functions, Delete(f)
  PROVE  TypeOK' /\ IInv'
<1>1. /\ f \in Removable /\ route' = [route EXCEPT ![f] = "none"]
      /\ UNCHANGED <<tracker, outcome, pc, local>>
  BY DEF Delete
<1>2. /\ Stories'
      /\ \A g \in Functions : Counted(g)' = Counted(g)
  BY <1>1, EnvironmentKept
<1>3. /\ Changes(f) /\ autoscaler'[f].state = "Unregistered"
      /\ autoscaler'[f].inFlight = 0
  BY UnregisterChanges DEF Delete
<1>4. TypeOK'
  BY <1>1, <1>3 DEF TypeOK, Changes, tracker
<1>5. autoscaler'[f].inFlight <= Cardinality(Counted(f)')
  BY <1>2, <1>3, CountedFinite
<1>6. Counts'
  BY <1>1, <1>2, <1>3, <1>5 DEF IInv, Counts, InFlightExact, Changes
<1> QED BY <1>2, <1>4, <1>6 DEF IInv

LEMMA ScaleDownInv ==
  ASSUME TypeOK, IInv, NEW f \in Functions, ScaleDown(f)
  PROVE  TypeOK' /\ IInv'
<1>1. /\ autoscaler[f].state = "Active" /\ route' = [route EXCEPT ![f] = "inactive"]
      /\ autoscaler' = [autoscaler EXCEPT ![f].state = "ScaledDown"]
      /\ UNCHANGED <<tracker, outcome, pc, local>>
  BY DEF ScaleDown, AS!Idle, AS!InState
<1>2. /\ Stories'
      /\ \A g \in Functions : Counted(g)' = Counted(g)
  BY <1>1, EnvironmentKept
<1>3. autoscaler[f] \in [state : AS!ScalingState, inFlight : Nat, entry : Handlers]
  BY <1>1 DEF TypeOK, AS!TypeOK, AS!Unregistered
<1>4. /\ Changes(f) /\ autoscaler'[f].state = "ScaledDown"
      /\ autoscaler'[f].inFlight = autoscaler[f].inFlight
  BY <1>1, <1>3 DEF Changes, TypeOK, AS!TypeOK, AS!ScalingState
<1>5. TypeOK'
  BY <1>1, <1>4 DEF TypeOK, Changes, tracker
<1>6. Counts'
  BY <1>2, <1>4 DEF IInv, Counts, InFlightExact, Changes
<1> QED BY <1>2, <1>5, <1>6 DEF IInv

-----------------------------------------------------------------------------
(* The invariant. *)

LEMMA InitInv ==
  ASSUME Init
  PROVE  TypeOK /\ IInv
<1>1. /\ Reset \in LocalType /\ Reset.failed = None /\ Reset.fn = None
  BY DEF Reset, LocalType, Kinds
<1>2. TypeOK
  <2>1. pc \in [Invocations -> PcLabels] /\ outcome \in [Invocations -> Statuses]
    BY DEF Init, PcLabels, Statuses
  <2>2. AS!TypeOK
    BY DEF Init, AS!Init, AS!TypeOK
  <2> QED BY <1>1, <2>1, <2>2 DEF Init, TypeOK, LocalType
<1>3. Stories
  BY <1>1, Distinct DEF Init, Stories, Story, Unrecorded, Executing, ColdStartLabels
<1>4. Counts
  <2>1. \A f \in Functions : Counted(f) = {}
    BY DEF Init, Counted
  <2> QED BY <2>1, FS_EmptySet DEF Init, AS!Init, Counts, InFlightExact, AS!Unregistered
<1> QED BY <1>2, <1>3, <1>4 DEF IInv

LEMMA StutterInv ==
  ASSUME TypeOK, IInv, UNCHANGED vars
  PROVE  TypeOK' /\ IInv'
<1> USE DEF vars, environment, tracker
<1>1. TypeOK'
  BY DEF TypeOK, AS!TypeOK
<1>2. Stories'
  BY DEF IInv, Stories
<1>3. Counts'
  BY DEF IInv, Counts, InFlightExact, Counted
<1> QED BY <1>1, <1>2, <1>3 DEF IInv

LEMMA StepInv ==
  ASSUME TypeOK, IInv, [Next]_vars
  PROVE  TypeOK' /\ IInv'
<1>1. CASE UNCHANGED vars
  BY <1>1, StutterInv
<1>2. ASSUME NEW i \in Invocations,
             \E f \in Functions, kind \in Kinds : Arrive(i, f, kind)
      PROVE  TypeOK' /\ IInv'
  BY <1>2, ArriveInv
<1>3. ASSUME NEW i \in Invocations, RouteStep(i)
      PROVE  TypeOK' /\ IInv'
  BY <1>3, AcceptInv, SnapshotInv, CallerRouteInv, ColdStartInv, RestartInv, SettleInv,
     WaitRouteInv DEF RouteStep
<1>4. ASSUME NEW i \in Invocations, ServeStep(i) \/ Exchange(i)
      PROVE  TypeOK' /\ IInv'
  BY <1>4, EdgeInv, BeginInv, StartExecutionInv, NewRequestInv, EndExecutionInv,
     FinishInv,
     ExchangeInv DEF ServeStep
<1>5. ASSUME NEW f \in Functions, Deploy(f) \/ Delete(f) \/ ScaleDown(f)
      PROVE  TypeOK' /\ IInv'
  BY <1>5, DeployInv, DeleteInv, ScaleDownInv
<1> QED BY <1>1, <1>2, <1>3, <1>4, <1>5 DEF Next

LEMMA Invariance == Spec => [](TypeOK /\ IInv)
<1>1. Init => TypeOK /\ IInv
  BY InitInv
<1>2. (TypeOK /\ IInv) /\ [Next]_vars => (TypeOK /\ IInv)'
  BY StepInv
<1> QED BY <1>1, <1>2, PTL DEF Spec
-----------------------------------------------------------------------------
(* What follows from it. *)

\* The routes, the registrations, what the call graph holds and the variables of
\* every invocation keep their types.
THEOREM TypeCorrect == Spec => []TypeOK
  BY Invariance, PTL

\* finishRequest takes back what StartInvocation counted, once, on every path out
\* of invoke: the autoscaler counts the requests being served, and no request of a
\* function that was deleted meanwhile makes a count too high.
THEOREM InFlightAlwaysExact == Spec => []InFlightExact
<1>1. IInv => InFlightExact
  BY DEF IInv, Counts
<1> QED BY <1>1, Invariance, PTL

\* An edge is recorded only for a route seen ready, an execution begins with its
\* edge, and it is ended unless the exchange with the container failed.
THEOREM CallGraphAlwaysAccounted == Spec => []CallGraphAccounted
<1>1. IInv => ContextsAccounted
  BY DEF IInv, Stories, Story, ContextsAccounted
<1>2. IInv => EdgesOfReadyRoutes
  BY DEF IInv, Stories, Story, EdgesOfReadyRoutes
<1> QED BY <1>1, <1>2, Invariance, PTL DEF CallGraphAccounted
=============================================================================
