------------------------------ MODULE Dispatch ------------------------------
(***************************************************************************)
(* One invocation from the HTTP handler to the container and back          *)
(* (cmd/server/main.go invokeHandler, pkg/server/server.go Call and        *)
(* invoke), with every error return, and what it tells the autoscaler and  *)
(* the call graph on the way.                                              *)
(*                                                                         *)
(* Every invocation is a goroutine; an asynchronous one is answered before *)
(* it runs.  What deployments and scaling do to handlers and addresses is  *)
(* in module Server; here a route is absent, inactive or active, and a     *)
(* deployment, a delete and a scale-down are one step each.  Prewarming,   *)
(* which invoke only starts, is in module Prewarm.                         *)
(***************************************************************************)
EXTENDS Naturals, FiniteSets

CONSTANTS
  Functions, None,
  Tracked,           \* the functions whose labels enable the call graph
  Removable,         \* the functions that may be deleted
  Handlers,          \* deployments
  Invocations,       \* each runs once, which bounds the behaviours
  AutoscalerEnabled

VARIABLES
  route,        \* function -> "none", "inactive" or "active"
  autoscaler,
  context,      \* invocation -> its execution context: "none", "open", "ended"
  edge,         \* invocation -> the edge recorded for it, or None
  outcome,      \* invocation -> the status it ended with, 0 before
  pc, local     \* every invocation's next step and variables

environment == <<route, autoscaler>>
tracker == <<context, edge>>
vars == <<environment, tracker, outcome, pc, local>>

Kinds == {"sync", "async"}

ASSUME InvocationsAssumption ==
  /\ Tracked \subseteq Functions /\ Removable \subseteq Functions
  /\ None \notin Functions \cup Handlers \cup {"external", "request", "exchange"}
  /\ None \notin [caller : Tracked \cup {"external"}, callee : Tracked, kind : Kinds]
  /\ "external" \notin Functions
  /\ AutoscalerEnabled \in BOOLEAN

AS == INSTANCE Autoscaler

Reset ==
  [fn |-> None, kind |-> "sync", caller |-> None, ready |-> FALSE,
   entry |-> None, ok |-> FALSE, failed |-> None]

Init ==
  /\ route = [f \in Functions |-> "none"]
  /\ AS!Init
  /\ context = [i \in Invocations |-> "none"]
  /\ edge = [i \in Invocations |-> None]
  /\ outcome = [i \in Invocations |-> 0]
  /\ pc = [i \in Invocations |-> "idle"]
  /\ local = [i \in Invocations |-> Reset]
-----------------------------------------------------------------------------
At(i, label) == pc[i] = label

Goto(i, label, vars_i) ==
  /\ pc' = [pc EXCEPT ![i] = label]
  /\ local' = [local EXCEPT ![i] = vars_i]
  /\ UNCHANGED outcome

Continue(i, label) == Goto(i, label, local[i])

\* The status goes to the client, of an asynchronous call to the log.
Return(i, status) ==
  /\ pc' = [pc EXCEPT ![i] = "done"]
  /\ outcome' = [outcome EXCEPT ![i] = status]
  /\ local' = [local EXCEPT ![i].entry = None, ![i].ok = FALSE]

Exists(f) == route[f] # "none"
-----------------------------------------------------------------------------
(* invokeHandler and Call. *)

\* A request without a name or with a body that cannot be read does not reach
\* Call.
Arrive(i, f, kind) ==
  /\ At(i, "idle")
  /\ \/ Goto(i, IF kind = "async" THEN "accept" ELSE "snapshot",
             [Reset EXCEPT !.fn = f, !.kind = kind])
     \/ Return(i, 400) \/ Return(i, 500)
  /\ UNCHANGED <<environment, tracker>>

\* An asynchronous call of an existing function is answered 202 and runs on its
\* own, so the function may be gone when it begins.
Accept(i) ==
  /\ At(i, "accept")
  /\ IF Exists(local[i].fn)
       THEN Continue(i, "snapshot")
       ELSE Return(i, 404)
  /\ UNCHANGED <<environment, tracker>>
-----------------------------------------------------------------------------
(* invoke, up to the route that the request will take. *)

\* The snapshot of the callee's route.
Snapshot(i) ==
  LET f == local[i].fn
  IN  /\ At(i, "snapshot")
      /\ IF Exists(f)
           THEN Goto(i, "callerRoute", [local[i] EXCEPT !.ready = route[f] = "active"])
           ELSE Return(i, 404)
      /\ UNCHANGED <<environment, tracker>>

IgnoresCallerLabel(g) == IF g # None /\ Exists(g) THEN g ELSE "external"

\* GetFunctionNameByIP attributes the source's address to any function or to
\* none; a caller without a tracked route is recorded as an external one.
EffectiveCaller(g) ==
  IF g # None /\ g \in Tracked /\ Exists(g) THEN g ELSE "external"

RecordEdge(i, caller) ==
  edge' = IF local[i].fn \in Tracked
            THEN [edge EXCEPT ![i] = [caller |-> caller, callee |-> local[i].fn,
                                      kind |-> local[i].kind]]
            ELSE edge

Route(i, caller) ==
  LET known == [local[i] EXCEPT !.caller = caller]
  IN  CASE known.ready                        -> Goto(i, "edge", known)
        [] ~known.ready /\ AutoscalerEnabled -> Goto(i, "coldStart", known)
        [] OTHER                              -> Return(i, 503)

RecordsUnready(i) ==
  /\ At(i, "callerRoute")
  /\ \E g \in Functions \cup {None} :
       Route(i, EffectiveCaller(g)) /\ RecordEdge(i, EffectiveCaller(g))
  /\ UNCHANGED <<environment, context>>

\* The caller's route, then what the callee's snapshot allows.
CallerRoute(i) ==
  /\ At(i, "callerRoute")
  /\ \E g \in Functions \cup {None} : Route(i, EffectiveCaller(g))
  /\ UNCHANGED <<environment, tracker>>

\* ScaleUp: perform the cold start, or wait for whoever does, or fail.
ColdStart(i) ==
  LET f == local[i].fn
  IN  /\ At(i, "coldStart")
      /\ \/ /\ AS!ClaimScaleUp(f)
            /\ Goto(i, "restart", [local[i] EXCEPT !.entry = autoscaler[f].entry])
         \/ /\ \/ AS!InState(f, "Active") /\ Continue(i, "waitRoute")
               \/ AS!InState(f, "Unregistered") /\ Return(i, 503)
            /\ UNCHANGED autoscaler
      /\ UNCHANGED <<route, tracker>>

\* The handler is restarted and its route added, or one of both fails.  The function
\* may be deleted between the two: its route comes back then.
Restart(i) ==
  /\ At(i, "restart")
  /\ \/ /\ route' = [route EXCEPT ![local[i].fn] = "active"]
        /\ Goto(i, "settle", [local[i] EXCEPT !.ok = TRUE])
     \/ Continue(i, "settle") /\ UNCHANGED route
  /\ UNCHANGED <<autoscaler, tracker>>

SettlesSuccessOnly(i) ==
  /\ At(i, "settle")
  /\ IF local[i].ok
       THEN AS!Settle(local[i].fn, local[i].entry, TRUE) /\ Continue(i, "waitRoute")
       ELSE Return(i, 503) /\ UNCHANGED autoscaler
  /\ UNCHANGED <<route, tracker>>

Settle(i) ==
  /\ At(i, "settle")
  /\ AS!Settle(local[i].fn, local[i].entry, local[i].ok)
  /\ IF local[i].ok
       THEN Goto(i, "waitRoute", [local[i] EXCEPT !.entry = None, !.ok = FALSE])
       ELSE Return(i, 503)
  /\ UNCHANGED <<route, tracker>>

\* waitForRouteReady polls until its deadline, which may pass at any moment.
WaitRoute(i) ==
  /\ At(i, "waitRoute")
  /\ \/ route[local[i].fn] = "active" /\ Goto(i, "edge", [local[i] EXCEPT !.ready = TRUE])
     \/ route[local[i].fn] # "active" /\ Return(i, 503)
  /\ UNCHANGED <<environment, tracker>>
-----------------------------------------------------------------------------
(* invoke, from the ready route to the answer. *)

Edge(i) ==
  /\ At(i, "edge")
  /\ RecordEdge(i, local[i].caller)
  /\ Goto(i, "begin", [local[i] EXCEPT !.caller = None])
  /\ UNCHANGED <<environment, context>>

\* A request that the autoscaler refuses keeps the edge that was recorded.
Begin(i) ==
  LET f == local[i].fn
  IN  /\ At(i, "begin")
      /\ IF AutoscalerEnabled
           THEN \/ AS!StartInvocation(f) /\ Continue(i, "start")
                \/ ~AS!InState(f, "Active") /\ Return(i, 503) /\ UNCHANGED autoscaler
           ELSE Continue(i, "start") /\ UNCHANGED autoscaler
      /\ UNCHANGED <<route, tracker>>

SetContext(i, c) ==
  context' = IF local[i].fn \in Tracked THEN [context EXCEPT ![i] = c] ELSE context

StartExecution(i) ==
  /\ At(i, "start")
  /\ SetContext(i, "open")
  /\ Continue(i, "request")
  /\ UNCHANGED <<environment, edge>>

\* A request that cannot be built is ended by hand, before finishRequest is
\* deferred.
NewRequest(i) ==
  /\ At(i, "request")
  /\ \/ Continue(i, "http")
     \/ Goto(i, "endExecution", [local[i] EXCEPT !.failed = "request"])
  /\ UNCHANGED <<environment, tracker>>

SkipsFinishOnError(i) ==
  /\ At(i, "http")
  /\ Continue(i, "endExecution") \/ Return(i, 500)
  /\ UNCHANGED <<environment, tracker>>

\* The container's answer (200 stands for any status it sends), or an error of
\* the exchange, after which only the deferred finishRequest runs.
Exchange(i) ==
  /\ At(i, "http")
  /\ \/ Continue(i, "endExecution")
     \/ Goto(i, "finish", [local[i] EXCEPT !.failed = "exchange"])
  /\ UNCHANGED <<environment, tracker>>

EndExecution(i) ==
  /\ At(i, "endExecution")
  /\ SetContext(i, "ended")
  /\ Continue(i, "finish")
  /\ UNCHANGED <<environment, edge>>

\* finishRequest.
Finish(i) ==
  /\ At(i, "finish")
  /\ IF AutoscalerEnabled THEN AS!EndInvocation(local[i].fn) ELSE UNCHANGED autoscaler
  /\ Return(i, IF local[i].failed = None THEN 200 ELSE 500)
  /\ UNCHANGED <<route, tracker>>

RouteStep(i) ==
  \/ Accept(i) \/ Snapshot(i) \/ CallerRoute(i)
  \/ ColdStart(i) \/ Restart(i) \/ Settle(i) \/ WaitRoute(i)

ServeStep(i) ==
  Edge(i) \/ Begin(i) \/ StartExecution(i) \/ NewRequest(i) \/ EndExecution(i) \/ Finish(i)
-----------------------------------------------------------------------------
(* Deployments, deletes and the idle check. *)

\* The function has a handler; without the autoscaler no route outlives it.
Deployed(f) ==
  IF AutoscalerEnabled THEN ~AS!InState(f, "Unregistered") ELSE Exists(f)

Fresh(h) == \A f \in Functions : autoscaler[f].entry # h

Deploy(f) ==
  /\ ~Deployed(f)
  /\ \E h \in Handlers :
       /\ Fresh(h) /\ \A i \in Invocations : local[i].entry # h
       /\ IF AutoscalerEnabled THEN AS!RegisterFunction(f, h) ELSE UNCHANGED autoscaler
  /\ route' = [route EXCEPT ![f] = "active"]
  /\ UNCHANGED <<tracker, outcome, pc, local>>

Delete(f) ==
  /\ f \in Removable /\ Deployed(f)
  /\ route' = [route EXCEPT ![f] = "none"]
  /\ AS!UnregisterFunction(f)
  /\ UNCHANGED <<tracker, outcome, pc, local>>

ScaleDown(f) ==
  /\ AS!Idle(f)
  /\ route' = [route EXCEPT ![f] = "inactive"]
  /\ autoscaler' = [autoscaler EXCEPT ![f].state = "ScaledDown"]
  /\ UNCHANGED <<tracker, outcome, pc, local>>
-----------------------------------------------------------------------------
Next ==
  \/ \E i \in Invocations :
       \/ \E f \in Functions, kind \in Kinds : Arrive(i, f, kind)
       \/ RouteStep(i) \/ ServeStep(i) \/ Exchange(i)
  \/ \E f \in Functions : Deploy(f) \/ Delete(f) \/ ScaleDown(f)

Spec == Init /\ [][Next]_vars

\* A goroutine that can go on is scheduled, and deadlines pass.  Containers owe
\* no answer (Exchange): the HTTP client has no timeout.
FairSpec == Spec /\ \A i \in Invocations : WF_vars(RouteStep(i) \/ ServeStep(i))
-----------------------------------------------------------------------------
ColdStartLabels == {"coldStart", "restart", "settle", "waitRoute"}

PcLabels ==
  {"idle", "accept", "snapshot", "callerRoute", "edge", "begin", "start",
   "request", "http", "endExecution", "finish", "done"} \cup ColdStartLabels

Statuses == {0, 200, 400, 404, 500, 503}

TypeOK ==
  /\ route \in [Functions -> {"none", "inactive", "active"}]
  /\ AS!TypeOK
  /\ context \in [Invocations -> {"none", "open", "ended"}]
  /\ edge \in [Invocations ->
               {None} \cup [caller : Tracked \cup {"external"}, callee : Tracked,
                            kind : Kinds]]
  /\ outcome \in [Invocations -> Statuses]
  /\ pc \in [Invocations -> PcLabels]
  /\ local \in [Invocations ->
                [fn : Functions \cup {None}, kind : Kinds,
                 caller : Tracked \cup {None, "external"}, ready : BOOLEAN,
                 entry : Handlers \cup {None}, ok : BOOLEAN,
                 failed : {None, "request", "exchange"}]]

Counted(f) ==
  {i \in Invocations : local[i].fn = f
     /\ pc[i] \in {"start", "request", "http", "endExecution", "finish"}}

\* finishRequest runs exactly once for every StartInvocation that succeeded, by
\* hand or deferred, whichever error ends the request (server.go:453-507): the
\* autoscaler's count is the number of requests being served.  A delete drops
\* the count of a function with its registration; it is then never too high.
InFlightExact ==
  AutoscalerEnabled =>
    \A f \in Functions :
      /\ autoscaler[f].inFlight <= Cardinality(Counted(f))
      /\ f \notin Removable => autoscaler[f].inFlight = Cardinality(Counted(f))

\* "End execution - records function stats and cleans up context"
\* (server.go:523): an execution context outlives its request only when the
\* exchange with the container failed, an answered execution is always ended,
\* and a request that never reached the container has no context left.
ContextsAccounted ==
  \A i \in Invocations :
    /\ context[i] = "open" /\ pc[i] \in {"finish", "done"} => local[i].failed = "exchange"
    /\ local[i].fn \in Tracked /\ outcome[i] = 200 => context[i] = "ended"
    /\ outcome[i] \in {404, 503} => context[i] = "none"

\* "Failed cold-start attempts that cannot route traffic do not create edge
\* records" (README.md:170): an invocation has an edge only if it has seen its
\* callee's route ready; and every execution has the edge that led to it.
EdgesOfReadyRoutes ==
  \A i \in Invocations :
    /\ edge[i] # None => local[i].ready
    /\ context[i] # "none" => edge[i] # None /\ edge[i].callee = local[i].fn

\* What the call graph is told belongs together on every path of invoke: edges
\* come from ready routes, contexts end with their requests.
CallGraphAccounted == ContextsAccounted /\ EdgesOfReadyRoutes

\* An invocation that meets a cold start gets a route or gives up: neither the
\* failure of somebody else's cold start nor a delete leaves it waiting.
ColdStartsResolve ==
  \A i \in Invocations : pc[i] \in ColdStartLabels ~> pc[i] \notin ColdStartLabels
=============================================================================
