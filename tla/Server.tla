------------------------------- MODULE Server -------------------------------
(***************************************************************************)
(* The lifecycle and dispatch core of pkg/server: deploying, calling,      *)
(* deleting and scaling functions, each request in a goroutine of its own. *)
(*                                                                         *)
(* mux guards functionHandlers; Delete holds it across several steps, the  *)
(* others only for a lookup or a commit.  The routing table has its own    *)
(* lock.  Operations of one handler are serialized by its opMux and are    *)
(* steps of HandlerContract.  Between any two steps of one goroutine the   *)
(* others may act.                                                         *)
(***************************************************************************)
EXTENDS HandlerContract

CONSTANTS
  Functions, IPs, None,
  Handlers,          \* one for each deployment the bound allows
  Deployers,         \* goroutines serving /upload
  Deleters,          \* goroutines serving /delete and /wipe
  Callers,           \* goroutines serving an invocation
  Scalers,           \* the autoscaler's idle check, and prewarm goroutines
  replicas,
  AutoscalerEnabled,
  Redeploy,          \* a function may be deployed more than once
  Faults             \* the handler operations that may fail

VARIABLES
  functionHandlers,      \* function -> its current handler, or None
  routingTable, reverseRoutingTable,
  autoscaler,
  handler,               \* the state of every handler, as its contract sees it
  deployed,              \* handler -> the function it was created for, or None
  mux,                   \* the deleter that holds mux, or None
  pc, local              \* every goroutine's next step and variables

tables == <<routingTable, reverseRoutingTable>>
runtime == <<handler, deployed>>
vars == <<functionHandlers, tables, autoscaler, runtime, mux, pc, local>>

Threads == Deployers \cup Deleters \cup Callers \cup Scalers

Operations == {"start", "stop", "destroy"}

ASSUME ThreadsAssumption ==
  /\ None \notin Functions \cup Handlers \cup Threads \cup IPs
  /\ Deployers \cap (Deleters \cup Callers \cup Scalers) = {}
  /\ Deleters \cap (Callers \cup Scalers) = {} /\ Callers \cap Scalers = {}
  /\ IsFiniteSet(Callers)

ASSUME SettingsAssumption ==
  /\ replicas \in Nat
  /\ AutoscalerEnabled \in BOOLEAN /\ Redeploy \in BOOLEAN
  /\ Faults \subseteq Operations

RT == INSTANCE RoutingTable
AS == INSTANCE Autoscaler

Reset ==
  [fn |-> None, old |-> None, new |-> None, h |-> None, ips |-> {}, ip |-> None, entry |-> None,
   ok |-> TRUE, todo |-> {}]

Init ==
  /\ functionHandlers = [f \in Functions |-> None]
  /\ RT!Init /\ AS!Init
  /\ handler = [h \in Handlers |-> [phase |-> "down", image |-> FALSE, ips |-> {}]]
  /\ deployed = [h \in Handlers |-> None]
  /\ mux = None
  /\ pc = [t \in Threads |-> "idle"]
  /\ local = [t \in Threads |-> Reset]
-----------------------------------------------------------------------------
At(t, label) == pc[t] = label

Goto(t, label, vars_t) ==
  /\ pc' = [pc EXCEPT ![t] = label]
  /\ local' = [local EXCEPT ![t] = vars_t]

Continue(t, label) == Goto(t, label, local[t])

Return(t) == Goto(t, "idle", Reset)

\* A critical section of mux shorter than a step.
MuxFree == mux = None

\* Addresses Docker may give out: those no running handler has.
FreeIPs == IPs \ UNION {handler[h].ips : h \in Handlers}

\* One operation on handler h; the goroutine goes on at one label or the other.
\* Operations outside Faults fail only where they cannot succeed.
Perform(o, h, results, t, okLabel, okLocal, errLabel, errLocal) ==
  \E r \in results :
    /\ r.ok \/ o \in Faults \/ \A q \in results : ~q.ok
    /\ handler' = [handler EXCEPT ![h] = r.state]
    /\ IF r.ok THEN Goto(t, okLabel, okLocal) ELSE Goto(t, errLabel, errLocal)
    /\ UNCHANGED deployed

StartHandler(h, t, okLabel, okLocal, errLabel, errLocal) ==
  Perform("start", h, StartResults(handler[h], FreeIPs, replicas),
          t, okLabel, okLocal, errLabel, errLocal)

StopHandler(h, t, okLabel, okLocal, errLabel, errLocal) ==
  Perform("stop", h, StopResults(handler[h]), t, okLabel, okLocal, errLabel, errLocal)

DestroyHandler(h, t, okLabel, okLocal, errLabel, errLocal) ==
  Perform("destroy", h, DestroyResults(handler[h]), t, okLabel, okLocal, errLabel, errLocal)
-----------------------------------------------------------------------------
(* The autoscaler's operations, run in the goroutine that claimed the      *)
(* function: TinyFaaSScaleOp.ScaleDown and ScaleUp (scaleop.go).           *)

Claimed(t, f, label) ==
  Goto(t, label, [local[t] EXCEPT !.fn = f, !.entry = autoscaler[f].entry])

BeginScaleDown(t, f) == AS!ClaimScaleDown(f) /\ Claimed(t, f, "downLookup")

BeginScaleUp(t, f) == AS!ClaimScaleUp(f) /\ Claimed(t, f, "upLookup")

\* Both operations look the handler up under mux, and fail without one.
Lookup(t, foundLabel, missingLabel) ==
  LET h == functionHandlers[local[t].fn]
  IN /\ MuxFree
     /\ Goto(t, IF h = None THEN missingLabel ELSE foundLabel,
             [local[t] EXCEPT !.h = h, !.ok = h # None])
     /\ UNCHANGED <<functionHandlers, tables, autoscaler, runtime, mux>>

DownLookup(t) == At(t, "downLookup") /\ Lookup(t, "downIPs", "downDone")

UpLookup(t) == At(t, "upLookup") /\ Lookup(t, "upRestart", "upDone")

DownIPs(t) ==
  /\ At(t, "downIPs")
  /\ Goto(t, "downUpdate", [local[t] EXCEPT !.ips = handler[local[t].h].ips])
  /\ UNCHANGED <<functionHandlers, tables, autoscaler, runtime, mux>>

DownSkipsUpdate(t) ==
  /\ At(t, "downUpdate")
  /\ Continue(t, "downStop")
  /\ UNCHANGED <<functionHandlers, tables, autoscaler, runtime, mux>>

\* The route goes before the containers do.
DownUpdate(t) ==
  /\ At(t, "downUpdate")
  /\ RT!Update(local[t].fn)
  /\ Continue(t, "downStop")
  /\ UNCHANGED <<functionHandlers, autoscaler, runtime, mux>>

DownStop(t) ==
  /\ At(t, "downStop")
  /\ StopHandler(local[t].h, t, "downDone", local[t],
                 "downRestore", [local[t] EXCEPT !.ok = FALSE])
  /\ UNCHANGED <<functionHandlers, tables, autoscaler, mux>>

\* "Restore the route so the function keeps serving on failure."
DownRestore(t) ==
  /\ At(t, "downRestore")
  /\ RT!Add(local[t].fn, local[t].ips)
  /\ Continue(t, "downDone")
  /\ UNCHANGED <<functionHandlers, autoscaler, runtime, mux>>

UpRestart(t) ==
  /\ At(t, "upRestart")
  /\ StartHandler(local[t].h, t, "upIPs", local[t],
                  "upDone", [local[t] EXCEPT !.ok = FALSE])
  /\ UNCHANGED <<functionHandlers, tables, autoscaler, mux>>

UpIPs(t) ==
  /\ At(t, "upIPs")
  /\ Goto(t, "upAdd", [local[t] EXCEPT !.ips = handler[local[t].h].ips])
  /\ UNCHANGED <<functionHandlers, tables, autoscaler, runtime, mux>>

UpAdd(t) ==
  /\ At(t, "upAdd")
  /\ RT!Add(local[t].fn, local[t].ips)
  /\ Goto(t, "upDone", [local[t] EXCEPT !.ok = RT!AddAccepts(local[t].ips), !.ips = {}])
  /\ UNCHANGED <<functionHandlers, autoscaler, runtime, mux>>

\* What the claiming goroutine does with the result: a redeployment goes on to
\* Start or gives up, a cold start goes on to the route or answers 503.
Resume(t) ==
  LET ok == local[t].ok
      cleared == [local[t] EXCEPT !.h = None, !.ips = {}, !.entry = None, !.ok = TRUE]
  IN  CASE t \in Deployers      -> Goto(t, IF ok THEN "start" ELSE "abort", cleared)
        [] t \in Callers /\ ok -> Goto(t, "waitRoute", cleared)
        [] OTHER               -> Return(t)

SettlesSuccessOnly(t) ==
  /\ \/ At(t, "downDone") /\ AS!Settle(local[t].fn, local[t].entry, ~local[t].ok)
     \/ At(t, "upDone") /\ local[t].ok /\ AS!Settle(local[t].fn, local[t].entry, TRUE)
     \/ At(t, "upDone") /\ ~local[t].ok /\ UNCHANGED autoscaler
  /\ Resume(t)
  /\ UNCHANGED <<functionHandlers, tables, runtime, mux>>

\* A failed ScaleDown leaves the function active, a failed ScaleUp stopped.
ScaleDone(t) ==
  /\ \/ At(t, "downDone") /\ AS!Settle(local[t].fn, local[t].entry, ~local[t].ok)
     \/ At(t, "upDone")   /\ AS!Settle(local[t].fn, local[t].entry, local[t].ok)
  /\ Resume(t)
  /\ UNCHANGED <<functionHandlers, tables, runtime, mux>>

ScaleStep(t) ==
  \/ DownLookup(t) \/ DownIPs(t) \/ DownUpdate(t) \/ DownStop(t) \/ DownRestore(t)
  \/ UpLookup(t) \/ UpRestart(t) \/ UpIPs(t) \/ UpAdd(t)
  \/ ScaleDone(t)
-----------------------------------------------------------------------------
(* /upload: createFunction. *)

\* The handler to replace is looked up long before the replacement is listed.
DeployLookup(t, f) ==
  /\ At(t, "idle") /\ MuxFree
  /\ Redeploy \/ \A h \in Handlers : deployed[h] # f
  /\ Goto(t, "create", [Reset EXCEPT !.fn = f, !.old = functionHandlers[f]])
  /\ UNCHANGED <<functionHandlers, tables, autoscaler, runtime, mux>>

\* Backend.Create; a request whose build fails changes nothing and is left out.
DeployCreate(t) ==
  /\ At(t, "create")
  /\ \E h \in Handlers :
       /\ deployed[h] = None
       /\ deployed' = [deployed EXCEPT ![h] = local[t].fn]
       /\ handler' = [handler EXCEPT ![h] = Created]
       /\ Goto(t, IF local[t].old # None /\ AutoscalerEnabled THEN "drain" ELSE "start",
               [local[t] EXCEPT !.new = h])
  /\ UNCHANGED <<functionHandlers, tables, autoscaler, mux>>

\* ScaleDownWhenIdle waits while the function is busy or being scaled; here it
\* begins, below it has nothing to do.
DeployDrain(t) ==
  /\ At(t, "drain")
  /\ BeginScaleDown(t, local[t].fn)
  /\ UNCHANGED <<functionHandlers, tables, runtime, mux>>

DeployDrained(t) ==
  /\ At(t, "drain")
  /\ \/ AS!InState(local[t].fn, "ScaledDown") /\ Continue(t, "start")
     \/ AS!InState(local[t].fn, "Unregistered") /\ Continue(t, "abort")
  /\ UNCHANGED <<functionHandlers, tables, autoscaler, runtime, mux>>

DeployStart(t) ==
  /\ At(t, "start")
  /\ StartHandler(local[t].new, t, "add", local[t], "abort", local[t])
  /\ UNCHANGED <<functionHandlers, tables, autoscaler, mux>>

DeployAdd(t) ==
  LET ips == handler[local[t].new].ips
  IN /\ At(t, "add")
     /\ RT!Add(local[t].fn, ips)
     /\ Continue(t, IF RT!AddAccepts(ips) THEN "commit" ELSE "abort")
     /\ UNCHANGED <<functionHandlers, autoscaler, runtime, mux>>

DeployCommit(t) ==
  /\ At(t, "commit") /\ MuxFree
  /\ functionHandlers' = [functionHandlers EXCEPT ![local[t].fn] = local[t].new]
  /\ Continue(t, "register")
  /\ UNCHANGED <<tables, autoscaler, runtime, mux>>

KeepsOld(t) ==
  /\ At(t, "register")
  /\ IF AutoscalerEnabled
       THEN AS!RegisterFunction(local[t].fn, local[t].new)
       ELSE UNCHANGED autoscaler
  /\ Return(t)
  /\ UNCHANGED <<functionHandlers, tables, runtime, mux>>

DeployRegister(t) ==
  /\ At(t, "register")
  /\ IF AutoscalerEnabled
       THEN AS!RegisterFunction(local[t].fn, local[t].new)
       ELSE UNCHANGED autoscaler
  /\ IF local[t].old = None THEN Return(t) ELSE Continue(t, "destroyOld")
  /\ UNCHANGED <<functionHandlers, tables, runtime, mux>>

DestroysListed(t) ==
  /\ At(t, "destroyOld") /\ functionHandlers[local[t].fn] # None
  /\ DestroyHandler(functionHandlers[local[t].fn], t, "idle", Reset, "idle", Reset)
  /\ UNCHANGED <<functionHandlers, tables, autoscaler, mux>>

\* The old handler goes last, and a replacement that came to nothing goes too.
DeployDestroyOld(t) ==
  /\ At(t, "destroyOld")
  /\ DestroyHandler(local[t].old, t, "idle", Reset, "idle", Reset)
  /\ UNCHANGED <<functionHandlers, tables, autoscaler, mux>>

DeployAbort(t) ==
  /\ At(t, "abort")
  /\ DestroyHandler(local[t].new, t, "idle", Reset, "idle", Reset)
  /\ UNCHANGED <<functionHandlers, tables, autoscaler, mux>>

DeployStep(t) ==
  \/ DeployCreate(t) \/ DeployDrain(t) \/ DeployDrained(t) \/ DeployStart(t)
  \/ DeployAdd(t) \/ DeployCommit(t) \/ DeployRegister(t)
  \/ DeployDestroyOld(t) \/ DeployAbort(t)
-----------------------------------------------------------------------------
(* /delete and /wipe: a wipe is a delete of every function listed, with the *)
(* errors dropped.  Delete holds mux from its lookup to its end.            *)

DeleteRequest(t) ==
  /\ At(t, "idle") /\ MuxFree
  /\ \E names \in {{f} : f \in Functions}
                 \cup {{f \in Functions : functionHandlers[f] # None}} :
       names # {} /\ Goto(t, "deleteLock", [Reset EXCEPT !.todo = names])
  /\ UNCHANGED <<functionHandlers, tables, autoscaler, runtime, mux>>

\* On to the next name, or back to the client.
NextDelete(t, f) ==
  LET rest == local[t].todo \ {f}
  IN  IF rest = {} THEN Return(t) ELSE Goto(t, "deleteLock", [Reset EXCEPT !.todo = rest])

DeleteLock(t) ==
  /\ At(t, "deleteLock") /\ MuxFree
  /\ \E f \in local[t].todo :
       IF functionHandlers[f] = None
         THEN NextDelete(t, f) /\ UNCHANGED mux
         ELSE /\ mux' = t
              /\ Goto(t, "deleteDestroy",
                      [local[t] EXCEPT !.fn = f, !.h = functionHandlers[f]])
  /\ UNCHANGED <<functionHandlers, tables, autoscaler, runtime>>

\* When the handler cannot be destroyed Delete leaves everything else in place.
DeleteDestroy(t) ==
  /\ At(t, "deleteDestroy")
  /\ DestroyHandler(local[t].h, t, "deleteRoute", local[t], "deleteFailed", local[t])
  /\ UNCHANGED <<functionHandlers, tables, autoscaler, mux>>

KeepsMux(t) ==
  /\ At(t, "deleteFailed")
  /\ NextDelete(t, local[t].fn)
  /\ UNCHANGED <<functionHandlers, tables, autoscaler, runtime, mux>>

DeleteFailed(t) ==
  /\ At(t, "deleteFailed")
  /\ mux' = None
  /\ NextDelete(t, local[t].fn)
  /\ UNCHANGED <<functionHandlers, tables, autoscaler, runtime>>

DeleteRoute(t) ==
  /\ At(t, "deleteRoute")
  /\ RT!Del(local[t].fn)
  /\ Continue(t, "deleteFinish")
  /\ UNCHANGED <<functionHandlers, autoscaler, runtime, mux>>

\* The map entry is read under mux only, so its removal, the autoscaler's and
\* the unlocking are one step.
DeleteFinish(t) ==
  /\ At(t, "deleteFinish")
  /\ functionHandlers' = [functionHandlers EXCEPT ![local[t].fn] = None]
  /\ AS!UnregisterFunction(local[t].fn)
  /\ mux' = None
  /\ NextDelete(t, local[t].fn)
  /\ UNCHANGED <<tables, runtime>>

DeleteStep(t) ==
  \/ DeleteLock(t) \/ DeleteDestroy(t) \/ DeleteFailed(t)
  \/ DeleteRoute(t) \/ DeleteFinish(t)
-----------------------------------------------------------------------------
(* An invocation: Call and invoke.  An asynchronous one is the same with   *)
(* nobody waiting for the answer.                                          *)

Ready(route) == route.isActive /\ route.ips # {}

\* The snapshot of the callee's route; without one the answer is 404.
CallSnapshot(t, f) ==
  /\ At(t, "idle") /\ RT!HasRoute(f)
  /\ LET route == routingTable[f]
         taken == [Reset EXCEPT !.fn = f, !.ips = route.ips]
     IN  \/ Ready(route) /\ Goto(t, "begin", taken)
         \/ AutoscalerEnabled /\ ~route.isActive /\ Goto(t, "coldStart", taken)
  /\ UNCHANGED <<functionHandlers, tables, autoscaler, runtime, mux>>

\* ScaleUpWhenReady: perform the cold start, or find that it is not needed, or
\* not possible; while another goroutine is scaling the function, wait.
CallColdStart(t) ==
  /\ At(t, "coldStart")
  /\ BeginScaleUp(t, local[t].fn)
  /\ UNCHANGED <<functionHandlers, tables, runtime, mux>>

CallColdStarted(t) ==
  /\ At(t, "coldStart")
  /\ \/ AS!InState(local[t].fn, "Active") /\ Continue(t, "waitRoute")
     \/ AS!InState(local[t].fn, "Unregistered") /\ Return(t)
  /\ UNCHANGED <<functionHandlers, tables, autoscaler, runtime, mux>>

\* waitForRouteReady takes a new snapshot; a route gone, or not ready in time,
\* is answered 503.
CallWaitRoute(t) ==
  /\ At(t, "waitRoute")
  /\ LET f == local[t].fn
     IN  IF RT!HasRoute(f) /\ Ready(routingTable[f])
           THEN Goto(t, "begin", [local[t] EXCEPT !.ips = routingTable[f].ips])
           ELSE Return(t)
  /\ UNCHANGED <<functionHandlers, tables, autoscaler, runtime, mux>>

UncountedBegin(t) ==
  /\ At(t, "begin")
  /\ IF AutoscalerEnabled THEN AS!InState(local[t].fn, "Active") ELSE TRUE
  /\ \E ip \in local[t].ips : Goto(t, "http", [local[t] EXCEPT !.ip = ip, !.ips = {}])
  /\ UNCHANGED <<functionHandlers, tables, autoscaler, runtime, mux>>

\* StartInvocation, then an address out of the snapshot; the branch for a
\* snapshot without one is never taken (Pickable).
CallBegin(t) ==
  /\ At(t, "begin")
  /\ IF AutoscalerEnabled THEN AS!StartInvocation(local[t].fn) ELSE UNCHANGED autoscaler
  /\ \E ip \in local[t].ips : Goto(t, "http", [local[t] EXCEPT !.ip = ip, !.ips = {}])
  /\ UNCHANGED <<functionHandlers, tables, runtime, mux>>

CallRefused(t) ==
  /\ At(t, "begin") /\ AutoscalerEnabled
  /\ ~AS!InState(local[t].fn, "Active")
  /\ Return(t)
  /\ UNCHANGED <<functionHandlers, tables, autoscaler, runtime, mux>>

UnfinishedOnError(t) ==
  /\ At(t, "http")
  /\ \/ UNCHANGED autoscaler
     \/ AutoscalerEnabled /\ AS!EndInvocation(local[t].fn)
  /\ Return(t)
  /\ UNCHANGED <<functionHandlers, tables, runtime, mux>>

\* The answer, or the error of the HTTP client: finishRequest in both cases.
CallFinish(t) ==
  /\ At(t, "http")
  /\ IF AutoscalerEnabled THEN AS!EndInvocation(local[t].fn) ELSE UNCHANGED autoscaler
  /\ Return(t)
  /\ UNCHANGED <<functionHandlers, tables, runtime, mux>>

CallStep(t) ==
  \/ CallColdStart(t) \/ CallColdStarted(t) \/ CallWaitRoute(t)
  \/ CallBegin(t) \/ CallRefused(t)
-----------------------------------------------------------------------------
(* The autoscaler's idle check, and a prewarm goroutine's TryScaleUp. *)

IdleScaleDown(t, f) ==
  /\ At(t, "idle")
  /\ BeginScaleDown(t, f)
  /\ UNCHANGED <<functionHandlers, tables, runtime, mux>>

Prewarm(t, f) ==
  /\ At(t, "idle")
  /\ BeginScaleUp(t, f)
  /\ UNCHANGED <<functionHandlers, tables, runtime, mux>>
-----------------------------------------------------------------------------
Request ==
  \E f \in Functions :
    \/ \E t \in Deployers : DeployLookup(t, f)
    \/ \E t \in Callers : CallSnapshot(t, f)
    \/ \E t \in Scalers : IdleScaleDown(t, f) \/ Prewarm(t, f)

\* Steps of begun requests that need mux free, and those that do not.
LockStep(t) ==
  \/ DownLookup(t) \/ UpLookup(t)
  \/ t \in Deployers /\ DeployCommit(t)
  \/ t \in Deleters /\ DeleteLock(t)

OwnStep(t) ==
  \/ ScaleStep(t)
  \/ t \in Deployers /\ DeployStep(t)
  \/ t \in Deleters /\ DeleteStep(t)
  \/ t \in Callers /\ CallStep(t)

Next ==
  \/ Request
  \/ \E t \in Deployers : DeployStep(t)
  \/ \E t \in Deleters : DeleteRequest(t) \/ DeleteStep(t)
  \/ \E t \in Callers : CallStep(t) \/ CallFinish(t)
  \/ \E t \in Deployers \cup Callers \cup Scalers : ScaleStep(t)

Spec == Init /\ [][Next]_vars

\* A goroutine with something to do is scheduled; sync.Mutex hands mux to a
\* waiter that has waited long enough, so a waiter that can lock again and
\* again does.  Clients owe no request, containers no answer.
FairSpec ==
  /\ Spec
  /\ \A t \in Threads : WF_vars(OwnStep(t)) /\ SF_vars(LockStep(t))
-----------------------------------------------------------------------------
PcLabels ==
  {"idle",
   "downLookup", "downIPs", "downUpdate", "downStop", "downRestore", "downDone",
   "upLookup", "upRestart", "upIPs", "upAdd", "upDone",
   "create", "drain", "start", "add", "commit", "register", "destroyOld", "abort",
   "deleteLock", "deleteDestroy", "deleteFailed", "deleteRoute", "deleteFinish",
   "coldStart", "waitRoute", "begin", "http"}

TypeOK ==
  /\ functionHandlers \in [Functions -> Handlers \cup {None}]
  /\ RT!TypeOK /\ AS!TypeOK
  /\ handler \in [Handlers -> HandlerState(IPs)]
  /\ deployed \in [Handlers -> Functions \cup {None}]
  /\ mux \in Deleters \cup {None}
  /\ pc \in [Threads -> PcLabels]
  /\ local \in [Threads -> [fn : Functions \cup {None},
                            old : Handlers \cup {None}, new : Handlers \cup {None},
                            h : Handlers \cup {None}, ips : SUBSET IPs,
                            ip : IPs \cup {None}, entry : Handlers \cup {None},
                            ok : BOOLEAN, todo : SUBSET Functions]]

\* invoke's branch for a route without an address (server.go:468) is dead: a
\* route is active exactly when it lists one, and no snapshot that passed the
\* readiness check is empty, whatever happened to the route since.
Pickable ==
  /\ \A f \in Functions : RT!HasRoute(f) =>
       (routingTable[f].isActive <=> routingTable[f].ips # {})
  /\ \A c \in Callers : At(c, "begin") => local[c].ips # {}

Serving(f) == {c \in Callers : At(c, "http") /\ local[c].fn = f}

\* No request is counted as in flight after it ended, on any path: a count that
\* leaked would keep the function from ever being scaled down or redeployed.
\* (The reverse fails: see the README on redeployment under load.)
InFlightNotLeaked ==
  \A f \in Functions : autoscaler[f].inFlight <= Cardinality(Serving(f))

ScaleLabels ==
  {"downLookup", "downIPs", "downUpdate", "downStop", "downRestore", "downDone",
   "upLookup", "upRestart", "upIPs", "upAdd", "upDone"}

ScalingThreads(f) ==
  {t \in Threads : pc[t] \in ScaleLabels /\ local[t].fn = f}

\* A function being scaled has exactly one goroutine that will settle it, so
\* nobody waits for a scaling operation that is already over.
ScalingOwned ==
  \A f \in Functions :
    /\ AS!Scaling(f) =>
         \E t \in ScalingThreads(f) : local[t].entry = autoscaler[f].entry
    /\ \A t, u \in ScalingThreads(f) : local[t].entry = local[u].entry => t = u

\* Containers are stopped by a scale-down only when no request is being served
\* by one of them (server_test.go, TestScaleDownWaitsForInFlightRequest).
StoppedIdle ==
  \A t \in Threads : At(t, "downStop") =>
    \A c \in Callers : At(c, "http") => local[c].ip \notin handler[local[t].h].ips

Busy(f) ==
  \E t \in Threads : pc[t] \in ScaleLabels \cup
      {"commit", "register", "destroyOld", "deleteDestroy", "deleteRoute", "deleteFinish"}
    /\ local[t].fn = f

\* When nobody is changing a listed function, a route that takes its requests
\* leads to running containers of the listed handler.
RouteServed ==
  \A f \in DOMAIN routingTable :
    routingTable[f].isActive /\ functionHandlers[f] # None /\ ~Busy(f) =>
      LET h == functionHandlers[f]
      IN  handler[h].phase = "up" /\ routingTable[f].ips \subseteq handler[h].ips

\* An address is attributed to a function only while the function is routed to
\* it, so that an internal call is booked to the function that made it.
ReverseOwned ==
  \A ip \in IPs, f \in Functions :
    reverseRoutingTable[ip] = f => RT!HasRoute(f) /\ ip \in routingTable[f].ips

\* A handler has been or is being made for f, and is not listed yet.
BeingDeployed(f) ==
  \/ \A h \in Handlers : deployed[h] # f
  \/ \E d \in Deployers :
       pc[d] \in {"create", "start", "add", "commit", "abort"} /\ local[d].fn = f

\* A function as its clients see it.
Life ==
  [f \in Functions |->
     IF functionHandlers[f] = None THEN IF BeingDeployed(f) THEN "absent" ELSE "gone"
     ELSE IF mux # None /\ local[mux].fn = f THEN "leaving"
     ELSE IF handler[functionHandlers[f]].phase = "up" THEN "up" ELSE "down"]

Requests == [c \in Callers |-> IF At(c, "http") THEN local[c].fn ELSE None]

Service == INSTANCE FunctionService WITH life <- Life, request <- Requests

\* What clients see of deployments, scaling operations and deletes, each with
\* all of its steps, is a function that comes up, is stopped only while it serves
\* nobody, serves only while it is not stopped, and never comes back once deleted.
ServesFunctions == Service!Spec

InHand(h) == \E t \in Threads : h \in {local[t].new, local[t].old}

\* Running containers always belong to the handler listed for their function,
\* or to one that a deployment still has in hand: none is left behind that
\* nobody will ever stop.
NoOrphans ==
  \A h \in Handlers : handler[h].phase = "up" /\ ~InHand(h) =>
    functionHandlers[deployed[h]] = h

\* A listed function can be started from zero, also after failed redeployments,
\* unless it is being deleted right now.
ListedRestartable ==
  \A f \in Functions :
    functionHandlers[f] # None /\ ~(mux # None /\ local[mux].fn = f)
      => handler[functionHandlers[f]].image

\* A scaling operation ends, whatever fails in it, so cold starts and drains
\* that wait for it go on; and a delete or wipe ends, however many others
\* compete for mux.
ScalingEnds == \A f \in Functions : AS!Scaling(f) ~> ~AS!Scaling(f)

DeletesEnd == \A t \in Deleters : pc[t] # "idle" ~> pc[t] = "idle"
=============================================================================
