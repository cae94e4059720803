------------------------------ MODULE Locking ------------------------------
(***************************************************************************)
(* Who waits for whom in pkg/server: the locks that requests hold while    *)
(* they wait for other locks, and the requests that only read (/list,      *)
(* /function, /logs).                                                      *)
(*                                                                         *)
(* There are three kinds of lock.  mux guards functionHandlers and         *)
(* functionConfigs; Get, List and Delete hold it while they wait for the   *)
(* opMux of a handler.  A handler's opMux is held for the whole of an      *)
(* operation on its containers, up to a minute.  The autoscaler lets one   *)
(* goroutine at a time scale a function; cold starts and redeployments     *)
(* wait for it, and it waits for mux and opMux.  The routing table's lock  *)
(* is never held across a step and is left out, as are routes, requests    *)
(* in flight and the containers' states: module Server has them.           *)
(***************************************************************************)
EXTENDS FiniteSets

CONSTANTS
  Functions, None,
  Handlers,          \* one for each deployment that may exist at a time
  Readers,           \* goroutines serving /list, /function and /logs
  Deleters,          \* goroutines serving /delete
  Deployers,         \* goroutines serving /upload
  Scalers,           \* the idle check, cold starts and prewarm goroutines
  Removable          \* the functions that may be deleted

VARIABLES
  functionHandlers, functionConfigs,  \* function -> the deployment, or None
  live,         \* the handlers made and not destroyed
  holder,       \* lock -> the goroutine that has it, or None
  pc, local     \* every goroutine's next step and variables

maps == <<functionHandlers, functionConfigs>>
vars == <<maps, live, holder, pc, local>>

Threads == Readers \cup Deleters \cup Deployers \cup Scalers

Mux == "mux"

\* mux, the opMux of every handler, the scaling claim of every function.
Locks == {Mux} \cup Handlers \cup Functions

ASSUME LocksAssumption ==
  /\ Mux \notin Handlers \cup Functions /\ Handlers \cap Functions = {}
  /\ None \notin Locks \cup Threads
  /\ Readers \cap (Deleters \cup Deployers \cup Scalers) = {}
  /\ Deleters \cap (Deployers \cup Scalers) = {} /\ Deployers \cap Scalers = {}
  /\ Removable \subseteq Functions

Reset ==
  [fn |-> None, h |-> None, op |-> None, old |-> None, new |-> None,
   todo |-> {}, ok |-> TRUE]

Init ==
  /\ functionHandlers = [f \in Functions |-> None]
  /\ functionConfigs = [f \in Functions |-> None]
  /\ live = {}
  /\ holder = [l \in Locks |-> None]
  /\ pc = [t \in Threads |-> "idle"]
  /\ local = [t \in Threads |-> Reset]
-----------------------------------------------------------------------------
At(t, label) == pc[t] = label

Goto(t, label, vars_t) ==
  /\ pc' = [pc EXCEPT ![t] = label]
  /\ local' = [local EXCEPT ![t] = vars_t]

Continue(t, label) == Goto(t, label, local[t])

Return(t) == Goto(t, "idle", Reset)

\* A critical section within a step only needs the lock free.
Free(l) == holder[l] = None

Lock(t, l) == Free(l) /\ holder' = [holder EXCEPT ![l] = t]

Unlock(l) == holder' = [holder EXCEPT ![l] = None]

Listed == {f \in Functions : functionHandlers[f] # None}
-----------------------------------------------------------------------------
(* Get and List: one name or all, under mux to the end. *)

ReadRequest(t) ==
  /\ At(t, "idle")
  /\ \E names \in {{f} : f \in Functions} \cup {Functions} :
       Goto(t, "readLock", [Reset EXCEPT !.todo = names])
  /\ UNCHANGED <<maps, live, holder>>

\* The names found are those of the loop that follows.
UnlockedRead(t) ==
  /\ At(t, "readLock") /\ Free(Mux)
  /\ Goto(t, "reading", [local[t] EXCEPT !.todo = @ \cap Listed])
  /\ UNCHANGED <<maps, live, holder>>

ReadLock(t) ==
  /\ At(t, "readLock") /\ Lock(t, Mux)
  /\ Goto(t, "reading", [local[t] EXCEPT !.todo = @ \cap Listed])
  /\ UNCHANGED <<maps, live>>

ReadNext(t) ==
  /\ At(t, "reading")
  /\ \E f \in local[t].todo :
       Goto(t, "isRunning", [local[t] EXCEPT !.fn = f, !.h = functionHandlers[f]])
  /\ UNCHANGED <<maps, live, holder>>

IsRunning(t) ==
  /\ At(t, "isRunning") /\ Free(local[t].h)
  /\ Goto(t, "reading", [Reset EXCEPT !.todo = local[t].todo \ {local[t].fn}])
  /\ UNCHANGED <<maps, live, holder>>

ReadDone(t) ==
  /\ At(t, "reading") /\ local[t].todo = {}
  /\ Unlock(Mux)
  /\ Return(t)
  /\ UNCHANGED <<maps, live>>

(* Logs takes mux once for the names, then again for every name; the       *)
(* journal is read without it.                                             *)

LogsRequest(t) ==
  /\ At(t, "idle") /\ Continue(t, "logsNames")
  /\ UNCHANGED <<maps, live, holder>>

LogsNames(t) ==
  /\ At(t, "logsNames") /\ Free(Mux)
  /\ IF Listed = {} THEN Return(t) ELSE Goto(t, "logsFunction", [Reset EXCEPT !.todo = Listed])
  /\ UNCHANGED <<maps, live, holder>>

\* LogsFunction: a name not listed any more fails the whole request.
LogsFunction(t) ==
  /\ At(t, "logsFunction") /\ Free(Mux)
  /\ \E f \in local[t].todo :
       LET rest == local[t].todo \ {f}
       IN  \/ f \notin Listed /\ Goto(t, "logsFailed", [Reset EXCEPT !.fn = f])
           \/ f \in Listed /\ rest = {} /\ Return(t)
           \/ /\ f \in Listed /\ rest # {}
              /\ Goto(t, "logsFunction", [Reset EXCEPT !.todo = rest])
  /\ UNCHANGED <<maps, live, holder>>

LogsFailed(t) ==
  /\ At(t, "logsFailed") /\ Return(t)
  /\ UNCHANGED <<maps, live, holder>>

ReadStep(t) ==
  \/ ReadLock(t) \/ ReadNext(t) \/ IsRunning(t) \/ ReadDone(t)
  \/ LogsNames(t) \/ LogsFunction(t) \/ LogsFailed(t)
-----------------------------------------------------------------------------
(* An operation on a handler: Start, Stop, Restart and Destroy hold its    *)
(* opMux from the first step on Docker to the last.                        *)

Operate(t, op, h) ==
  Goto(t, "opLock", [local[t] EXCEPT !.op = op, !.h = h, !.ok = TRUE])

\* Destroying a handler is the last thing a deployment does.
Discard(t, h) == Goto(t, "opLock", [Reset EXCEPT !.op = "destroy", !.h = h])

OpLock(t) ==
  /\ At(t, "opLock") /\ Lock(t, local[t].h)
  /\ live' = IF local[t].op = "destroy" THEN live \ {local[t].h} ELSE live
  /\ Continue(t, "op")
  /\ UNCHANGED maps

\* Docker may refuse any of it; opMux is unlocked either way.  A listed handler
\* that could not be destroyed is still there.  ScaleUp asks a handler that was
\* restarted for its addresses.
OpEnd(t) ==
  /\ At(t, "op")
  /\ \E ok \in BOOLEAN :
       /\ live' = IF ~ok /\ \E f \in Listed : functionHandlers[f] = local[t].h
                    THEN live \cup {local[t].h}
                    ELSE live
       /\ IF local[t].op = "restart" /\ ok
            THEN Continue(t, "restartIPs")
            ELSE Goto(t, "opDone", [local[t] EXCEPT !.ok = ok, !.h = None])
  /\ Unlock(local[t].h)
  /\ UNCHANGED maps
-----------------------------------------------------------------------------
(* Delete: mux from the lookup to the end. *)

DeleteRequest(t, f) ==
  /\ At(t, "idle") /\ Goto(t, "deleteLock", [Reset EXCEPT !.fn = f])
  /\ UNCHANGED <<maps, live, holder>>

DrainsFirst(t) ==
  /\ At(t, "deleteLock")
  /\ IF local[t].fn \in Listed
       THEN Lock(t, Mux) /\ Continue(t, "claim")
       ELSE Free(Mux) /\ Return(t) /\ UNCHANGED holder
  /\ UNCHANGED <<maps, live>>

DeleteLock(t) ==
  /\ At(t, "deleteLock")
  /\ IF local[t].fn \in Listed
       THEN Lock(t, Mux) /\ Operate(t, "destroy", functionHandlers[local[t].fn])
       ELSE Free(Mux) /\ Return(t) /\ UNCHANGED holder
  /\ UNCHANGED <<maps, live>>

RetriesDestroy(t) ==
  /\ At(t, "opDone") /\ ~local[t].ok
  /\ Operate(t, "destroy", functionHandlers[local[t].fn])
  /\ UNCHANGED <<maps, live, holder>>

DeleteFailed(t) ==
  /\ At(t, "opDone") /\ ~local[t].ok
  /\ Unlock(Mux)
  /\ Return(t)
  /\ UNCHANGED <<maps, live>>

\* UnregisterFunction does not wait for whoever is scaling the function: the
\* registration goes, and the claim with it.
DeleteFinish(t) ==
  LET f == local[t].fn
  IN  /\ At(t, "opDone") /\ local[t].ok
      /\ functionHandlers' = [functionHandlers EXCEPT ![f] = None]
      /\ functionConfigs' = [functionConfigs EXCEPT ![f] = None]
      /\ holder' = [holder EXCEPT ![f] = None, ![Mux] = None]
      /\ Return(t)
      /\ UNCHANGED live

DeleteStep(t) == DeleteLock(t) \/ DeleteFailed(t) \/ DeleteFinish(t)
-----------------------------------------------------------------------------
(* Scaling: TinyFaaSScaleOp's ScaleDown and ScaleUp in the goroutine that  *)
(* claimed the function.                                                   *)

\* The idle check and prewarming try, a cold start waits.
TryScale(t, f) ==
  /\ At(t, "idle") /\ Lock(t, f)
  /\ Goto(t, "scaleLookup", [Reset EXCEPT !.fn = f])
  /\ UNCHANGED <<maps, live>>

ColdStart(t, f) ==
  /\ At(t, "idle")
  /\ Goto(t, "claim", [Reset EXCEPT !.fn = f])
  /\ UNCHANGED <<maps, live, holder>>

\* A redeployment goes on to start the new handler, or gives it up.
Resume(t, ok) ==
  CASE t \in Scalers        -> Return(t)
    [] t \in Deployers /\ ok -> Operate(t, "start", local[t].new)
    [] OTHER                -> Discard(t, local[t].new)

\* ScaleUpWhenReady and ScaleDownWhenIdle: perform the scaling, or find the
\* function already as it should be, or not registered at all.
Claim(t) ==
  LET f == local[t].fn
  IN  /\ At(t, "claim") /\ Free(f)
      /\ \/ Lock(t, f) /\ Continue(t, "scaleLookup")
         \/ (\E ok \in BOOLEAN : Resume(t, ok)) /\ UNCHANGED holder
      /\ UNCHANGED <<maps, live>>

\* ScaleDown reads the addresses before it stops, ScaleUp after it restarted;
\* a redeployment only scales down.
ScaleLookup(t) ==
  LET f == local[t].fn
  IN  /\ At(t, "scaleLookup") /\ Free(Mux)
      /\ \/ /\ f \in Listed
            /\ Goto(t, "scaleIPs", [local[t] EXCEPT !.h = functionHandlers[f]])
         \/ /\ f \in Listed /\ t \in Scalers
            /\ Operate(t, "restart", functionHandlers[f])
         \/ f \notin Listed /\ Goto(t, "opDone", [local[t] EXCEPT !.op = "scale", !.ok = FALSE])
      /\ UNCHANGED <<maps, live, holder>>

ScaleIPs(t) ==
  /\ At(t, "scaleIPs") /\ Free(local[t].h)
  /\ Operate(t, "scale", local[t].h)
  /\ UNCHANGED <<maps, live, holder>>

RestartIPs(t) ==
  /\ At(t, "restartIPs") /\ Free(local[t].h)
  /\ Goto(t, "opDone", [local[t] EXCEPT !.h = None])
  /\ UNCHANGED <<maps, live, holder>>

\* The claim may have gone with its registration, and be somebody else's.
ScaleDone(t) ==
  LET f == local[t].fn
  IN  /\ At(t, "opDone") /\ local[t].op \in {"scale", "restart"}
      /\ IF holder[f] = t THEN Unlock(f) ELSE UNCHANGED holder
      /\ Resume(t, local[t].ok)
      /\ UNCHANGED <<maps, live>>

ScaleStep(t) ==
  Claim(t) \/ ScaleLookup(t) \/ ScaleIPs(t) \/ RestartIPs(t) \/ ScaleDone(t)
-----------------------------------------------------------------------------
(* createFunction. *)

Unused(h) ==
  /\ \A f \in Functions : functionHandlers[f] # h
  /\ \A t \in Threads : h \notin {local[t].h, local[t].old, local[t].new}

\* The lookup of the old handler, and Backend.Create of the new one; an upload
\* that waits for mux so far holds nothing and promises nothing.
DeployLookup(t, f) ==
  LET old == functionHandlers[f]
  IN  /\ At(t, "idle") /\ Free(Mux)
      /\ \E h \in {g \in Handlers : Unused(g)} :
           /\ live' = live \cup {h}
           /\ IF old = None
                THEN Goto(t, "opLock", [Reset EXCEPT !.fn = f, !.new = h, !.h = h, !.op = "start"])
                ELSE Goto(t, "claim", [Reset EXCEPT !.fn = f, !.old = old, !.new = h])
      /\ UNCHANGED <<maps, holder>>

DeployStarted(t) ==
  /\ At(t, "opDone") /\ local[t].op = "start"
  /\ IF local[t].ok THEN Continue(t, "commit") ELSE Discard(t, local[t].new)
  /\ UNCHANGED <<maps, live, holder>>

DeployCommit(t) ==
  LET f == local[t].fn
  IN  /\ At(t, "commit") /\ Free(Mux)
      /\ functionHandlers' = [functionHandlers EXCEPT ![f] = local[t].new]
      /\ functionConfigs' = [functionConfigs EXCEPT ![f] = local[t].new]
      /\ Goto(t, "register", [local[t] EXCEPT !.new = None, !.op = None])
      /\ UNCHANGED <<live, holder>>

\* RegisterFunction starts afresh, without the claims of earlier registrations.
DeployRegister(t) ==
  /\ At(t, "register")
  /\ Unlock(local[t].fn)
  /\ IF local[t].old = None THEN Return(t) ELSE Discard(t, local[t].old)
  /\ UNCHANGED <<maps, live>>

DeployEnd(t) ==
  /\ At(t, "opDone") /\ local[t].op = "destroy"
  /\ Return(t)
  /\ UNCHANGED <<maps, live, holder>>

DeployStep(t) ==
  \/ DeployStarted(t) \/ DeployCommit(t) \/ DeployRegister(t) \/ DeployEnd(t)
-----------------------------------------------------------------------------
Request(t) ==
  \/ t \in Readers /\ (ReadRequest(t) \/ LogsRequest(t))
  \/ t \in Deleters /\ \E f \in Removable : DeleteRequest(t, f)
  \/ t \in Scalers /\ \E f \in Functions : TryScale(t, f) \/ ColdStart(t, f)
  \/ t \in Deployers /\ \E f \in Functions : DeployLookup(t, f)

OwnStep(t) ==
  \/ OpLock(t) \/ OpEnd(t)
  \/ t \in Readers /\ ReadStep(t)
  \/ t \in Deleters /\ DeleteStep(t)
  \/ t \in Scalers /\ ScaleStep(t)
  \/ t \in Deployers /\ (ScaleStep(t) \/ DeployStep(t))

Next == \E t \in Threads : Request(t) \/ OwnStep(t)

Spec == Init /\ [][Next]_vars

\* Goroutines are scheduled, Docker answers, and a sync.Mutex goes to whoever
\* has waited long enough; nothing is assumed of a wait for the autoscaler.
FairSpec == Spec /\ \A t \in Threads : SF_vars(OwnStep(t) /\ ~At(t, "claim"))
-----------------------------------------------------------------------------
MuxLabels ==
  {"readLock", "logsNames", "logsFunction", "deleteLock", "scaleLookup", "commit"}

OpMuxLabels == {"isRunning", "scaleIPs", "restartIPs", "opLock"}

PcLabels ==
  MuxLabels \cup OpMuxLabels \cup
    {"idle", "reading", "logsFailed", "op", "opDone", "claim", "register"}

TypeOK ==
  /\ functionHandlers \in [Functions -> Handlers \cup {None}]
  /\ functionConfigs \in [Functions -> Handlers \cup {None}]
  /\ live \subseteq Handlers
  /\ holder \in [Locks -> Threads \cup {None}]
  /\ holder[Mux] \in Readers \cup Deleters \cup {None}
  /\ \A f \in Functions : holder[f] \in Scalers \cup Deployers \cup {None}
  /\ pc \in [Threads -> PcLabels]
  /\ local \in [Threads ->
                [fn : Functions \cup {None}, h : Handlers \cup {None},
                 op : {None, "start", "scale", "restart", "destroy"},
                 old : Handlers \cup {None}, new : Handlers \cup {None},
                 todo : SUBSET Functions, ok : BOOLEAN]]

\* The lock that a goroutine's next step needs, or None.
Needs(t) ==
  CASE pc[t] \in MuxLabels   -> Mux
    [] pc[t] \in OpMuxLabels -> local[t].h
    [] At(t, "claim")        -> local[t].fn
    [] OTHER                 -> None

WaitsFor(t, u) == Needs(t) # None /\ holder[Needs(t)] = u

\* List, Get and Delete wait for an operation on a handler with mux in hand, an
\* operation on a handler is started by whoever is scaling the function, and a
\* redeployment waits for that: goroutines never wait for each other in a ring.
NoWaitCycle ==
  \A S \in (SUBSET Threads) \ {{}} : \E t \in S : \A u \in S : ~WaitsFor(t, u)

\* What List and Get report of a function belongs together and is of now: the
\* configuration is that of the handler, and the handler is not being destroyed
\* (server.go:991-999, 1008-1014); Get's fallback for a missing configuration
\* is never taken.  A handler that failed to be destroyed may be listed.  And a
\* request for all logs that finds a function gone finds it deleted: replacing it
\* does not unlist it ("keep it serving", server.go:806).
ReadersSeeDeployed ==
  \A t \in Readers :
    /\ \A f \in (IF At(t, "reading") THEN local[t].todo ELSE {})
                 \cup (IF At(t, "isRunning") THEN {local[t].fn} ELSE {}) :
         /\ functionHandlers[f] # None /\ functionConfigs[f] = functionHandlers[f]
         /\ functionHandlers[f] \in live
    /\ At(t, "logsFailed") => local[t].fn \in Removable

\* /list, /function, /logs and /delete are answered, although they wait for
\* the operations of deployments and scaling, and for each other.
RequestsAnswered ==
  \A t \in Readers \cup Deleters : pc[t] # "idle" ~> pc[t] = "idle"
=============================================================================
