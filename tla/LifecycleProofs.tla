-------------------------- MODULE LifecycleProofs ---------------------------
(***************************************************************************)
(* Theorems about the handlers of Server and Shutdown: which of them exist,*)
(* can be started and run, where the routes to them lead, which requests   *)
(* they serve, and what of all that clients see, for any number of         *)
(* functions, deployments, addresses and goroutines of each kind.          *)
(*                                                                         *)
(* What holds only when no removal of a handler fails, only for functions  *)
(* with replicas, or only while no function is deployed twice (at all, or  *)
(* at the same time) assumes so.                                           *)
(***************************************************************************)
EXTENDS Shutdown, ServerProofs

\* A deployment with a handler that is not listed yet.
Replacing == DownLabels \cup {"drain", "start", "add", "commit", "abort"}

\* A deployment whose handler has been listed.
Committed == {"register", "destroyOld"}

\* Only a deployment has handlers in hand, from Backend.Create to its end.
EmptyHanded ==
  \A t \in Threads :
    /\ t \notin Deployers \/ pc[t] = "idle" =>
         local[t].new = None /\ local[t].old = None
    /\ pc[t] = "create" => local[t].new = None

\* A handler serves the function it was created for, listed or in hand.
Lineage ==
  /\ \A f \in Functions : functionHandlers[f] # None =>
       deployed[functionHandlers[f]] = f
  /\ \A d \in Deployers :
       /\ local[d].new # None => deployed[local[d].new] = local[d].fn
       /\ local[d].old # None => deployed[local[d].old] = local[d].fn

\* A replacement is known to nobody but its deployment.
Unlisted ==
  \A d \in Deployers : pc[d] \in Replacing =>
    /\ \A f \in Functions : functionHandlers[f] # local[d].new
    /\ \A e \in Deployers :
         local[e].old # local[d].new /\ (local[e].new = local[d].new => e = d)

\* A handler that was replaced is never listed again.
Superseded ==
  \A d \in Deployers : pc[d] \in Committed /\ local[d].old # None =>
    \A f \in Functions : functionHandlers[f] # local[d].old

\* Delete's handler stays the listed one to the end of its critical section.
Locked ==
  \A x \in Deleters :
    /\ pc[x] \in MuxLabels <=> mux = x
    /\ pc[x] \in MuxLabels => functionHandlers[local[x].fn] = local[x].h
    /\ pc[x] # "deleteFailed"
    /\ pc[x] \in {"deleteRoute", "deleteFinish"} => ~handler[local[x].h].image

Images ==
  /\ ListedRestartable
  /\ \A d \in Deployers : pc[d] \in Replacing => handler[local[d].new].image

HInv == EmptyHanded /\ Lineage /\ Unlisted /\ Superseded /\ Locked /\ Images

UpNeedsImage == \A h \in Handlers : handler[h].phase = "up" => handler[h].image

\* What can be started is listed or in hand.
Accounted ==
  \A h \in Handlers : handler[h].image =>
    InHand(h) \/ \E f \in Functions : functionHandlers[f] = h

\* Until the commit nobody but a delete has changed the function's entry.
Undisturbed ==
  \A d \in Deployers : pc[d] \in Replacing \cup {"create"} =>
    \/ functionHandlers[local[d].fn] = local[d].old
    \/ /\ functionHandlers[local[d].fn] = None /\ local[d].old # None
       /\ ~handler[local[d].old].image

\* Nor after it.
Kept ==
  \A d \in Deployers : pc[d] \in Committed =>
    functionHandlers[local[d].fn] = local[d].new \/ ~handler[local[d].new].image

OInv == UpNeedsImage /\ Accounted /\ Undisturbed /\ Kept

\* No function is deployed by two requests at the same time.
Alone ==
  \A d, e \in Deployers :
    pc[d] # "idle" /\ pc[e] # "idle" /\ local[d].fn = local[e].fn => d = e

\* One request at a time to deploy is enough for that, as in the runs.
LEMMA OneDeployer ==
  ASSUME \A d, e \in Deployers : d = e
  PROVE  Alone
  BY DEF Alone
-----------------------------------------------------------------------------
(* What a goroutine and an operation of a handler do. *)

\* Goto, without the types.
Went(t, label, v) ==
  /\ pc'[t] = label /\ local'[t] = v
  /\ \A u \in Threads : u # t => pc'[u] = pc[u] /\ local'[u] = local[u]

LEMMA GotoWent ==
  ASSUME TypeOK, NEW t \in Threads, NEW label, NEW v, Goto(t, label, v)
  PROVE  Went(t, label, v)
  BY DEF TypeOK, Goto, Went

LEMMA ReturnWent ==
  ASSUME TypeOK, NEW t \in Threads, Return(t)
  PROVE  Went(t, "idle", Reset)
  BY GotoWent DEF Return

LEMMA PerformWent ==
  ASSUME TypeOK, NEW t \in Threads, NEW h \in Handlers, NEW o, NEW results,
         NEW okLabel, NEW okLocal, NEW errLabel, NEW errLocal,
         Perform(o, h, results, t, okLabel, okLocal, errLabel, errLocal)
  PROVE  /\ UNCHANGED deployed
         /\ \A g \in Handlers : g # h => handler'[g] = handler[g]
         /\ \E r \in results :
              /\ r.ok \/ o \in Faults \/ \A q \in results : ~q.ok
              /\ handler'[h] = r.state
              /\ \/ r.ok /\ Went(t, okLabel, okLocal)
                 \/ ~r.ok /\ Went(t, errLabel, errLocal)
<1>1. PICK r \in results :
        /\ r.ok \/ o \in Faults \/ \A q \in results : ~q.ok
        /\ handler' = [handler EXCEPT ![h] = r.state]
        /\ IF r.ok THEN Goto(t, okLabel, okLocal) ELSE Goto(t, errLabel, errLocal)
        /\ UNCHANGED deployed
  BY DEF Perform
<1>2. IF r.ok THEN Went(t, okLabel, okLocal) ELSE Went(t, errLabel, errLocal)
  BY <1>1, GotoWent
<1> QED BY <1>1, <1>2 DEF TypeOK

\* An operation that makes no image and needs one to run containers.
Spares ==
  \A h \in Handlers :
    /\ handler'[h].image = handler[h].image
    /\ handler'[h].phase = "up" =>
         handler[h].phase = "up" \/ handler[h].image \/ replicas = 0

LEMMA StartSpares ==
  ASSUME TypeOK, NEW h \in Handlers,
         NEW r \in StartResults(handler[h], FreeIPs, replicas),
         r.state.phase = "up"
  PROVE  handler[h].phase = "up" \/ handler[h].image \/ replicas = 0
<1>1. CASE handler[h].phase # "up"
  <2>1. r \in {Outcome(TRUE, WithRuntime(handler[h], "up", a)) :
                 a \in Placements(handler[h], FreeIPs, replicas)}
    BY <1>1 DEF StartResults, Outcome, WithRuntime
  <2>2. PICK a \in Placements(handler[h], FreeIPs, replicas) : TRUE
    BY <2>1
  <2>3. replicas > 0 => handler[h].image
    BY <2>2 DEF Placements
  <2> QED BY <2>3, SettingsAssumption
<1> QED BY <1>1

LEMMA StopSpares ==
  ASSUME TypeOK, NEW h \in Handlers, NEW r \in StopResults(handler[h])
  PROVE  r.state.phase # "up"
  BY DEF StopResults, Outcome, WithRuntime

LEMMA StartHandlerWent ==
  ASSUME TypeOK, NEW t \in Threads, NEW h \in Handlers,
         NEW okLabel, NEW okLocal, NEW errLabel, NEW errLocal,
         StartHandler(h, t, okLabel, okLocal, errLabel, errLocal)
  PROVE  /\ UNCHANGED deployed /\ Spares
         /\ Went(t, okLabel, okLocal) \/ Went(t, errLabel, errLocal)
<1> DEFINE results == StartResults(handler[h], FreeIPs, replicas)
<1>1. Perform("start", h, results, t, okLabel, okLocal, errLabel, errLocal)
  BY DEF StartHandler
<1>2. \A r \in results :
        /\ r.state.image = handler[h].image
        /\ r.state.phase = "up" =>
             handler[h].phase = "up" \/ handler[h].image \/ replicas = 0
  BY StartAnswers, StartSpares
<1> HIDE DEF results
<1> QED BY <1>1, <1>2, PerformWent DEF Spares

LEMMA StopHandlerWent ==
  ASSUME TypeOK, NEW t \in Threads, NEW h \in Handlers,
         NEW okLabel, NEW okLocal, NEW errLabel, NEW errLocal,
         StopHandler(h, t, okLabel, okLocal, errLabel, errLocal)
  PROVE  /\ UNCHANGED deployed /\ Spares
         /\ Went(t, okLabel, okLocal) \/ Went(t, errLabel, errLocal)
<1> DEFINE results == StopResults(handler[h])
<1>1. Perform("stop", h, results, t, okLabel, okLocal, errLabel, errLocal)
  BY DEF StopHandler
<1>2. \A r \in results : r.state.image = handler[h].image /\ r.state.phase # "up"
  BY StopAnswers, StopSpares
<1> HIDE DEF results
<1> QED BY <1>1, <1>2, PerformWent DEF Spares

\* A handler that is destroyed loses its image and its containers, and nothing
\* happens to the others.
Destroyed(h) ==
  /\ handler'[h].phase = "down" /\ ~handler'[h].image
  /\ \A g \in Handlers : g # h => handler'[g] = handler[g]

LEMMA DestroyHandlerWent ==
  ASSUME TypeOK, "destroy" \notin Faults, NEW t \in Threads, NEW h \in Handlers,
         NEW okLabel, NEW okLocal, NEW errLabel, NEW errLocal,
         DestroyHandler(h, t, okLabel, okLocal, errLabel, errLocal)
  PROVE  UNCHANGED deployed /\ Destroyed(h) /\ Went(t, okLabel, okLocal)
<1> DEFINE results == DestroyResults(handler[h])
<1>1. Perform("destroy", h, results, t, okLabel, okLocal, errLabel, errLocal)
  BY DEF DestroyHandler
<1>2. \A r \in results : r.ok => r.state.phase = "down" /\ ~r.state.image
  BY DestroyAnswers
<1>3. \E r \in results : r.ok
  <2>1. Outcome(TRUE, [phase |-> "down", image |-> FALSE, ips |-> {}]) \in results
    BY DEF DestroyResults
  <2> HIDE DEF results
  <2> QED BY <2>1 DEF Outcome
<1> HIDE DEF results
<1> QED BY <1>1, <1>2, <1>3, PerformWent DEF Destroyed

-----------------------------------------------------------------------------
(* Steps that list, create and destroy no handler. *)

Quiet(t) ==
  /\ UNCHANGED <<functionHandlers, deployed, mux>>
  /\ \A u \in Threads : u # t => pc'[u] = pc[u] /\ local'[u] = local[u]
  /\ local'[t].new = local[t].new /\ local'[t].old = local[t].old
  /\ t \in Deployers =>
       /\ pc[t] \in Replacing /\ pc'[t] \in Replacing
       /\ local'[t].fn = local[t].fn
  /\ t \in Deleters =>
       \/ pc[t] \notin MuxLabels /\ pc'[t] \notin MuxLabels
       \/ pc[t] = "deleteRoute" /\ pc'[t] = "deleteFinish" /\ local'[t] = local[t]
  /\ Spares

LEMMA QuietKeeps ==
  ASSUME TypeOK, TypeOK', IInv, HInv, NEW t \in Threads, Quiet(t)
  PROVE  HInv'
<1>1. EmptyHanded'
  BY Distinct DEF HInv, EmptyHanded, Quiet, Replacing, DownLabels
<1>2. Lineage'
  BY Distinct DEF HInv, Lineage, Quiet
<1>3. Unlisted'
  BY Distinct DEF HInv, Unlisted, Quiet
<1>4. Superseded'
  BY Distinct DEF HInv, Superseded, Quiet, Replacing, Committed, DownLabels
<1>5. Locked'
  BY Distinct DEF HInv, Locked, Quiet, Spares, MuxLabels, IInv, Operands, Operand
<1>6. Images'
  <2>1. mux \in Deleters \cup {None}
    BY DEF TypeOK
  <2>2. mux # None => local'[mux].fn = local[mux].fn
    BY <2>1, Distinct DEF HInv, Locked, Quiet, MuxLabels
  <2>3. ListedRestartable'
    BY <2>2 DEF HInv, Images, ListedRestartable, Quiet, Spares, TypeOK
  <2>4. ASSUME NEW d \in Deployers, pc'[d] \in Replacing
        PROVE  handler'[local'[d].new].image
    <3>1. local'[d].new = local[d].new /\ pc[d] \in Replacing
      BY <2>4, Distinct DEF Quiet
    <3>2. local[d].new \in Handlers
      BY <3>1, Distinct DEF IInv, Operands, Operand, Replacing, DownLabels
    <3> QED BY <3>1, <3>2 DEF HInv, Images, Quiet, Spares
  <2> QED BY <2>3, <2>4 DEF Images
<1> QED BY <1>1, <1>2, <1>3, <1>4, <1>5, <1>6 DEF HInv

LEMMA QuietKeepsOwners ==
  ASSUME TypeOK, IInv, HInv, OInv, replicas > 0, NEW t \in Threads, Quiet(t)
  PROVE  OInv'
<1>1. UpNeedsImage'
  BY SettingsAssumption DEF OInv, UpNeedsImage, Quiet, Spares
<1>2. Accounted'
  BY Distinct DEF OInv, Accounted, InHand, Quiet, Spares
<1>3. Undisturbed'
  BY Distinct DEF OInv, Undisturbed, Quiet, Spares, Replacing, DownLabels, TypeOK
<1>4. Kept'
  BY Distinct DEF OInv, Kept, Quiet, Spares, Replacing, Committed, DownLabels,
     TypeOK, IInv, Operands, Operand
<1> QED BY <1>1, <1>2, <1>3, <1>4 DEF OInv

LEMMA DownLookupQuiet ==
  ASSUME TypeOK, IInv, NEW t \in Deployers \cup Callers \cup Scalers, DownLookup(t)
  PROVE  Quiet(t)
<1> DEFINE v == [local[t] EXCEPT !.h = functionHandlers[local[t].fn],
                               !.ok = functionHandlers[local[t].fn] # None]
<1>1. v.new = local[t].new /\ v.old = local[t].old /\ v.fn = local[t].fn
  BY LocalTyped, Distinct DEF LocalType
<1>2. Goto(t, "downIPs", v) \/ Goto(t, "downDone", v)
  BY DEF DownLookup, Lookup
<1>3. At(t, "downLookup") /\ UNCHANGED <<functionHandlers, handler, deployed, mux>>
  BY DEF DownLookup, Lookup, tables, runtime
<1> HIDE DEF v
<1> QED BY <1>1, <1>2, <1>3, GotoWent, Distinct DEF Went, Quiet, Spares, At, IInv,
   Roles, Role, Replacing, DownLabels, UpLabels

LEMMA DownIPsQuiet ==
  ASSUME TypeOK, IInv, NEW t \in Deployers \cup Callers \cup Scalers, DownIPs(t)
  PROVE  Quiet(t)
<1> DEFINE v == [local[t] EXCEPT !.ips = handler[local[t].h].ips]
<1>1. v.new = local[t].new /\ v.old = local[t].old /\ v.fn = local[t].fn
  BY LocalTyped, Distinct DEF LocalType
<1>2. Goto(t, "downUpdate", v)
  BY DEF DownIPs
<1>3. At(t, "downIPs") /\ UNCHANGED <<functionHandlers, handler, deployed, mux>>
  BY DEF DownIPs, tables, runtime
<1> HIDE DEF v
<1> QED BY <1>1, <1>2, <1>3, GotoWent, Distinct DEF Went, Quiet, Spares, At, IInv,
   Roles, Role, Replacing, DownLabels, UpLabels

LEMMA DownUpdateQuiet ==
  ASSUME TypeOK, IInv, NEW t \in Deployers \cup Callers \cup Scalers, DownUpdate(t)
  PROVE  Quiet(t)
<1>1. Goto(t, "downStop", local[t])
  BY DEF DownUpdate, Continue
<1>2. At(t, "downUpdate") /\ UNCHANGED <<functionHandlers, handler, deployed, mux>>
  BY DEF DownUpdate, runtime
<1> QED BY <1>1, <1>2, GotoWent, Distinct DEF Went, Quiet, Spares, At, IInv, Roles,
   Role, Replacing, DownLabels, UpLabels

LEMMA DownRestoreQuiet ==
  ASSUME TypeOK, IInv, NEW t \in Deployers \cup Callers \cup Scalers, DownRestore(t)
  PROVE  Quiet(t)
<1>1. Goto(t, "downDone", local[t])
  BY DEF DownRestore, Continue
<1>2. At(t, "downRestore") /\ UNCHANGED <<functionHandlers, handler, deployed, mux>>
  BY DEF DownRestore, runtime
<1> QED BY <1>1, <1>2, GotoWent, Distinct DEF Went, Quiet, Spares, At, IInv, Roles,
   Role, Replacing, DownLabels, UpLabels

LEMMA UpLookupQuiet ==
  ASSUME TypeOK, IInv, NEW t \in Deployers \cup Callers \cup Scalers, UpLookup(t)
  PROVE  Quiet(t)
<1> DEFINE v == [local[t] EXCEPT !.h = functionHandlers[local[t].fn],
                               !.ok = functionHandlers[local[t].fn] # None]
<1>1. v.new = local[t].new /\ v.old = local[t].old /\ v.fn = local[t].fn
  BY LocalTyped, Distinct DEF LocalType
<1>2. Goto(t, "upRestart", v) \/ Goto(t, "upDone", v)
  BY DEF UpLookup, Lookup
<1>3. At(t, "upLookup") /\ UNCHANGED <<functionHandlers, handler, deployed, mux>>
  BY DEF UpLookup, Lookup, tables, runtime
<1> HIDE DEF v
<1> QED BY <1>1, <1>2, <1>3, GotoWent, Distinct DEF Went, Quiet, Spares, At, IInv,
   Roles, Role, Replacing, DownLabels, UpLabels

LEMMA UpIPsQuiet ==
  ASSUME TypeOK, IInv, NEW t \in Deployers \cup Callers \cup Scalers, UpIPs(t)
  PROVE  Quiet(t)
<1> DEFINE v == [local[t] EXCEPT !.ips = handler[local[t].h].ips]
<1>1. v.new = local[t].new /\ v.old = local[t].old /\ v.fn = local[t].fn
  BY LocalTyped, Distinct DEF LocalType
<1>2. Goto(t, "upAdd", v)
  BY DEF UpIPs
<1>3. At(t, "upIPs") /\ UNCHANGED <<functionHandlers, handler, deployed, mux>>
  BY DEF UpIPs, tables, runtime
<1> HIDE DEF v
<1> QED BY <1>1, <1>2, <1>3, GotoWent, Distinct DEF Went, Quiet, Spares, At, IInv,
   Roles, Role, Replacing, DownLabels, UpLabels

LEMMA UpAddQuiet ==
  ASSUME TypeOK, IInv, NEW t \in Deployers \cup Callers \cup Scalers, UpAdd(t)
  PROVE  Quiet(t)
<1> DEFINE v == [local[t] EXCEPT !.ok = RT!AddAccepts(local[t].ips), !.ips = {}]
<1>1. v.new = local[t].new /\ v.old = local[t].old /\ v.fn = local[t].fn
  BY LocalTyped, Distinct DEF LocalType
<1>2. Goto(t, "upDone", v)
  BY DEF UpAdd
<1>3. At(t, "upAdd") /\ UNCHANGED <<functionHandlers, handler, deployed, mux>>
  BY DEF UpAdd, runtime
<1> HIDE DEF v
<1> QED BY <1>1, <1>2, <1>3, GotoWent, Distinct DEF Went, Quiet, Spares, At, IInv,
   Roles, Role, Replacing, DownLabels, UpLabels

LEMMA DeployDrainQuiet ==
  ASSUME TypeOK, IInv, NEW t \in Deployers, DeployDrain(t)
  PROVE  Quiet(t)
<1> DEFINE v == [local[t] EXCEPT !.fn = local[t].fn,
                               !.entry = autoscaler[local[t].fn].entry]
<1>1. v.new = local[t].new /\ v.old = local[t].old /\ v.fn = local[t].fn
  BY LocalTyped, Distinct DEF LocalType
<1>2. Goto(t, "downLookup", v)
  BY DEF DeployDrain, BeginScaleDown, Claimed
<1>3. At(t, "drain") /\ UNCHANGED <<functionHandlers, handler, deployed, mux>>
  BY DEF DeployDrain, tables, runtime
<1> HIDE DEF v
<1> QED BY <1>1, <1>2, <1>3, GotoWent, Distinct DEF Went, Quiet, Spares, At, IInv,
   Roles, Role, Replacing, DownLabels, UpLabels

LEMMA DeployDrainedQuiet ==
  ASSUME TypeOK, IInv, NEW t \in Deployers, DeployDrained(t)
  PROVE  Quiet(t)
<1>1. Goto(t, "start", local[t]) \/ Goto(t, "abort", local[t])
  BY DEF DeployDrained, Continue
<1>2. At(t, "drain") /\ UNCHANGED <<functionHandlers, handler, deployed, mux>>
  BY DEF DeployDrained, tables, runtime
<1> QED BY <1>1, <1>2, GotoWent, Distinct DEF Went, Quiet, Spares, At, IInv, Roles,
   Role, Replacing, DownLabels, UpLabels

LEMMA DeployAddQuiet ==
  ASSUME TypeOK, IInv, NEW t \in Deployers, DeployAdd(t)
  PROVE  Quiet(t)
<1>1. Goto(t, "commit", local[t]) \/ Goto(t, "abort", local[t])
  BY DEF DeployAdd, Continue
<1>2. At(t, "add") /\ UNCHANGED <<functionHandlers, handler, deployed, mux>>
  BY DEF DeployAdd, runtime
<1> QED BY <1>1, <1>2, GotoWent, Distinct DEF Went, Quiet, Spares, At, IInv, Roles,
   Role, Replacing, DownLabels, UpLabels

LEMMA CallColdStartQuiet ==
  ASSUME TypeOK, IInv, NEW t \in Callers, CallColdStart(t)
  PROVE  Quiet(t)
<1> DEFINE v == [local[t] EXCEPT !.fn = local[t].fn,
                               !.entry = autoscaler[local[t].fn].entry]
<1>1. v.new = local[t].new /\ v.old = local[t].old
  BY LocalTyped, Distinct DEF LocalType
<1>2. Goto(t, "upLookup", v)
  BY DEF CallColdStart, BeginScaleUp, Claimed
<1>3. At(t, "coldStart") /\ UNCHANGED <<functionHandlers, handler, deployed, mux>>
  BY DEF CallColdStart, tables, runtime
<1> HIDE DEF v
<1> QED BY <1>1, <1>2, <1>3, GotoWent, Distinct DEF Went, Quiet, Spares, At

LEMMA IdleScaleDownQuiet ==
  ASSUME TypeOK, IInv, NEW t \in Scalers, NEW f \in Functions, IdleScaleDown(t, f)
  PROVE  Quiet(t)
<1> DEFINE v == [local[t] EXCEPT !.fn = f, !.entry = autoscaler[f].entry]
<1>1. v.new = local[t].new /\ v.old = local[t].old
  BY LocalTyped, Distinct DEF LocalType
<1>2. Goto(t, "downLookup", v)
  BY DEF IdleScaleDown, BeginScaleDown, Claimed
<1>3. At(t, "idle") /\ UNCHANGED <<functionHandlers, handler, deployed, mux>>
  BY DEF IdleScaleDown, tables, runtime
<1> HIDE DEF v
<1> QED BY <1>1, <1>2, <1>3, GotoWent, Distinct DEF Went, Quiet, Spares, At

LEMMA PrewarmQuiet ==
  ASSUME TypeOK, IInv, NEW t \in Scalers, NEW f \in Functions, Prewarm(t, f)
  PROVE  Quiet(t)
<1> DEFINE v == [local[t] EXCEPT !.fn = f, !.entry = autoscaler[f].entry]
<1>1. v.new = local[t].new /\ v.old = local[t].old
  BY LocalTyped, Distinct DEF LocalType
<1>2. Goto(t, "upLookup", v)
  BY DEF Prewarm, BeginScaleUp, Claimed
<1>3. At(t, "idle") /\ UNCHANGED <<functionHandlers, handler, deployed, mux>>
  BY DEF Prewarm, tables, runtime
<1> HIDE DEF v
<1> QED BY <1>1, <1>2, <1>3, GotoWent, Distinct DEF Went, Quiet, Spares, At

LEMMA DownStopQuiet ==
  ASSUME TypeOK, IInv, NEW t \in Deployers \cup Callers \cup Scalers, DownStop(t)
  PROVE  Quiet(t)
<1> DEFINE v == [local[t] EXCEPT !.ok = FALSE]
<1>1. v.new = local[t].new /\ v.old = local[t].old /\ v.fn = local[t].fn
  BY LocalTyped, Distinct DEF LocalType
<1>2. StopHandler(local[t].h, t, "downDone", local[t], "downRestore", v)
  BY DEF DownStop
<1>3. At(t, "downStop") /\ UNCHANGED <<functionHandlers, mux>>
  BY DEF DownStop
<1>4. local[t].h \in Handlers /\ t \in Threads
  BY <1>3, Distinct DEF At, IInv, Operands, Operand
<1> HIDE DEF v
<1>5. /\ UNCHANGED deployed /\ Spares
      /\ Went(t, "downDone", local[t]) \/ Went(t, "downRestore", v)
  BY <1>2, <1>4, StopHandlerWent
<1> QED BY <1>1, <1>3, <1>5, Distinct
     DEF Went, Quiet, At, IInv, Roles, Role, Replacing, DownLabels, UpLabels

LEMMA UpRestartQuiet ==
  ASSUME TypeOK, IInv, NEW t \in Deployers \cup Callers \cup Scalers, UpRestart(t)
  PROVE  Quiet(t)
<1> DEFINE v == [local[t] EXCEPT !.ok = FALSE]
<1>1. v.new = local[t].new /\ v.old = local[t].old /\ v.fn = local[t].fn
  BY LocalTyped, Distinct DEF LocalType
<1>2. StartHandler(local[t].h, t, "upIPs", local[t], "upDone", v)
  BY DEF UpRestart
<1>3. At(t, "upRestart") /\ UNCHANGED <<functionHandlers, mux>>
  BY DEF UpRestart
<1>4. local[t].h \in Handlers /\ t \in Threads
  BY <1>3, Distinct DEF At, IInv, Operands, Operand
<1> HIDE DEF v
<1>5. /\ UNCHANGED deployed /\ Spares
      /\ Went(t, "upIPs", local[t]) \/ Went(t, "upDone", v)
  BY <1>2, <1>4, StartHandlerWent
<1> QED BY <1>1, <1>3, <1>5, Distinct
     DEF Went, Quiet, At, IInv, Roles, Role, Replacing, DownLabels, UpLabels

LEMMA DeployStartQuiet ==
  ASSUME TypeOK, IInv, NEW t \in Deployers, DeployStart(t)
  PROVE  Quiet(t)
<1>1. StartHandler(local[t].new, t, "add", local[t], "abort", local[t])
  BY DEF DeployStart
<1>2. At(t, "start") /\ UNCHANGED <<functionHandlers, mux>>
  BY DEF DeployStart
<1>3. local[t].new \in Handlers /\ t \in Threads
  BY <1>2, Distinct DEF At, IInv, Operands, Operand
<1>4. /\ UNCHANGED deployed /\ Spares
      /\ Went(t, "add", local[t]) \/ Went(t, "abort", local[t])
  BY <1>1, <1>3, StartHandlerWent
<1> QED BY <1>2, <1>4, Distinct DEF Went, Quiet, At, Replacing, DownLabels

\* Nothing was in hand that Reset could drop.
LEMMA ReturnQuiet ==
  ASSUME TypeOK, HInv, NEW t \in Callers \cup Scalers, Return(t),
         UNCHANGED <<functionHandlers, handler, deployed, mux>>
  PROVE  Quiet(t)
<1>1. local[t].new = None /\ local[t].old = None
  BY Distinct DEF HInv, EmptyHanded
<1>2. Reset.new = None /\ Reset.old = None
  BY DEF Reset
<1> QED BY <1>1, <1>2, ReturnWent, Distinct DEF Went, Quiet, Spares

LEMMA ScaleDoneQuiet ==
  ASSUME TypeOK, IInv, HInv, NEW t \in Deployers \cup Callers \cup Scalers, ScaleDone(t)
  PROVE  Quiet(t)
<1> DEFINE v == [local[t] EXCEPT !.h = None, !.ips = {}, !.entry = None, !.ok = TRUE]
<1>1. v.new = local[t].new /\ v.old = local[t].old /\ v.fn = local[t].fn
  BY LocalTyped, Distinct DEF LocalType
<1>2. /\ At(t, "downDone") \/ At(t, "upDone")
      /\ UNCHANGED <<functionHandlers, handler, deployed, mux>>
  BY DEF ScaleDone, runtime
<1>3. CASE t \in Deployers
  <2>1. Goto(t, "start", v) \/ Goto(t, "abort", v)
    BY <1>3, Distinct DEF ScaleDone, Resume
  <2> HIDE DEF v
  <2> QED BY <1>1, <1>2, <1>3, <2>1, GotoWent, Distinct
       DEF Went, Quiet, Spares, At, IInv, Roles, Role, Replacing, DownLabels, UpLabels
<1>4. CASE t \in Callers /\ local[t].ok
  <2>1. Goto(t, "waitRoute", v)
    BY <1>4, Distinct DEF ScaleDone, Resume
  <2> HIDE DEF v
  <2> QED BY <1>1, <1>2, <1>4, <2>1, GotoWent, Distinct DEF Went, Quiet, Spares
<1>5. CASE t \notin Deployers /\ ~(t \in Callers /\ local[t].ok)
  <2>1. Return(t)
    BY <1>5 DEF ScaleDone, Resume
  <2> QED BY <1>2, <1>5, <2>1, ReturnQuiet
<1> QED BY <1>3, <1>4, <1>5

LEMMA DeleteRequestQuiet ==
  ASSUME TypeOK, HInv, NEW t \in Deleters, DeleteRequest(t)
  PROVE  Quiet(t)
<1>1. PICK names : Goto(t, "deleteLock", [Reset EXCEPT !.todo = names])
  BY DEF DeleteRequest
<1> DEFINE v == [Reset EXCEPT !.todo = names]
<1>2. v.new = None /\ v.old = None
  BY DEF Reset
<1>3. At(t, "idle") /\ UNCHANGED <<functionHandlers, handler, deployed, mux>>
  BY DEF DeleteRequest, runtime
<1>4. local[t].new = None /\ local[t].old = None
  BY Distinct DEF HInv, EmptyHanded
<1> HIDE DEF v
<1>5. Went(t, "deleteLock", v)
  BY <1>1, GotoWent, Distinct DEF v
<1> QED BY <1>2, <1>3, <1>4, <1>5, Distinct DEF Went, Quiet, Spares, At, MuxLabels

LEMMA DeleteRouteQuiet ==
  ASSUME TypeOK, NEW t \in Deleters, DeleteRoute(t)
  PROVE  Quiet(t)
<1>1. Goto(t, "deleteFinish", local[t])
  BY DEF DeleteRoute, Continue
<1>2. At(t, "deleteRoute") /\ UNCHANGED <<functionHandlers, handler, deployed, mux>>
  BY DEF DeleteRoute, runtime
<1> QED BY <1>1, <1>2, GotoWent, Distinct DEF Went, Quiet, Spares, At

LEMMA CallSnapshotQuiet ==
  ASSUME TypeOK, HInv, NEW t \in Callers, NEW f \in Functions, CallSnapshot(t, f)
  PROVE  Quiet(t)
<1> DEFINE v == [Reset EXCEPT !.fn = f, !.ips = routingTable[f].ips]
<1>1. v.new = None /\ v.old = None
  BY DEF Reset
<1>2. Goto(t, "begin", v) \/ Goto(t, "coldStart", v)
  BY DEF CallSnapshot
<1>3. UNCHANGED <<functionHandlers, handler, deployed, mux>>
  BY DEF CallSnapshot, runtime
<1>4. local[t].new = None /\ local[t].old = None
  BY Distinct DEF HInv, EmptyHanded
<1> HIDE DEF v
<1> QED BY <1>1, <1>2, <1>3, <1>4, GotoWent, Distinct DEF Went, Quiet, Spares

LEMMA CallColdStartedQuiet ==
  ASSUME TypeOK, HInv, NEW t \in Callers, CallColdStarted(t)
  PROVE  Quiet(t)
<1>1. UNCHANGED <<functionHandlers, handler, deployed, mux>>
  BY DEF CallColdStarted, runtime
<1>2. Goto(t, "waitRoute", local[t]) \/ Return(t)
  BY DEF CallColdStarted, Continue
<1> QED BY <1>1, <1>2, GotoWent, ReturnQuiet, Distinct DEF Went, Quiet, Spares

LEMMA CallWaitRouteQuiet ==
  ASSUME TypeOK, HInv, NEW t \in Callers, CallWaitRoute(t)
  PROVE  Quiet(t)
<1> DEFINE v == [local[t] EXCEPT !.ips = routingTable[local[t].fn].ips]
<1>1. v.new = local[t].new /\ v.old = local[t].old
  BY LocalTyped, Distinct DEF LocalType
<1>2. Goto(t, "begin", v) \/ Return(t)
  BY DEF CallWaitRoute
<1>3. UNCHANGED <<functionHandlers, handler, deployed, mux>>
  BY DEF CallWaitRoute, runtime
<1> HIDE DEF v
<1> QED BY <1>1, <1>2, <1>3, GotoWent, ReturnQuiet, Distinct DEF Went, Quiet, Spares

LEMMA CallBeginQuiet ==
  ASSUME TypeOK, NEW t \in Callers, CallBegin(t)
  PROVE  Quiet(t)
<1>1. PICK ip \in local[t].ips : Goto(t, "http", [local[t] EXCEPT !.ip = ip, !.ips = {}])
  BY DEF CallBegin
<1> DEFINE v == [local[t] EXCEPT !.ip = ip, !.ips = {}]
<1>2. v.new = local[t].new /\ v.old = local[t].old
  BY LocalTyped, Distinct DEF LocalType
<1>3. UNCHANGED <<functionHandlers, handler, deployed, mux>>
  BY DEF CallBegin, runtime
<1> HIDE DEF v
<1>4. Went(t, "http", v)
  BY <1>1, GotoWent, Distinct DEF v
<1> QED BY <1>2, <1>3, <1>4, Distinct DEF Went, Quiet, Spares

LEMMA CallRefusedQuiet ==
  ASSUME TypeOK, HInv, NEW t \in Callers, CallRefused(t)
  PROVE  Quiet(t)
  BY ReturnQuiet DEF CallRefused, runtime

LEMMA CallFinishQuiet ==
  ASSUME TypeOK, HInv, NEW t \in Callers, CallFinish(t)
  PROVE  Quiet(t)
  BY ReturnQuiet DEF CallFinish, runtime

-----------------------------------------------------------------------------
(* The steps that list, create or destroy a handler. *)

LEMMA DeployLookupKeeps ==
  ASSUME TypeOK, TypeOK', IInv, HInv,
         NEW t \in Deployers, NEW f \in Functions, DeployLookup(t, f)
  PROVE  HInv' /\ (OInv => OInv')
<1> DEFINE v == [Reset EXCEPT !.fn = f, !.old = functionHandlers[f]]
<1>1. v.fn = f /\ v.old = functionHandlers[f] /\ v.new = None
  BY DEF Reset
<1>2. At(t, "idle") /\ UNCHANGED <<functionHandlers, handler, deployed, mux>>
  BY DEF DeployLookup, runtime
<1>3. Goto(t, "create", v)
  BY DEF DeployLookup
<1> HIDE DEF v
<1>4. Went(t, "create", v)
  BY <1>3, GotoWent, Distinct
<1>5. local[t].new = None /\ local[t].old = None
  BY <1>2, Distinct DEF HInv, EmptyHanded, At
<1>6. EmptyHanded'
  BY <1>1, <1>4, Distinct DEF HInv, EmptyHanded, Went
<1>7. Lineage'
  BY <1>1, <1>2, <1>4, Distinct DEF HInv, Lineage, Went
<1>8. Unlisted'
  <2>1. \A d \in Deployers : pc'[d] \in Replacing =>
          /\ d # t /\ pc[d] \in Replacing /\ local'[d] = local[d]
          /\ local[d].new \in Handlers
    BY <1>4, Distinct DEF Went, Replacing, DownLabels, IInv, Operands, Operand
  <2> QED BY <1>1, <1>2, <1>4, <2>1, Distinct DEF HInv, Unlisted, Went
<1>9. Superseded'
  BY <1>2, <1>4, Distinct DEF HInv, Superseded, Went, Committed
<1>10. Locked'
  BY <1>2, <1>4, Distinct DEF HInv, Locked, Went
<1>11. Images'
  <2>1. mux # None => local'[mux] = local[mux]
    BY <1>4, Distinct DEF Went, TypeOK
  <2> QED BY <1>2, <1>4, <2>1, Distinct
       DEF HInv, Images, ListedRestartable, Went, Replacing, DownLabels
<1>12. ASSUME OInv
       PROVE  OInv'
  <2>1. UpNeedsImage'
    BY <1>2, <1>12 DEF OInv, UpNeedsImage
  <2>2. Accounted'
    BY <1>2, <1>4, <1>5, <1>12, Distinct DEF OInv, Accounted, InHand, Went
  <2>3. Undisturbed' /\ Kept'
    BY <1>1, <1>2, <1>4, <1>12, Distinct DEF OInv, Undisturbed, Kept, Committed,
       Replacing, DownLabels, Went
  <2> QED BY <2>1, <2>2, <2>3 DEF OInv
<1> QED BY <1>6, <1>7, <1>8, <1>9, <1>10, <1>11, <1>12 DEF HInv

LEMMA DeployCreateKeeps ==
  ASSUME TypeOK, TypeOK', IInv, HInv, NEW t \in Deployers, DeployCreate(t)
  PROVE  HInv' /\ (OInv => OInv')
<1>1. PICK h \in Handlers :
        /\ deployed[h] = None
        /\ deployed' = [deployed EXCEPT ![h] = local[t].fn]
        /\ handler' = [handler EXCEPT ![h] = Created]
        /\ Goto(t, IF local[t].old # None /\ AutoscalerEnabled THEN "drain" ELSE "start",
                [local[t] EXCEPT !.new = h])
  BY DEF DeployCreate
<1> DEFINE v == [local[t] EXCEPT !.new = h]
<1>2. v.fn = local[t].fn /\ v.old = local[t].old /\ v.new = h
  BY LocalTyped, Distinct DEF LocalType
<1>3. At(t, "create") /\ UNCHANGED <<functionHandlers, mux>>
  BY DEF DeployCreate
<1> HIDE DEF v
<1>4. Went(t, "drain", v) \/ Went(t, "start", v)
  BY <1>1, GotoWent, Distinct DEF v
<1>5. /\ deployed'[h] = local[t].fn
      /\ handler'[h].phase = "partial" /\ handler'[h].image
      /\ \A g \in Handlers : g # h =>
           handler'[g] = handler[g] /\ deployed'[g] = deployed[g]
  BY <1>1 DEF TypeOK, Created
<1>6. \A d \in Deployers : pc[d] # "idle" => local[d].fn \in Functions
  BY Distinct DEF IInv, Operands, Operand
<1>7. /\ \A f \in Functions : functionHandlers[f] # h
      /\ \A d \in Deployers : local[d].new # h /\ local[d].old # h
  <2>1. \A d \in Deployers :
          pc[d] = "idle" => local[d].new = None /\ local[d].old = None
    BY Distinct DEF HInv, EmptyHanded
  <2> QED BY <1>1, <1>6, <2>1, Distinct DEF HInv, Lineage
<1>8. \A d \in Deployers :
        local[d].new \in Handlers \cup {None} /\ local[d].old \in Handlers \cup {None}
  BY Distinct DEF TypeOK
<1>9. local[t].new = None
  BY <1>3, Distinct DEF HInv, EmptyHanded, At
<1>10. EmptyHanded'
  BY <1>4, Distinct DEF HInv, EmptyHanded, Went
<1>11. Lineage'
  <2>1. \A f \in Functions : functionHandlers[f] \in Handlers \cup {None}
    BY DEF TypeOK
  <2> QED BY <1>2, <1>3, <1>4, <1>5, <1>7, <1>8, <2>1, Distinct DEF HInv, Lineage, Went
<1>12. Unlisted'
  <2>1. ASSUME NEW d \in Deployers, pc'[d] \in Replacing
        PROVE  /\ \A f \in Functions : functionHandlers'[f] # local'[d].new
               /\ \A e \in Deployers :
                    /\ local'[e].old # local'[d].new
                    /\ local'[e].new = local'[d].new => e = d
    <3>1. CASE d = t
      BY <1>2, <1>3, <1>4, <1>7, <3>1, Distinct DEF Went
    <3>2. CASE d # t
      <4>1. pc[d] \in Replacing /\ local'[d] = local[d]
        BY <1>4, <2>1, <3>2, Distinct DEF Went
      <4> QED BY <1>2, <1>3, <1>4, <1>7, <3>2, <4>1, Distinct DEF Went, HInv, Unlisted
    <3> QED BY <3>1, <3>2
  <2> QED BY <2>1 DEF Unlisted
<1>13. Superseded'
  BY <1>3, <1>4, Distinct DEF HInv, Superseded, Went, Committed
<1>14. Locked'
  <2>1. \A x \in Deleters : pc[x] \in MuxLabels =>
          local[x].h \in Handlers /\ local[x].h # h
    BY <1>7, Distinct DEF HInv, Locked, IInv, Operands, Operand
  <2> QED BY <1>3, <1>4, <1>5, <2>1, Distinct DEF HInv, Locked, Went, MuxLabels
<1>15. Images'
  <2>1. mux # None => local'[mux] = local[mux]
    BY <1>4, Distinct DEF Went, TypeOK
  <2>2. ListedRestartable'
    BY <1>3, <1>5, <1>7, <2>1 DEF HInv, Images, ListedRestartable, TypeOK
  <2>3. \A d \in Deployers : d # t /\ pc[d] \in Replacing => local[d].new \in Handlers
    BY Distinct DEF Replacing, DownLabels, IInv, Operands, Operand
  <2> QED BY <1>2, <1>4, <1>5, <1>7, <2>2, <2>3, Distinct DEF HInv, Images, Went
<1>16. ASSUME OInv
       PROVE  OInv'
  <2>1. UpNeedsImage'
    BY <1>5, <1>16 DEF OInv, UpNeedsImage
  <2>2. Accounted'
    BY <1>2, <1>3, <1>4, <1>5, <1>9, <1>16, Distinct DEF OInv, Accounted, InHand, Went
  <2>3. Undisturbed'
    BY <1>2, <1>3, <1>4, <1>5, <1>7, <1>8, <1>16, Distinct DEF OInv, Undisturbed,
       Went, At
  <2>4. Kept'
    BY <1>3, <1>4, <1>5, <1>7, <1>16, Distinct
    DEF OInv, Kept, Committed, Went, IInv, Operands, Operand
  <2> QED BY <2>1, <2>2, <2>3, <2>4 DEF OInv
<1> QED BY <1>10, <1>11, <1>12, <1>13, <1>14, <1>15, <1>16 DEF HInv

LEMMA DeployCommitKeeps ==
  ASSUME TypeOK, TypeOK', IInv, HInv, NEW t \in Deployers, DeployCommit(t)
  PROVE  HInv' /\ (OInv /\ Alone => OInv')
<1>1. /\ At(t, "commit") /\ mux = None /\ UNCHANGED <<handler, deployed, mux>>
      /\ Went(t, "register", local[t])
  BY GotoWent, Distinct DEF DeployCommit, MuxFree, Continue, runtime
<1>2. local[t].fn \in Functions /\ local[t].new \in Handlers /\ pc[t] \in Replacing
  BY <1>1, Distinct DEF At, Replacing, IInv, Operands, Operand
<1>3. /\ functionHandlers'[local[t].fn] = local[t].new
      /\ \A f \in Functions : f # local[t].fn =>
           functionHandlers'[f] = functionHandlers[f]
  BY <1>2 DEF DeployCommit, TypeOK
<1>4. /\ \A f \in Functions : functionHandlers[f] # local[t].new
      /\ \A e \in Deployers :
           local[e].old # local[t].new /\ (local[e].new = local[t].new => e = t)
  BY <1>2 DEF HInv, Unlisted
<1>5. \A u \in Threads : local'[u] = local[u] /\ (u # t => pc'[u] = pc[u])
  BY <1>1 DEF Went
<1>6. EmptyHanded'
  BY <1>1, <1>5, Distinct DEF HInv, EmptyHanded, Went
<1>7. Lineage'
  BY <1>1, <1>2, <1>3, <1>5, Distinct DEF HInv, Lineage
<1>8. Unlisted'
  <2>1. \A d \in Deployers : pc'[d] \in Replacing => d # t /\ pc[d] \in Replacing
    BY <1>1, Distinct DEF Went, Replacing, DownLabels
  <2> QED BY <1>3, <1>4, <1>5, <2>1, Distinct DEF HInv, Unlisted
<1>9. Superseded'
  <2>1. ASSUME NEW d \in Deployers, pc'[d] \in Committed, local[d].old # None,
               NEW f \in Functions
        PROVE  functionHandlers'[f] # local[d].old
    <3>1. CASE f = local[t].fn
      BY <1>3, <1>4, <3>1
    <3>2. CASE f # local[t].fn
      <4>1. CASE d = t
        BY <1>3, <2>1, <3>2, <4>1 DEF HInv, Lineage
      <4>2. CASE d # t
        BY <1>3, <1>5, <2>1, <3>2, <4>2, Distinct DEF HInv, Superseded
      <4> QED BY <4>1, <4>2
    <3> QED BY <3>1, <3>2
  <2> QED BY <1>5, <2>1, Distinct DEF Superseded
<1>10. Locked'
  BY <1>1, <1>5, Distinct DEF HInv, Locked, MuxLabels
<1>11. Images'
  <2>1. handler[local[t].new].image
    BY <1>2 DEF HInv, Images
  <2>2. \A d \in Deployers : pc'[d] \in Replacing => pc[d] \in Replacing
    BY <1>2, <1>5, Distinct
  <2> QED BY <1>1, <1>3, <1>5, <2>1, <2>2, Distinct DEF HInv, Images, ListedRestartable
<1>12. ASSUME OInv, Alone
       PROVE  OInv'
  <2>1. UpNeedsImage'
    BY <1>1, <1>12 DEF OInv, UpNeedsImage
  <2>2. Accounted'
    <3>1. ASSUME NEW h \in Handlers, handler[h].image
          PROVE  InHand(h)' \/ \E f \in Functions : functionHandlers'[f] = h
      <4>1. InHand(h)' <=> InHand(h)
        BY <1>5 DEF InHand
      <4>2. functionHandlers[local[t].fn] = h => InHand(h)
        BY <1>2, <1>12, Distinct DEF OInv, Undisturbed, InHand
      <4> QED BY <1>3, <1>12, <3>1, <4>1, <4>2 DEF OInv, Accounted
    <3> QED BY <1>1, <3>1 DEF Accounted
  <2>3. \A d \in Deployers :
          d # t /\ pc[d] \in Replacing \cup Committed \cup {"create"} =>
            local[d].fn \in Functions /\ local[d].fn # local[t].fn
    BY <1>1, <1>12, Distinct
    DEF Alone, At, Replacing, Committed, DownLabels, IInv, Operands, Operand
  <2>4. \A d \in Deployers : d # t => pc'[d] = pc[d] /\ local'[d] = local[d]
    BY <1>5, Distinct
  <2>5. Undisturbed'
    BY <1>1, <1>3, <1>12, <2>3, <2>4
    DEF OInv, Undisturbed, Went, Replacing, DownLabels
  <2>6. Kept'
    BY <1>1, <1>3, <1>5, <1>12, <2>3, <2>4, Distinct DEF OInv, Kept
  <2> QED BY <2>1, <2>2, <2>5, <2>6 DEF OInv
<1> QED BY <1>6, <1>7, <1>8, <1>9, <1>10, <1>11, <1>12 DEF HInv

LEMMA DeployRegisterKeeps ==
  ASSUME TypeOK, TypeOK', IInv, HInv, NEW t \in Deployers, DeployRegister(t)
  PROVE  HInv' /\ (OInv => OInv')
<1>1. At(t, "register") /\ UNCHANGED <<functionHandlers, handler, deployed, mux>>
  BY DEF DeployRegister, runtime
<1>2. \/ local[t].old = None /\ Went(t, "idle", Reset)
      \/ local[t].old # None /\ Went(t, "destroyOld", local[t])
  BY GotoWent, ReturnWent, Distinct DEF DeployRegister, Continue
<1>3. Reset.new = None /\ Reset.old = None
  BY DEF Reset
<1>4. EmptyHanded'
  BY <1>2, <1>3, Distinct DEF HInv, EmptyHanded, Went
<1>5. Lineage'
  BY <1>1, <1>2, <1>3, Distinct DEF HInv, Lineage, Went
<1>6. Unlisted'
  <2>1. \A d \in Deployers : pc'[d] \in Replacing =>
          /\ d # t /\ pc[d] \in Replacing /\ local'[d] = local[d]
          /\ local[d].new \in Handlers
    BY <1>2, Distinct DEF Went, Replacing, DownLabels, IInv, Operands, Operand
  <2> QED BY <1>1, <1>2, <1>3, <2>1, Distinct DEF HInv, Unlisted, Went
<1>7. Superseded'
  BY <1>1, <1>2, <1>3, Distinct DEF HInv, Superseded, Went, Committed, At
<1>8. Locked'
  BY <1>1, <1>2, Distinct DEF HInv, Locked, Went
<1>9. Images'
  <2>1. mux # None => local'[mux] = local[mux]
    BY <1>2, Distinct DEF Went, TypeOK
  <2> QED BY <1>1, <1>2, <2>1, Distinct
       DEF HInv, Images, ListedRestartable, Went, Replacing, DownLabels
<1>10. ASSUME OInv
       PROVE  OInv'
  <2>1. UpNeedsImage'
    BY <1>1, <1>10 DEF OInv, UpNeedsImage
  <2>2. functionHandlers[local[t].fn] = local[t].new \/ ~handler[local[t].new].image
    BY <1>1, <1>10 DEF OInv, Kept, Committed, At
  <2>3. local[t].fn \in Functions
    BY <1>1, Distinct DEF At, IInv, Operands, Operand
  <2>4. Accounted'
    BY <1>1, <1>2, <2>2, <2>3, <1>10, Distinct DEF OInv, Accounted, InHand, Went
  <2>5. Undisturbed' /\ Kept'
    BY <1>1, <1>2, <1>10, Distinct
    DEF OInv, Undisturbed, Kept, Committed, Went, Replacing, DownLabels, At
  <2> QED BY <2>1, <2>4, <2>5 DEF OInv
<1> QED BY <1>4, <1>5, <1>6, <1>7, <1>8, <1>9, <1>10 DEF HInv

\* A deployment that ends destroys the handler it leaves behind, h; what is
\* listed is not h.
Ends(t, h) ==
  /\ UNCHANGED <<functionHandlers, deployed, mux>>
  /\ Destroyed(h) /\ Went(t, "idle", Reset)

LEMMA EndsKeeps ==
  ASSUME TypeOK, TypeOK', IInv, HInv, NEW t \in Deployers, NEW h \in Handlers, Ends(t, h),
         \A f \in Functions : functionHandlers[f] # h,
         \A d \in Deployers : d # t /\ pc[d] \in Replacing => local[d].new # h
  PROVE  HInv'
<1> USE DEF Ends
<1>1. Reset.new = None /\ Reset.old = None
  BY DEF Reset
<1>2. EmptyHanded'
  BY <1>1, Distinct DEF HInv, EmptyHanded, Went
<1>3. Lineage'
  BY <1>1, Distinct DEF HInv, Lineage, Went
<1>4. Unlisted'
  <2>1. \A d \in Deployers : pc'[d] \in Replacing =>
          /\ d # t /\ pc[d] \in Replacing /\ local'[d] = local[d]
          /\ local[d].new \in Handlers
    BY Distinct DEF Went, Replacing, DownLabels, IInv, Operands, Operand
  <2> QED BY <1>1, <2>1, Distinct DEF HInv, Unlisted, Went
<1>5. Superseded'
  BY <1>1, Distinct DEF HInv, Superseded, Went, Committed
<1>6. \A g \in Handlers : handler'[g].image => handler[g].image
  BY DEF Destroyed
<1>7. Locked'
  <2>1. \A x \in Deleters : pc[x] \in MuxLabels => local[x].h \in Handlers
    BY Distinct DEF IInv, Operands, Operand
  <2> QED BY <1>6, <2>1, Distinct DEF HInv, Locked, Went, MuxLabels
<1>8. Images'
  <2>1. mux # None => local'[mux] = local[mux]
    BY Distinct DEF Went, TypeOK
  <2>2. ListedRestartable'
    BY <2>1 DEF HInv, Images, ListedRestartable, Destroyed, TypeOK
  <2>3. \A d \in Deployers : pc'[d] \in Replacing =>
          /\ d # t /\ pc[d] \in Replacing /\ local'[d] = local[d]
          /\ local[d].new \in Handlers
    BY Distinct DEF Went, Replacing, DownLabels, IInv, Operands, Operand
  <2> QED BY <2>2, <2>3 DEF HInv, Images, Destroyed
<1> QED BY <1>2, <1>3, <1>4, <1>5, <1>7, <1>8 DEF HInv

LEMMA EndsKeepsOwners ==
  ASSUME TypeOK, IInv, OInv, NEW t \in Deployers, NEW h \in Handlers, Ends(t, h),
         local[t].fn \in Functions,
         \A g \in {local[t].old, local[t].new} \ {h, None} :
           functionHandlers[local[t].fn] = g \/ ~handler[g].image
  PROVE  OInv'
<1>1. UpNeedsImage'
  BY DEF OInv, UpNeedsImage, Ends, Destroyed
<1>2. Accounted'
  BY Distinct DEF OInv, Accounted, InHand, Ends, Destroyed, Went
<1>3. \A d \in Deployers :
        /\ local[d].old \in Handlers \cup {None}
        /\ pc[d] \in Committed => local[d].new \in Handlers
  BY Distinct DEF TypeOK, Committed, IInv, Operands, Operand
<1>4. \A d \in Deployers : d # t => pc'[d] = pc[d] /\ local'[d] = local[d]
  BY Distinct DEF Ends, Went
<1>5. pc'[t] = "idle"
  BY DEF Ends, Went
<1>6. Undisturbed'
  BY <1>3, <1>4, <1>5 DEF OInv, Undisturbed, Replacing, DownLabels, Ends, Destroyed
<1>7. Kept'
  BY <1>3, <1>4, <1>5 DEF OInv, Kept, Committed, Ends, Destroyed
<1> QED BY <1>1, <1>2, <1>6, <1>7 DEF OInv

LEMMA DeployDestroyOldKeeps ==
  ASSUME TypeOK, TypeOK', IInv, HInv, "destroy" \notin Faults,
         NEW t \in Deployers, DeployDestroyOld(t)
  PROVE  HInv' /\ (OInv => OInv')
<1>1. At(t, "destroyOld") /\ UNCHANGED <<functionHandlers, mux>>
  BY DEF DeployDestroyOld
<1>2. /\ local[t].old \in Handlers /\ local[t].new \in Handlers
      /\ local[t].fn \in Functions /\ pc[t] \in Committed
  BY <1>1, Distinct DEF At, IInv, Operands, Operand, Committed
<1>3. Ends(t, local[t].old)
  BY <1>1, <1>2, DestroyHandlerWent, Distinct DEF DeployDestroyOld, Ends
<1>4. HInv'
  BY <1>2, <1>3, EndsKeeps, Distinct DEF HInv, Superseded, Unlisted
<1>5. ASSUME OInv
      PROVE  OInv'
  BY <1>2, <1>3, <1>5, EndsKeepsOwners DEF OInv, Kept
<1> QED BY <1>4, <1>5

LEMMA DeployAbortKeeps ==
  ASSUME TypeOK, TypeOK', IInv, HInv, "destroy" \notin Faults,
         NEW t \in Deployers, DeployAbort(t)
  PROVE  HInv' /\ (OInv => OInv')
<1>1. At(t, "abort") /\ UNCHANGED <<functionHandlers, mux>>
  BY DEF DeployAbort
<1>2. local[t].new \in Handlers /\ local[t].fn \in Functions /\ pc[t] \in Replacing
  BY <1>1, Distinct DEF At, IInv, Operands, Operand, Replacing
<1>3. Ends(t, local[t].new)
  BY <1>1, <1>2, DestroyHandlerWent, Distinct DEF DeployAbort, Ends
<1>4. HInv'
  BY <1>2, <1>3, EndsKeeps DEF HInv, Unlisted
<1>5. ASSUME OInv
      PROVE  OInv'
  BY <1>2, <1>3, <1>5, EndsKeepsOwners DEF OInv, Undisturbed
<1> QED BY <1>4, <1>5

LEMMA NextDeleteWent ==
  ASSUME TypeOK, NEW t \in Threads, NEW f \in Functions, NextDelete(t, f)
  PROVE  /\ local'[t].new = None /\ local'[t].old = None
         /\ pc'[t] \in {"idle", "deleteLock"}
         /\ \A u \in Threads : u # t => pc'[u] = pc[u] /\ local'[u] = local[u]
  BY NextDeleteMoves DEF Moves

LEMMA DeleteLockKeeps ==
  ASSUME TypeOK, TypeOK', IInv, HInv, NEW t \in Deleters, DeleteLock(t)
  PROVE  HInv' /\ (OInv /\ replicas > 0 => OInv')
<1>1. /\ At(t, "deleteLock") /\ mux = None
      /\ UNCHANGED <<functionHandlers, handler, deployed>>
  BY DEF DeleteLock, MuxFree, runtime
<1>2. local[t].new = None /\ local[t].old = None
  BY Distinct DEF HInv, EmptyHanded
<1>3. PICK f \in local[t].todo :
       IF functionHandlers[f] = None
         THEN NextDelete(t, f) /\ UNCHANGED mux
         ELSE /\ mux' = t
              /\ Goto(t, "deleteDestroy",
                      [local[t] EXCEPT !.fn = f, !.h = functionHandlers[f]])
  BY DEF DeleteLock
<1>4. f \in Functions
  BY LocalTyped, Distinct DEF LocalType
<1>5. CASE functionHandlers[f] = None
  <2>1. Quiet(t)
    BY <1>1, <1>2, <1>3, <1>4, <1>5, NextDeleteWent, Distinct
    DEF Quiet, Spares, MuxLabels, At
  <2> QED BY <2>1, QuietKeeps, QuietKeepsOwners, Distinct
<1>6. CASE functionHandlers[f] # None
  <2> DEFINE v == [local[t] EXCEPT !.fn = f, !.h = functionHandlers[f]]
  <2>1. v.fn = f /\ v.h = functionHandlers[f] /\ v.new = None /\ v.old = None
    BY <1>2, LocalTyped, Distinct DEF LocalType
  <2> HIDE DEF v
  <2>2. mux' = t /\ Went(t, "deleteDestroy", v)
    BY <1>3, <1>6, GotoWent, Distinct DEF v
  <2>3. \A d \in Deployers : pc'[d] = pc[d] /\ local'[d] = local[d]
    BY <2>2, Distinct DEF Went
  <2>4. EmptyHanded'
    BY <2>1, <2>2, Distinct DEF HInv, EmptyHanded, Went
  <2>5. Lineage' /\ Unlisted' /\ Superseded'
    BY <1>1, <2>3, Distinct DEF HInv, Lineage, Unlisted, Superseded
  <2>6. Locked'
    BY <1>1, <2>1, <2>2, Distinct DEF HInv, Locked, Went, MuxLabels
  <2>7. Images'
    BY <1>1, <2>2, <2>3 DEF HInv, Images, ListedRestartable
  <2>8. ASSUME OInv
        PROVE  OInv'
    <3>1. Accounted'
      BY <1>1, <1>2, <2>1, <2>2, <2>8, Distinct DEF OInv, Accounted, InHand, Went
    <3>2. UpNeedsImage' /\ Undisturbed' /\ Kept'
      BY <1>1, <2>3, <2>8 DEF OInv, UpNeedsImage, Undisturbed, Kept
    <3> QED BY <3>1, <3>2 DEF OInv
  <2> QED BY <2>4, <2>5, <2>6, <2>7, <2>8 DEF HInv
<1> QED BY <1>5, <1>6

LEMMA DeleteDestroyKeeps ==
  ASSUME TypeOK, TypeOK', IInv, HInv, "destroy" \notin Faults,
         NEW t \in Deleters, DeleteDestroy(t)
  PROVE  HInv' /\ (OInv => OInv')
<1> DEFINE h == local[t].h
           f == local[t].fn
<1>1. At(t, "deleteDestroy") /\ UNCHANGED <<functionHandlers, mux>>
  BY DEF DeleteDestroy
<1>2. h \in Handlers /\ f \in Functions
  BY <1>1, Distinct DEF At, IInv, Operands, Operand, MuxLabels
<1>3. mux = t /\ functionHandlers[f] = h
  BY <1>1 DEF HInv, Locked, At, MuxLabels
<1>4. UNCHANGED deployed /\ Destroyed(h) /\ Went(t, "deleteRoute", local[t])
  BY <1>1, <1>2, DestroyHandlerWent, Distinct DEF DeleteDestroy
<1>5. \A g \in Functions : g # f => functionHandlers[g] # h
  BY <1>2, <1>3, Distinct DEF HInv, Lineage
<1>6. /\ \A u \in Threads : local'[u] = local[u]
      /\ \A d \in Deployers : pc'[d] = pc[d]
  BY <1>4, Distinct DEF Went
<1>7. EmptyHanded'
  BY <1>4, <1>6, Distinct DEF HInv, EmptyHanded, Went
<1>8. Lineage' /\ Unlisted' /\ Superseded'
  BY <1>1, <1>4, <1>6, Distinct DEF HInv, Lineage, Unlisted, Superseded
<1>9. Locked'
  BY <1>1, <1>2, <1>3, <1>4, <1>6, Distinct DEF HInv, Locked, Went, MuxLabels, Destroyed
<1>10. Images'
  <2>1. ListedRestartable'
    <3>1. ASSUME NEW g \in Functions, functionHandlers[g] # None, g # f
          PROVE  handler'[functionHandlers[g]].image
      BY <1>3, <1>4, <1>5, <3>1, Distinct
      DEF HInv, Images, ListedRestartable, Destroyed, TypeOK
    <3> QED BY <1>1, <1>3, <1>6, <3>1, Distinct DEF ListedRestartable
  <2>2. \A d \in Deployers : pc[d] \in Replacing =>
          local[d].new \in Handlers /\ local[d].new # h
    BY <1>2, <1>3, Distinct
    DEF Replacing, DownLabels, IInv, Operands, Operand, HInv, Unlisted
  <2> QED BY <1>4, <1>6, <2>1, <2>2, Distinct DEF HInv, Images, Destroyed
<1>11. ASSUME OInv
       PROVE  OInv'
  <2>1. UpNeedsImage'
    BY <1>4, <1>11 DEF OInv, UpNeedsImage, Destroyed
  <2>2. Accounted'
    BY <1>1, <1>4, <1>6, <1>11 DEF OInv, Accounted, InHand, Destroyed
  <2>3. \A g \in Handlers : ~handler[g].image => ~handler'[g].image
    BY <1>4 DEF Destroyed
  <2>4. \A d \in Deployers : local[d].old \in Handlers \cup {None}
    BY Distinct DEF TypeOK
  <2>5. \A d \in Deployers : pc[d] \in Committed => local[d].new \in Handlers
    BY Distinct DEF Committed, IInv, Operands, Operand
  <2>6. Undisturbed'
    BY <1>1, <1>6, <1>11, <2>3, <2>4, Distinct DEF OInv, Undisturbed
  <2>7. Kept'
    BY <1>1, <1>6, <1>11, <2>3, <2>5, Distinct DEF OInv, Kept
  <2> QED BY <2>1, <2>2, <2>6, <2>7 DEF OInv
<1> QED BY <1>7, <1>8, <1>9, <1>10, <1>11 DEF HInv

\* Without failing destroys the branch is not reached.
LEMMA DeleteFailedKeeps ==
  ASSUME HInv, NEW t \in Deleters, DeleteFailed(t)
  PROVE  FALSE
  BY DEF HInv, Locked, DeleteFailed, At

LEMMA DeleteFinishKeeps ==
  ASSUME TypeOK, TypeOK', IInv, HInv, NEW t \in Deleters, DeleteFinish(t)
  PROVE  HInv' /\ (OInv => OInv')
<1> DEFINE h == local[t].h
           f == local[t].fn
<1>1. At(t, "deleteFinish") /\ mux' = None /\ UNCHANGED <<handler, deployed>>
  BY DEF DeleteFinish, runtime
<1>2. h \in Handlers /\ f \in Functions
  BY <1>1, Distinct DEF At, IInv, Operands, Operand, MuxLabels
<1>3. mux = t /\ functionHandlers[f] = h /\ ~handler[h].image
  BY <1>1 DEF HInv, Locked, At, MuxLabels
<1>4. /\ functionHandlers'[f] = None
      /\ \A g \in Functions : g # f => functionHandlers'[g] = functionHandlers[g]
  BY <1>2 DEF DeleteFinish, TypeOK
<1>5. /\ local'[t].new = None
      /\ local'[t].old = None
      /\ pc'[t] \in {"idle", "deleteLock"}
      /\ \A u \in Threads : u # t => pc'[u] = pc[u] /\ local'[u] = local[u]
  BY <1>2, NextDeleteWent, Distinct DEF DeleteFinish
<1>6. \A d \in Deployers : pc'[d] = pc[d] /\ local'[d] = local[d]
  BY <1>5, Distinct
<1>7. EmptyHanded'
  BY <1>5, Distinct DEF HInv, EmptyHanded
<1>8. Lineage'
  BY <1>1, <1>4, <1>6, Distinct DEF HInv, Lineage
<1>9. Unlisted' /\ Superseded'
  <2>1. \A d \in Deployers : pc[d] \in Replacing => local[d].new # None
    BY Distinct DEF Replacing, DownLabels, IInv, Operands, Operand
  <2> QED BY <1>4, <1>6, <2>1 DEF HInv, Unlisted, Superseded
<1>10. Locked'
  BY <1>1, <1>3, <1>5, Distinct DEF HInv, Locked, MuxLabels
<1>11. Images'
  BY <1>1, <1>3, <1>4, <1>6, Distinct DEF HInv, Images, ListedRestartable
<1>12. ASSUME OInv
       PROVE  OInv'
  <2>1. UpNeedsImage'
    BY <1>1, <1>12 DEF OInv, UpNeedsImage
  <2>2. local[t].new = None /\ local[t].old = None
    BY Distinct DEF HInv, EmptyHanded
  <2>3. Accounted'
    BY <1>1, <1>3, <1>4, <1>5, <1>12, <2>2, Distinct DEF OInv, Accounted, InHand
  <2>4. \A d \in Deployers : pc[d] # "idle" => local[d].fn \in Functions
    BY Distinct DEF IInv, Operands, Operand
  <2>5. Undisturbed'
    <3>1. \A d \in Deployers : pc[d] \in Replacing \cup {"create"} =>
            local[d].fn \in Functions
      BY <2>4 DEF Replacing, DownLabels
    <3>2. ASSUME NEW d \in Deployers, pc[d] \in Replacing \cup {"create"}
          PROVE  \/ functionHandlers'[local[d].fn] = local[d].old
                 \/ /\ functionHandlers'[local[d].fn] = None /\ local[d].old # None
                    /\ ~handler[local[d].old].image
      BY <1>2, <1>3, <1>4, <1>12, <3>1, <3>2, Distinct DEF OInv, Undisturbed
    <3> QED BY <1>1, <1>6, <3>2 DEF Undisturbed
  <2>6. Kept'
    <3>1. \A d \in Deployers : pc[d] \in Committed => local[d].fn \in Functions
      BY <2>4 DEF Committed
    <3> QED BY <1>1, <1>3, <1>4, <1>6, <1>12, <3>1 DEF OInv, Kept
  <2> QED BY <2>1, <2>3, <2>5, <2>6 DEF OInv
<1> QED BY <1>7, <1>8, <1>9, <1>10, <1>11, <1>12 DEF HInv

-----------------------------------------------------------------------------
(* Every step, and the theorems. *)

LEMMA InitKeeps == Init => HInv /\ OInv
<1> SUFFICES ASSUME Init PROVE HInv /\ OInv
  OBVIOUS
<1>1. /\ \A f \in Functions : functionHandlers[f] = None
      /\ \A h \in Handlers : ~handler[h].image /\ handler[h].phase = "down"
      /\ mux = None
      /\ \A t \in Threads : pc[t] = "idle" /\ local[t].new = None /\ local[t].old = None
  BY DEF Init, Reset
<1>2. EmptyHanded /\ Lineage
  BY <1>1, Distinct DEF EmptyHanded, Lineage
<1>3. Unlisted /\ Superseded /\ Locked
  BY <1>1, Distinct
  DEF Unlisted, Superseded, Locked, Replacing, Committed, DownLabels, MuxLabels
<1>4. Images
  BY <1>1, Distinct DEF Images, ListedRestartable, Replacing, DownLabels
<1>5. UpNeedsImage /\ Accounted
  BY <1>1 DEF UpNeedsImage, Accounted
<1>6. Undisturbed /\ Kept
  BY <1>1, Distinct DEF Undisturbed, Kept, Replacing, Committed, DownLabels
<1> QED BY <1>2, <1>3, <1>4, <1>5, <1>6 DEF HInv, OInv

LEMMA StutterKeeps ==
  ASSUME HInv, UNCHANGED vars
  PROVE  HInv' /\ (OInv => OInv')
<1> USE DEF vars, runtime
<1>1. HInv'
  BY DEF HInv, EmptyHanded, Lineage, Unlisted, Superseded, Locked, Images,
     ListedRestartable
<1>2. OInv => OInv'
  BY DEF OInv, UpNeedsImage, Accounted, InHand, Undisturbed, Kept
<1> QED BY <1>1, <1>2

LEMMA QuietStep ==
  ASSUME TypeOK, TypeOK', IInv, HInv, NEW t \in Threads, Quiet(t)
  PROVE  HInv' /\ (OInv /\ replicas > 0 => OInv')
  BY QuietKeeps, QuietKeepsOwners

LEMMA StepKeeps ==
  ASSUME TypeOK, TypeOK', IInv, HInv, "destroy" \notin Faults, [Next]_vars
  PROVE  HInv' /\ (OInv /\ Alone /\ replicas > 0 => OInv')
<1> DEFINE Keeps == HInv' /\ (OInv /\ Alone /\ replicas > 0 => OInv')
<1>1. \A t \in Threads : Quiet(t) => Keeps
  BY QuietStep
<1> SUFFICES Keeps
  OBVIOUS
<1> HIDE DEF Keeps
<1>2. CASE UNCHANGED vars
  BY <1>2, StutterKeeps DEF Keeps
<1>3. CASE Request
  <2>1. ASSUME NEW f \in Functions, NEW t \in Deployers, DeployLookup(t, f)
        PROVE  Keeps
    BY <2>1, DeployLookupKeeps DEF Keeps
  <2>2. ASSUME NEW f \in Functions, NEW t \in Callers, CallSnapshot(t, f)
        PROVE  Keeps
    BY <1>1, <2>2, CallSnapshotQuiet, Distinct
  <2>3. ASSUME NEW f \in Functions, NEW t \in Scalers,
               IdleScaleDown(t, f) \/ Prewarm(t, f)
        PROVE  Keeps
    BY <1>1, <2>3, IdleScaleDownQuiet, PrewarmQuiet, Distinct
  <2> QED BY <1>3, <2>1, <2>2, <2>3 DEF Request
<1>4. ASSUME NEW t \in Deployers, DeployStep(t)
      PROVE  Keeps
  <2>1. CASE DeployCreate(t) \/ DeployCommit(t) \/ DeployRegister(t)
             \/ DeployDestroyOld(t) \/ DeployAbort(t)
    BY <2>1, DeployCreateKeeps, DeployCommitKeeps, DeployRegisterKeeps,
       DeployDestroyOldKeeps, DeployAbortKeeps DEF Keeps
  <2>2. CASE DeployDrain(t) \/ DeployDrained(t) \/ DeployStart(t) \/ DeployAdd(t)
    BY <1>1, <2>2, DeployDrainQuiet, DeployDrainedQuiet, DeployStartQuiet,
       DeployAddQuiet, Distinct
  <2> QED BY <1>4, <2>1, <2>2 DEF DeployStep
<1>5. ASSUME NEW t \in Deleters, DeleteRequest(t) \/ DeleteStep(t)
      PROVE  Keeps
  <2>1. CASE DeleteLock(t) \/ DeleteDestroy(t) \/ DeleteFailed(t) \/ DeleteFinish(t)
    BY <2>1, DeleteLockKeeps, DeleteDestroyKeeps, DeleteFailedKeeps, DeleteFinishKeeps
    DEF Keeps
  <2>2. CASE DeleteRequest(t) \/ DeleteRoute(t)
    BY <1>1, <2>2, DeleteRequestQuiet, DeleteRouteQuiet, Distinct
  <2> QED BY <1>5, <2>1, <2>2 DEF DeleteStep
<1>6. ASSUME NEW t \in Callers, CallStep(t) \/ CallFinish(t)
      PROVE  Keeps
  BY <1>1, <1>6, CallColdStartQuiet, CallColdStartedQuiet, CallWaitRouteQuiet,
     CallBeginQuiet, CallRefusedQuiet, CallFinishQuiet, Distinct DEF CallStep
<1>7. ASSUME NEW t \in Deployers \cup Callers \cup Scalers, ScaleStep(t)
      PROVE  Keeps
  BY <1>1, <1>7, DownLookupQuiet, DownIPsQuiet, DownUpdateQuiet, DownStopQuiet,
     DownRestoreQuiet, UpLookupQuiet, UpRestartQuiet, UpIPsQuiet, UpAddQuiet,
     ScaleDoneQuiet, Distinct DEF ScaleStep
<1> QED BY <1>2, <1>3, <1>4, <1>5, <1>6, <1>7 DEF Next

LEMMA HandlersKept ==
  ASSUME "destroy" \notin Faults
  PROVE  Spec => [](TypeOK /\ IInv /\ HInv)
<1>1. Init => TypeOK /\ IInv /\ HInv
  BY InitInv, InitKeeps
<1>2. (TypeOK /\ IInv /\ HInv) /\ [Next]_vars => (TypeOK /\ IInv /\ HInv)'
  BY StepInv, StepKeeps
<1> QED BY <1>1, <1>2, PTL DEF Spec

LEMMA OwnersKept ==
  ASSUME "destroy" \notin Faults, replicas > 0
  PROVE  Spec /\ []Alone => [](TypeOK /\ IInv /\ HInv /\ OInv)
<1>1. Init => TypeOK /\ IInv /\ HInv /\ OInv
  BY InitInv, InitKeeps
<1>2. (TypeOK /\ IInv /\ HInv /\ OInv) /\ Alone /\ [Next]_vars
        => (TypeOK /\ IInv /\ HInv /\ OInv)'
  BY StepInv, StepKeeps
<1> QED BY <1>1, <1>2, PTL DEF Spec

\* As long as no removal of a handler fails, every listed function can be
\* started from zero, whatever else fails and however many redeployments of it
\* were given up, except while a delete of it is under way.
THEOREM ListedAlwaysRestartable ==
  ASSUME "destroy" \notin Faults
  PROVE  Spec => []ListedRestartable
<1>1. HInv => ListedRestartable
  BY DEF HInv, Images
<1> QED BY <1>1, HandlersKept, PTL

\* Nothing that runs is left behind by requests that have ended, provided no
\* removal of a handler fails and no function is deployed twice at once.
THEOREM NeverOrphans ==
  ASSUME "destroy" \notin Faults, replicas > 0
  PROVE  Spec /\ []Alone => []NoOrphans
<1>1. TypeOK /\ HInv /\ OInv => NoOrphans
  BY Distinct DEF TypeOK, HInv, Lineage, OInv, UpNeedsImage, Accounted, NoOrphans
<1> QED BY <1>1, OwnersKept, PTL

-----------------------------------------------------------------------------
(* The shutdown takes no step that Server does not take, and once the       *)
(* requests with a client have ended nothing is listed that it will not     *)
(* delete.                                                                  *)

Serial ==
  /\ phase \in {"serving", "draining", "stopping", "wiping", "exited"}
  /\ drained \in BOOLEAN
  /\ phase \in {"serving", "draining", "stopping"} => pc[Main] = "idle"
  /\ drained => phase \notin {"serving", "draining"} /\ \A t \in Http : pc[t] = "idle"
  /\ drained /\ phase = "wiping" =>
       \A f \in Functions : functionHandlers[f] # None =>
         pc[Main] # "idle" /\ f \in local[Main].todo
  /\ drained /\ phase = "exited" => \A f \in Functions : functionHandlers[f] = None

LEMMA Begun ==
  ASSUME NEW t \in Threads, OwnStep(t) \/ (t \in Callers /\ CallFinish(t))
  PROVE  pc[t] # "idle"
<1> USE DEF At
<1>1. CASE ScaleStep(t)
  BY <1>1 DEF ScaleStep, DownLookup, DownIPs, DownUpdate, DownStop, DownRestore,
     UpLookup, UpRestart, UpIPs, UpAdd, ScaleDone
<1>2. CASE DeployStep(t)
  BY <1>2 DEF DeployStep, DeployCreate, DeployDrain, DeployDrained, DeployStart,
     DeployAdd, DeployCommit, DeployRegister, DeployDestroyOld, DeployAbort
<1>3. CASE DeleteStep(t)
  BY <1>3 DEF DeleteStep, DeleteLock, DeleteDestroy, DeleteFailed, DeleteRoute,
     DeleteFinish
<1>4. CASE CallStep(t) \/ CallFinish(t)
  BY <1>4 DEF CallStep, CallColdStart, CallColdStarted, CallWaitRoute, CallBegin,
     CallRefused, CallFinish
<1> QED BY <1>1, <1>2, <1>3, <1>4 DEF OwnStep

LEMMA DeletersDoNotScale ==
  ASSUME IInv, NEW t \in Deleters, ScaleStep(t)
  PROVE  FALSE
<1>1. pc[t] \in ScaleLabels
  BY DEF At, ScaleLabels, ScaleStep, DownLookup, DownIPs, DownUpdate, DownStop,
     DownRestore, UpLookup, UpRestart, UpIPs, UpAdd, ScaleDone
<1> QED BY <1>1, Distinct DEF ScaleLabels, MuxLabels, IInv, Roles, Role

LEMMA ShutdownStepsServer ==
  ASSUME TypeOK, IInv, Serial, [ShutdownNext]_ShutdownVars
  PROVE  [Next]_vars
<1>1. CASE UNCHANGED ShutdownVars
  BY <1>1 DEF ShutdownVars
<1>2. CASE Accept
  BY <1>2 DEF Accept, Next, Request
<1>3. CASE AcceptedBefore
  BY <1>3, ProcessAssumption DEF AcceptedBefore, Next, Request
<1>4. CASE IdleCheck \/ PrewarmBegins
  BY <1>4 DEF IdleCheck, PrewarmBegins, Next, Request
<1>5. ASSUME NEW t \in Threads, GoOn(t)
      PROVE  Next
  <2>1. OwnStep(t) \/ (t \in Callers /\ CallFinish(t))
    BY <1>5 DEF GoOn
  <2>2. CASE ScaleStep(t)
    <3>1. t \in Deployers \cup Callers \cup Scalers
      BY <2>2, DeletersDoNotScale DEF Threads
    <3> QED BY <2>2, <3>1 DEF Next
  <2>3. CASE ~ScaleStep(t)
    BY <2>1, <2>3 DEF OwnStep, Next
  <2> QED BY <2>2, <2>3
<1>6. CASE Signal \/ Drain \/ DrainTimesOut \/ Exit
  BY <1>6 DEF Signal, Drain, DrainTimesOut, Exit
<1>7. CASE Wipe
  <2> DEFINE names == {f \in Functions : functionHandlers[f] # None}
  <2>1. CASE names = {}
    BY <1>7, <2>1 DEF Wipe, vars
  <2>2. CASE names # {}
    <3>1. At(Main, "idle") /\ Main \in Deleters
      BY <1>7, ProcessAssumption DEF Wipe, Serial, At
    <3>2. /\ MuxFree /\ Goto(Main, "deleteLock", [Reset EXCEPT !.todo = names])
          /\ UNCHANGED <<functionHandlers, tables, autoscaler, runtime, mux>>
      BY <1>7, <2>2 DEF Wipe
    <3>3. DeleteRequest(Main)
      BY <2>2, <3>1, <3>2 DEF DeleteRequest
    <3> QED BY <3>1, <3>3 DEF Next
  <2> QED BY <2>1, <2>2
<1> QED BY <1>1, <1>2, <1>3, <1>4, <1>5, <1>6, <1>7 DEF ShutdownNext

\* A step of a goroutine the shutdown does not wait for lists nothing.
LEMMA OthersQuiet ==
  ASSUME TypeOK, IInv, HInv, NEW t \in Callers \cup Scalers,
         OwnStep(t) \/ (t \in Callers /\ CallFinish(t))
  PROVE  Quiet(t)
<1>1. CASE ScaleStep(t)
  BY <1>1, DownLookupQuiet, DownIPsQuiet, DownUpdateQuiet, DownStopQuiet,
     DownRestoreQuiet, UpLookupQuiet, UpRestartQuiet, UpIPsQuiet, UpAddQuiet,
     ScaleDoneQuiet DEF ScaleStep
<1>2. CASE t \in Callers /\ (CallStep(t) \/ CallFinish(t))
  BY <1>2, CallColdStartQuiet, CallColdStartedQuiet, CallWaitRouteQuiet,
     CallBeginQuiet, CallRefusedQuiet, CallFinishQuiet DEF CallStep
<1> QED BY <1>1, <1>2, Distinct DEF OwnStep

\* A goroutine's step is its own.
Only(t) == \A u \in Threads : u # t => pc'[u] = pc[u] /\ local'[u] = local[u]

LEMMA DeployStepOnly ==
  ASSUME TypeOK, IInv, HInv, "destroy" \notin Faults, NEW t \in Deployers,
         ScaleStep(t) \/ DeployStep(t)
  PROVE  Only(t)
<1> USE DEF Only
<1>1. CASE ScaleStep(t)
  BY <1>1, DownLookupQuiet, DownIPsQuiet, DownUpdateQuiet, DownStopQuiet,
     DownRestoreQuiet, UpLookupQuiet, UpRestartQuiet, UpIPsQuiet, UpAddQuiet,
     ScaleDoneQuiet DEF ScaleStep, Quiet
<1>2. CASE DeployDrain(t) \/ DeployDrained(t) \/ DeployStart(t) \/ DeployAdd(t)
  BY <1>2, DeployDrainQuiet, DeployDrainedQuiet, DeployStartQuiet, DeployAddQuiet
  DEF Quiet
<1>3. CASE DeployCreate(t)
  BY <1>3, GotoWent, Distinct DEF DeployCreate, Went
<1>4. CASE DeployCommit(t)
  BY <1>4, GotoWent, Distinct DEF DeployCommit, Continue, Went
<1>5. CASE DeployRegister(t)
  BY <1>5, GotoWent, ReturnWent, Distinct DEF DeployRegister, Continue, Went
<1>6. CASE DeployDestroyOld(t)
  <2>1. local[t].old \in Handlers
    BY <1>6, Distinct DEF DeployDestroyOld, At, IInv, Operands, Operand
  <2> QED BY <1>6, <2>1, DestroyHandlerWent, Distinct DEF DeployDestroyOld, Went
<1>7. CASE DeployAbort(t)
  <2>1. local[t].new \in Handlers
    BY <1>7, Distinct DEF DeployAbort, At, IInv, Operands, Operand
  <2> QED BY <1>7, <2>1, DestroyHandlerWent, Distinct DEF DeployAbort, Went
<1> QED BY <1>1, <1>2, <1>3, <1>4, <1>5, <1>6, <1>7 DEF DeployStep

\* Every name of a wipe that is still listed is still to be deleted.
Ahead(x) ==
  \A f \in Functions : functionHandlers[f] # None => pc[x] # "idle" /\ f \in local[x].todo

LEMMA NextDeleteAhead ==
  ASSUME TypeOK, NEW t \in Deleters, NEW f \in Functions, NextDelete(t, f), Ahead(t),
         functionHandlers'[f] = None,
         \A g \in Functions : g # f => functionHandlers'[g] = functionHandlers[g]
  PROVE  Only(t) /\ Ahead(t)'
<1> DEFINE rest == local[t].todo \ {f}
           v == [Reset EXCEPT !.todo = rest]
<1>1. \A g \in Functions : functionHandlers'[g] # None => g \in rest
  BY DEF Ahead
<1>2. v.todo = rest
  BY DEF Reset
<1>3. CASE rest = {}
  BY <1>1, <1>3, ReturnWent, Distinct DEF NextDelete, Went, Only, Ahead
<1>4. CASE rest # {}
  <2>1. Goto(t, "deleteLock", v)
    BY <1>4 DEF NextDelete
  <2> HIDE DEF v, rest
  <2>2. Went(t, "deleteLock", v)
    BY <2>1, GotoWent, Distinct
  <2> QED BY <1>1, <1>2, <2>2 DEF Went, Only, Ahead
<1> QED BY <1>3, <1>4

LEMMA DeleteStepOnly ==
  ASSUME TypeOK, IInv, HInv, "destroy" \notin Faults, NEW t \in Deleters, DeleteStep(t)
  PROVE  Only(t) /\ (Ahead(t) => Ahead(t)')
<1>1. CASE DeleteLock(t)
  <2>1. UNCHANGED functionHandlers
    BY <1>1 DEF DeleteLock
  <2>2. PICK f \in local[t].todo :
         IF functionHandlers[f] = None
           THEN NextDelete(t, f) /\ UNCHANGED mux
           ELSE /\ mux' = t
                /\ Goto(t, "deleteDestroy",
                        [local[t] EXCEPT !.fn = f, !.h = functionHandlers[f]])
    BY <1>1 DEF DeleteLock
  <2>3. f \in Functions
    BY LocalTyped, Distinct DEF LocalType
  <2>4. CASE functionHandlers[f] = None
    BY <2>1, <2>2, <2>3, <2>4, NextDeleteAhead, NextDeleteWent, Distinct DEF Only
  <2>5. CASE functionHandlers[f] # None
    <3> DEFINE v == [local[t] EXCEPT !.fn = f, !.h = functionHandlers[f]]
    <3>1. v.todo = local[t].todo
      BY LocalTyped, Distinct DEF LocalType
    <3> HIDE DEF v
    <3>2. Went(t, "deleteDestroy", v)
      BY <2>2, <2>5, GotoWent, Distinct DEF v
    <3> QED BY <2>1, <3>1, <3>2 DEF Went, Only, Ahead
  <2> QED BY <2>4, <2>5
<1>2. CASE DeleteDestroy(t)
  <2>1. local[t].h \in Handlers /\ UNCHANGED functionHandlers
    BY <1>2, Distinct DEF DeleteDestroy, At, IInv, Operands, Operand, MuxLabels
  <2>2. Went(t, "deleteRoute", local[t])
    BY <1>2, <2>1, DestroyHandlerWent, Distinct DEF DeleteDestroy
  <2> QED BY <2>1, <2>2 DEF Went, Only, Ahead
<1>3. CASE DeleteRoute(t)
  <2>1. Went(t, "deleteFinish", local[t]) /\ UNCHANGED functionHandlers
    BY <1>3, GotoWent, Distinct DEF DeleteRoute, Continue
  <2> QED BY <2>1 DEF Went, Only, Ahead
<1>4. CASE DeleteFinish(t)
  <2>1. local[t].fn \in Functions
    BY <1>4, Distinct DEF DeleteFinish, At, IInv, Operands, Operand, MuxLabels
  <2>2. /\ functionHandlers'[local[t].fn] = None
        /\ \A g \in Functions : g # local[t].fn =>
             functionHandlers'[g] = functionHandlers[g]
        /\ NextDelete(t, local[t].fn)
    BY <1>4, <2>1 DEF DeleteFinish, TypeOK
  <2> QED BY <2>1, <2>2, NextDeleteAhead, NextDeleteWent, Distinct DEF Only
<1> QED BY <1>1, <1>2, <1>3, <1>4, DeleteFailedKeeps DEF DeleteStep

\* A step that lists nothing and moves no goroutine the shutdown looks at.
LEMMA BesidesSerial ==
  ASSUME Serial, UNCHANGED <<functionHandlers, process>>, NEW t \in Callers \cup Scalers,
         Only(t), t \in Http => ~drained
  PROVE  Serial'
<1>1. Main \in Deleters /\ Main # t
  BY ProcessAssumption, Distinct
<1>2. pc'[Main] = pc[Main] /\ local'[Main] = local[Main]
  BY <1>1, Distinct DEF Only
<1>3. drained => \A u \in Http : pc'[u] = pc[u]
  BY Distinct DEF Only, Http
<1> QED BY <1>2, <1>3 DEF Serial, process

LEMMA GoOnKeepsSerial ==
  ASSUME TypeOK, IInv, HInv, "destroy" \notin Faults, Serial, NEW t \in Threads, GoOn(t)
  PROVE  Serial'
<1>1. /\ OwnStep(t) \/ (t \in Callers /\ CallFinish(t))
      /\ phase # "exited" /\ phase' = phase /\ drained' = drained
  BY DEF GoOn, Running, process
<1>2. Main \in Deleters /\ Main \in Threads /\ Main \notin Http
  BY ProcessAssumption, Distinct DEF Http
<1>3. pc[t] # "idle"
  BY <1>1, Begun
<1>4. t \in Http => ~drained
  BY <1>3 DEF Serial
<1>5. CASE t \in Callers \cup Scalers
  <2>1. Quiet(t)
    BY <1>1, <1>5, OthersQuiet
  <2> QED BY <1>1, <1>4, <1>5, <2>1, BesidesSerial DEF Quiet, Only, process
<1>6. CASE t \in Deployers \cup (Deleters \ {Main})
  <2>1. Only(t)
    BY <1>1, <1>6, DeployStepOnly, DeleteStepOnly, DeletersDoNotScale, Distinct DEF
       OwnStep
  <2>2. ~drained /\ t # Main
    BY <1>2, <1>4, <1>6, Distinct DEF Http
  <2>3. pc'[Main] = pc[Main]
    BY <1>2, <2>1, <2>2 DEF Only
  <2> QED BY <1>1, <2>2, <2>3 DEF Serial
<1>7. CASE t = Main
  <2>1. DeleteStep(Main)
    BY <1>1, <1>2, <1>7, DeletersDoNotScale, Distinct DEF OwnStep
  <2>2. Only(Main) /\ (Ahead(Main) => Ahead(Main)')
    BY <1>2, <2>1, DeleteStepOnly
  <2>3. phase = "wiping"
    BY <1>1, <1>3, <1>7 DEF Serial
  <2>4. \A u \in Http : pc'[u] = pc[u]
    BY <1>2, <2>2, Distinct DEF Only, Http
  <2> QED BY <1>1, <2>2, <2>3, <2>4 DEF Serial, Ahead
<1> QED BY <1>5, <1>6, <1>7 DEF Threads

LEMMA SerialKeeps ==
  ASSUME TypeOK, IInv, HInv, "destroy" \notin Faults, Serial, [ShutdownNext]_ShutdownVars
  PROVE  Serial'
<1>1. Main \in Deleters /\ Main \in Threads /\ Main \notin Http
  BY ProcessAssumption, Distinct DEF Http
<1>2. CASE UNCHANGED ShutdownVars
  BY <1>2 DEF ShutdownVars, vars, process, Serial
<1>3. CASE Accept
  <2>1. PICK t \in Threads : t # Main /\ Only(t)
    <3>1. CASE \E f \in Functions, t \in Deployers : DeployLookup(t, f)
      BY <1>1, <3>1, GotoWent, Distinct DEF DeployLookup, Went, Only
    <3>2. CASE \E f \in Functions, t \in Callers : CallSnapshot(t, f)
      BY <1>1, <3>2, CallSnapshotQuiet, Distinct DEF Quiet, Only
    <3>3. CASE \E t \in Deleters \ {Main} : DeleteRequest(t)
      BY <3>3, DeleteRequestQuiet, Distinct DEF Quiet, Only
    <3> QED BY <1>3, <3>1, <3>2, <3>3 DEF Accept
  <2> QED BY <1>1, <1>3, <2>1 DEF Only, Accept, process, Serial
<1>4. CASE AcceptedBefore
  <2>1. PICK f \in Functions, t \in Async : CallSnapshot(t, f)
    BY <1>4 DEF AcceptedBefore
  <2>2. Quiet(t) /\ t \in Callers /\ t \notin Http
    BY <2>1, ProcessAssumption, CallSnapshotQuiet, Distinct DEF Http
  <2> QED BY <1>4, <2>2, BesidesSerial DEF Quiet, Only, AcceptedBefore
<1>5. CASE IdleCheck \/ PrewarmBegins
  <2>1. PICK f \in Functions, t \in Scalers : IdleScaleDown(t, f) \/ Prewarm(t, f)
    BY <1>5 DEF IdleCheck, PrewarmBegins
  <2>2. Quiet(t) /\ t \notin Http
    BY <2>1, IdleScaleDownQuiet, PrewarmQuiet, Distinct DEF Http
  <2> QED BY <1>5, <2>2, BesidesSerial DEF Quiet, Only, IdleCheck, PrewarmBegins
<1>6. ASSUME NEW t \in Threads, GoOn(t)
      PROVE  Serial'
  BY <1>6, GoOnKeepsSerial
<1>7. CASE Signal \/ Drain \/ DrainTimesOut
  <2>1. UNCHANGED <<functionHandlers, pc, local>>
    BY <1>7 DEF Signal, Drain, DrainTimesOut, vars
  <2>2. CASE Signal \/ DrainTimesOut
    BY <2>1, <2>2 DEF Signal, DrainTimesOut, Serial
  <2>3. CASE Drain
    BY <2>1, <2>3 DEF Drain, Serial, At
  <2> QED BY <1>7, <2>2, <2>3
<1>8. CASE Exit
  BY <1>8 DEF Exit, vars, Serial, At
<1>9. CASE Wipe
  <2> DEFINE names == {f \in Functions : functionHandlers[f] # None}
             v == [Reset EXCEPT !.todo = names]
  <2>1. /\ phase = "stopping" /\ UNCHANGED <<functionHandlers, drained>>
        /\ IF names = {}
             THEN phase' = "exited" /\ UNCHANGED <<pc, local>>
             ELSE phase' = "wiping" /\ Goto(Main, "deleteLock", v)
    BY <1>9 DEF Wipe
  <2>2. v.todo = names
    BY DEF Reset
  <2>3. CASE names = {}
    BY <2>1, <2>3 DEF Serial
  <2>4. CASE names # {}
    <3>1. \A f \in Functions : functionHandlers[f] # None => f \in names
      OBVIOUS
    <3> HIDE DEF names, v
    <3>2. Went(Main, "deleteLock", v)
      BY <1>1, <2>1, <2>4, GotoWent
    <3>3. \A u \in Http : pc'[u] = pc[u]
      BY <1>1, <3>2, Distinct DEF Went, Http
    <3> QED BY <2>1, <2>2, <2>4, <3>1, <3>2, <3>3 DEF Went, Serial
  <2> QED BY <2>3, <2>4
<1> QED BY <1>2, <1>3, <1>4, <1>5, <1>6, <1>7, <1>8, <1>9 DEF ShutdownNext

\* A shutdown whose requests ended in time exits with no container running and
\* no image left, whatever asynchronous invocations and prewarm goroutines
\* start meanwhile, under the conditions of NeverOrphans.
THEOREM ExitAlwaysCleansUp ==
  ASSUME "destroy" \notin Faults, replicas > 0
  PROVE  ShutdownSpec /\ []Alone => []ExitCleansUp
<1> DEFINE Inv == TypeOK /\ IInv /\ HInv /\ OInv /\ Serial
<1>1. ShutdownInit => Inv
  <2> SUFFICES ASSUME ShutdownInit
               PROVE  Inv
    OBVIOUS
  <2>1. TypeOK /\ IInv /\ HInv /\ OInv
    BY InitInv, InitKeeps DEF ShutdownInit
  <2>2. pc[Main] = "idle"
    BY ProcessAssumption, Distinct DEF ShutdownInit, Init
  <2> QED BY <2>1, <2>2 DEF ShutdownInit, Serial
<1>2. Inv /\ Alone /\ [ShutdownNext]_ShutdownVars => Inv'
  <2> SUFFICES ASSUME Inv, Alone, [ShutdownNext]_ShutdownVars
               PROVE  Inv'
    OBVIOUS
  <2>1. [Next]_vars
    BY ShutdownStepsServer
  <2>2. TypeOK' /\ IInv'
    BY <2>1, StepInv
  <2>3. HInv' /\ OInv'
    BY <2>1, <2>2, StepKeeps
  <2>4. Serial'
    BY SerialKeeps
  <2> QED BY <2>2, <2>3, <2>4
<1>3. Inv => ExitCleansUp
  <2> SUFFICES ASSUME Inv, phase = "exited", drained, NEW h \in Handlers
               PROVE  handler[h].phase # "up" /\ ~handler[h].image
    BY DEF ExitCleansUp
  <2>1. \A t \in Threads : local[t].new = None /\ local[t].old = None
    BY Distinct DEF Serial, Http, HInv, EmptyHanded
  <2>2. \A f \in Functions : functionHandlers[f] = None
    BY DEF Serial
  <2> QED BY <2>1, <2>2, Distinct DEF OInv, UpNeedsImage, Accounted, InHand
<1> QED BY <1>1, <1>2, <1>3, PTL DEF ShutdownSpec

-----------------------------------------------------------------------------
(* Routes and the addresses attributed to them, as long as every function is *)
(* deployed once.                                                            *)

RouteEmpty(f) == RT!HasRoute(f) => routingTable[f].ips = {}

\* Where a goroutine may rely on its function's route listing nothing.
Routeless(label, ok) ==
  \/ label \in {"create", "start", "add", "downStop", "downRestore",
                "upLookup", "upRestart", "upIPs", "upAdd"}
  \/ label = "downDone" /\ ok
  \/ label = "upDone" /\ ~ok

\* What holds of a goroutine at a label with the variables v.
Place(t, label, v) ==
  /\ label \in ScaleLabels => deployed[v.entry] = v.fn
  /\ t \in Deployers =>
       /\ v.old = None /\ label \notin DownLabels \cup {"drain", "destroyOld"}
       /\ label = "create" => \A h \in Handlers : deployed[h] # v.fn
       /\ label \notin {"idle", "create"} => deployed[v.new] = v.fn
  /\ Routeless(label, v.ok) => RouteEmpty(v.fn)
  /\ label = "downRestore" => ~v.ok

Places == \A t \in Threads : Place(t, pc[t], local[t])

Once ==
  \A g, h \in Handlers : deployed[g] # None /\ deployed[g] = deployed[h] => g = h

\* What is listed, registered and routed was deployed under that name, and
\* nothing is routed to a function that is scaled down.
Names ==
  \A f \in Functions :
    /\ functionHandlers[f] # None => deployed[functionHandlers[f]] = f
    /\ autoscaler[f].entry # None => deployed[autoscaler[f].entry] = f
    /\ AS!InState(f, "ScaledDown") => RouteEmpty(f)
    /\ RT!HasRoute(f) => \E h \in Handlers : deployed[h] = f

RInv == Places /\ Once /\ Names /\ ReverseOwned

LEMMA PerformsWent ==
  ASSUME TypeOK, NEW t \in Threads, NEW h, NEW o, NEW results,
         NEW okLabel, NEW okLocal, NEW errLabel, NEW errLocal,
         Perform(o, h, results, t, okLabel, okLocal, errLabel, errLocal)
  PROVE  /\ UNCHANGED deployed
         /\ Went(t, okLabel, okLocal) \/ Went(t, errLabel, errLocal)
  BY GotoWent DEF Perform

\* A step that changes no route.
LEMMA NamesKeep ==
  ASSUME TypeOK, RInv, NEW t \in Threads, NEW label, NEW v,
         Went(t, label, v), Place(t, label, v), UNCHANGED <<tables, deployed>>,
         \A f \in Functions : functionHandlers'[f] # None =>
           deployed[functionHandlers'[f]] = f,
         \A f \in Functions : autoscaler'[f].entry # None =>
           deployed[autoscaler'[f].entry] = f,
         \A f \in Functions : autoscaler'[f].state = "ScaledDown" => RouteEmpty(f)
  PROVE  RInv'
<1>1. UNCHANGED <<routingTable, reverseRoutingTable, deployed>>
  BY DEF tables
<1>2. \A f : RouteEmpty(f)' <=> RouteEmpty(f)
  BY <1>1 DEF RouteEmpty, RT!HasRoute
<1>3. Places'
  BY <1>1, <1>2, Distinct DEF RInv, Places, Place, Went
<1>4. Once' /\ ReverseOwned'
  BY <1>1 DEF RInv, Once, ReverseOwned, RT!HasRoute
<1>5. Names'
  BY <1>1, <1>2 DEF RInv, Names, AS!InState, RT!HasRoute
<1> QED BY <1>3, <1>4, <1>5 DEF RInv

LEMMA LocalKeeps ==
  ASSUME TypeOK, RInv, NEW t \in Threads, NEW label, NEW v,
         Went(t, label, v), Place(t, label, v),
         UNCHANGED <<functionHandlers, tables, autoscaler, deployed>>
  PROVE  RInv'
<1>1. \A f \in Functions : autoscaler[f].state = "ScaledDown" => RouteEmpty(f)
  BY DEF RInv, Names, AS!InState
<1> QED BY <1>1, NamesKeep DEF RInv, Names

\* A goroutine that serves an invocation or a delete relies on nothing.
LEMMA PlainPlace ==
  ASSUME NEW t \in Deleters \cup Callers \cup Scalers, NEW v,
         NEW label \in MuxLabels \cup {"idle", "deleteLock", "coldStart", "waitRoute",
                                       "begin", "http"}
  PROVE  Place(t, label, v)
  BY Distinct DEF Place, Routeless, ScaleLabels, MuxLabels

LEMMA IdlePlace == \A t \in Threads : Place(t, "idle", Reset)
  BY DEF Place, Routeless, ScaleLabels, DownLabels, Reset

\* A function's route, and nobody else's, is changed by t.
Rerouted(t, f) ==
  /\ UNCHANGED <<functionHandlers, autoscaler, deployed>>
  /\ \A g \in Functions : g # f =>
       /\ g \in DOMAIN routingTable' <=> g \in DOMAIN routingTable
       /\ g \in DOMAIN routingTable => routingTable'[g] = routingTable[g]
  /\ f \in DOMAIN routingTable' => \E h \in Handlers : deployed[h] = f
  /\ ReverseOwned'

Emptied(f) == f \in DOMAIN routingTable' => routingTable'[f].ips = {}

\* Nobody else relies on the route of f listing nothing.
Unobserved(t, f) ==
  /\ \A u \in Threads : u # t /\ Routeless(pc[u], local[u].ok) => local[u].fn # f
  /\ ~AS!InState(f, "ScaledDown")

LEMMA ReroutingKeeps ==
  ASSUME TypeOK, RInv, IInv, NEW t \in Threads, NEW f \in Functions, NEW label, NEW v,
         Went(t, label, v), Rerouted(t, f), Emptied(f) \/ Unobserved(t, f),
         label \in ScaleLabels => deployed[v.entry] = v.fn,
         t \in Deployers =>
           v.old = None /\ label \in {"commit", "abort"} /\ deployed[v.new] = v.fn,
         Routeless(label, v.ok) => v.fn = f /\ Emptied(f),
         label # "downRestore"
  PROVE  RInv'
<1>1. UNCHANGED <<functionHandlers, autoscaler, deployed>>
  BY DEF Rerouted
<1>2. Once' /\ ReverseOwned'
  BY <1>1 DEF RInv, Once, Rerouted
<1>3. \A g \in Functions : g # f => (RouteEmpty(g)' <=> RouteEmpty(g))
  BY DEF Rerouted, RouteEmpty, RT!HasRoute
<1>4. Emptied(f) => RouteEmpty(f)'
  BY DEF Emptied, RouteEmpty, RT!HasRoute
<1>5. Names'
  BY <1>1, <1>3, <1>4 DEF RInv, Names, Rerouted, Unobserved, AS!InState, RT!HasRoute
<1>6. ASSUME NEW u \in Threads
      PROVE  Place(u, pc[u], local[u])' 
  <2>1. CASE u = t
    BY <1>1, <1>4, <2>1 DEF Place, Went, DownLabels
  <2>2. CASE u # t
    <3>1. pc'[u] = pc[u] /\ local'[u] = local[u] /\ Place(u, pc[u], local[u])
      BY <2>2 DEF Went, RInv, Places
    <3>2. ASSUME Routeless(pc[u], local[u].ok)
          PROVE  local[u].fn \in Functions
      <4>1. CASE pc[u] \in ScaleLabels
        BY <4>1 DEF IInv, Operands, Operand
      <4>2. CASE pc[u] \in {"create", "start", "add"}
        <5>1. u \in Deployers
          BY <4>2, Distinct DEF IInv, Roles, Role, ScaleLabels, MuxLabels, UpLabels,
             Threads
        <5> QED BY <4>2, <5>1 DEF IInv, Operands, Operand
      <4> QED BY <3>2, <4>1, <4>2 DEF Routeless, ScaleLabels
    <3>3. ASSUME Routeless(pc[u], local[u].ok)
          PROVE  RouteEmpty(local[u].fn)'
      <4>1. CASE local[u].fn = f
        <5>1. Emptied(f)
          BY <2>2, <3>3, <4>1 DEF Unobserved
        <5>2. RouteEmpty(f)'
          BY <1>4, <5>1
        <5>3. local'[u].fn = f
          BY <3>1, <4>1
        <5> QED BY <3>1, <5>2, <5>3 DEF RouteEmpty
      <4>2. CASE local[u].fn # f
        <5>1. RouteEmpty(local[u].fn)
          BY <3>1, <3>3 DEF Place
        <5>2. PICK g \in Functions : g = local[u].fn /\ g # f
          BY <3>2, <3>3, <4>2
        <5>3. RouteEmpty(g)'
          BY <1>3, <5>1, <5>2
        <5> QED BY <3>1, <5>2, <5>3 DEF RouteEmpty
      <4> QED BY <4>1, <4>2
    <3> QED BY <1>1, <3>1, <3>3 DEF Place
  <2> QED BY <2>1, <2>2
<1>7. Places'
  BY <1>6 DEF Places
<1> QED BY <1>2, <1>5, <1>7 DEF RInv

LEMMA AddOwned ==
  ASSUME TypeOK, ReverseOwned, NEW f \in Functions, NEW ips \in SUBSET IPs,
         RouteEmpty(f), RT!Add(f, ips)
  PROVE  /\ ReverseOwned'
         /\ \A g \in Functions : g # f =>
              /\ g \in DOMAIN routingTable' <=> g \in DOMAIN routingTable
              /\ g \in DOMAIN routingTable => routingTable'[g] = routingTable[g]
         /\ ips = {} => Emptied(f)
<1>1. CASE ips = {}
  BY <1>1 DEF RT!Add, RT!AddAccepts, ReverseOwned, RT!HasRoute, RouteEmpty, Emptied
<1>2. CASE ips # {}
  <2>1. /\ routingTable' = [g \in DOMAIN routingTable \cup {f} |->
                              IF g = f THEN [ips |-> ips, isActive |-> TRUE]
                              ELSE routingTable[g]]
        /\ reverseRoutingTable' =
             [ip \in IPs |-> IF ip \in ips THEN f ELSE reverseRoutingTable[ip]]
    BY <1>2 DEF RT!Add, RT!AddAccepts, RT!SetRoute, RT!Route, RT!Attribute
  <2>2. ReverseOwned'
    BY <2>1 DEF ReverseOwned, RT!HasRoute, RouteEmpty
  <2> QED BY <1>2, <2>1, <2>2
<1> QED BY <1>1, <1>2

LEMMA DelOwned ==
  ASSUME TypeOK, ReverseOwned, NEW f \in Functions, RT!Del(f)
  PROVE  /\ ReverseOwned' /\ Emptied(f) /\ f \notin DOMAIN routingTable'
         /\ \A g \in Functions : g # f =>
              /\ g \in DOMAIN routingTable' <=> g \in DOMAIN routingTable
              /\ g \in DOMAIN routingTable => routingTable'[g] = routingTable[g]
<1>1. CASE ~RT!HasRoute(f)
  BY <1>1 DEF RT!Del, ReverseOwned, RT!HasRoute, Emptied
<1>2. CASE RT!HasRoute(f)
  <2>1. /\ routingTable' = [g \in DOMAIN routingTable \ {f} |-> routingTable[g]]
        /\ reverseRoutingTable' =
             [ip \in IPs |-> IF ip \in routingTable[f].ips THEN None
                             ELSE reverseRoutingTable[ip]]
    BY <1>2 DEF RT!Del, RT!Attribute
  <2>2. ReverseOwned'
    BY <2>1, Distinct DEF ReverseOwned, RT!HasRoute
  <2> QED BY <2>1, <2>2 DEF Emptied
<1> QED BY <1>1, <1>2

LEMMA UpdateOwned ==
  ASSUME TypeOK, ReverseOwned, NEW f \in Functions, RT!Update(f)
  PROVE  /\ ReverseOwned' /\ Emptied(f)
         /\ f \in DOMAIN routingTable' => f \in DOMAIN routingTable
         /\ \A g \in Functions : g # f =>
              /\ g \in DOMAIN routingTable' <=> g \in DOMAIN routingTable
              /\ g \in DOMAIN routingTable => routingTable'[g] = routingTable[g]
<1>1. CASE ~RT!HasRoute(f)
  BY <1>1 DEF RT!Update, ReverseOwned, RT!HasRoute, Emptied
<1>2. CASE RT!HasRoute(f)
  <2>1. /\ routingTable' = [g \in DOMAIN routingTable \cup {f} |->
                              IF g = f THEN [ips |-> {}, isActive |-> FALSE]
                              ELSE routingTable[g]]
        /\ reverseRoutingTable' =
             [ip \in IPs |-> IF ip \in routingTable[f].ips THEN None
                             ELSE reverseRoutingTable[ip]]
    BY <1>2 DEF RT!Update, RT!SetRoute, RT!Route, RT!Attribute
  <2>2. ReverseOwned'
    BY <2>1, Distinct DEF ReverseOwned, RT!HasRoute
  <2> QED BY <1>2, <2>1, <2>2 DEF Emptied, RT!HasRoute
<1> QED BY <1>1, <1>2

\* Who scales a function that was deployed once does so alone, and not while it
\* is being deployed.
LEMMA SoleScaler ==
  ASSUME TypeOK, IInv, RInv, NEW t \in Threads, pc[t] \in ScaleLabels
  PROVE  /\ local[t].fn \in Functions /\ t \notin Deployers
         /\ \E h \in Handlers : deployed[h] = local[t].fn
         /\ Unobserved(t, local[t].fn)
<1> DEFINE f == local[t].fn
           e == local[t].entry
<1>1. f \in Functions /\ e \in Handlers /\ deployed[e] = f
  BY DEF IInv, Operands, Operand, RInv, Places, Place
<1>2. t \notin Deployers
  BY Distinct DEF RInv, Places, Place, IInv, Roles, Role, ScaleLabels, DownLabels
<1>3. ASSUME NEW u \in Threads, u # t, Routeless(pc[u], local[u].ok), local[u].fn = f
      PROVE  FALSE
  <2>1. CASE pc[u] \in ScaleLabels
    <3>1. local[u].entry \in Handlers /\ deployed[local[u].entry] = f
      BY <1>3, <2>1 DEF IInv, Operands, Operand, RInv, Places, Place
    <3>2. local[u].entry = e
      BY <1>1, <3>1, Distinct DEF RInv, Once
    <3> QED BY <1>1, <1>3, <2>1, <3>2 DEF IInv, Claims
  <2>2. CASE pc[u] \in {"create", "start", "add"}
    <3>1. u \in Deployers
      BY <2>2, Distinct DEF IInv, Roles, Role, ScaleLabels, MuxLabels, UpLabels, Threads
    <3>2. CASE pc[u] = "create"
      BY <1>1, <1>3, <3>1, <3>2 DEF RInv, Places, Place
    <3>3. CASE pc[u] # "create"
      <4>1. local[u].new \in Handlers /\ deployed[local[u].new] = f /\ Holding(u)
        BY <1>3, <2>2, <3>1, <3>3
        DEF IInv, Operands, Operand, RInv, Places, Place, Holding, Preparing
      <4>2. local[u].new = e
        BY <1>1, <4>1, Distinct DEF RInv, Once
      <4> QED BY <3>1, <4>1, <4>2 DEF IInv, Fresh
    <3> QED BY <3>2, <3>3
  <2> QED BY <1>3, <2>1, <2>2 DEF Routeless, ScaleLabels
<1>4. ~AS!InState(f, "ScaledDown")
  <2> SUFFICES ASSUME autoscaler[f].state = "ScaledDown" PROVE FALSE
    BY DEF AS!InState
  <2>1. autoscaler[f].entry \in Handlers
    BY <1>1, EntryTyped DEF AS!Unregistered
  <2>2. autoscaler[f].entry = e
    BY <1>1, <2>1, Distinct DEF RInv, Names, Once
  <2>3. AS!Scaling(f)
    BY <1>1, <2>2 DEF IInv, Claims
  <2> QED BY <2>3 DEF AS!Scaling, AS!InState
<1> QED BY <1>1, <1>2, <1>3, <1>4 DEF Unobserved

LEMMA SoleDeployer ==
  ASSUME TypeOK, IInv, RInv, Alone, NEW d \in Deployers, pc[d] = "add"
  PROVE  /\ local[d].fn \in Functions
         /\ \E h \in Handlers : deployed[h] = local[d].fn
         /\ Unobserved(d, local[d].fn)
<1> DEFINE f == local[d].fn
           n == local[d].new
<1>1. f \in Functions /\ n \in Handlers /\ deployed[n] = f /\ Holding(d) /\ d \in Threads
  BY Distinct DEF IInv, Operands, Operand, RInv, Places, Place, Holding, Preparing
<1>2. ASSUME NEW u \in Threads, u # d, Routeless(pc[u], local[u].ok), local[u].fn = f
      PROVE  FALSE
  <2>1. CASE pc[u] \in ScaleLabels
    <3>1. local[u].entry \in Handlers /\ deployed[local[u].entry] = f
      BY <1>2, <2>1 DEF IInv, Operands, Operand, RInv, Places, Place
    <3>2. local[u].entry = n
      BY <1>1, <3>1, Distinct DEF RInv, Once
    <3> QED BY <1>1, <2>1, <3>2 DEF IInv, Fresh
  <2>2. CASE pc[u] \in {"create", "start", "add"}
    <3>1. u \in Deployers
      BY <2>2, Distinct DEF IInv, Roles, Role, ScaleLabels, MuxLabels, UpLabels, Threads
    <3> QED BY <1>2, <2>2, <3>1 DEF Alone
  <2> QED BY <1>2, <2>1, <2>2 DEF Routeless, ScaleLabels
<1>3. ~AS!InState(f, "ScaledDown")
  <2> SUFFICES ASSUME autoscaler[f].state = "ScaledDown" PROVE FALSE
    BY DEF AS!InState
  <2>1. autoscaler[f].entry \in Handlers
    BY <1>1, EntryTyped DEF AS!Unregistered
  <2>2. autoscaler[f].entry = n
    BY <1>1, <2>1, Distinct DEF RInv, Names, Once
  <2> QED BY <1>1, <2>2 DEF IInv, Fresh
<1> QED BY <1>1, <1>2, <1>3 DEF Unobserved

LEMMA DownLookupRoutes ==
  ASSUME TypeOK, IInv, RInv, NEW t \in Deployers \cup Callers \cup Scalers, DownLookup(t)
  PROVE  RInv'
<1> DEFINE v == [local[t] EXCEPT !.h = functionHandlers[local[t].fn],
                               !.ok = functionHandlers[local[t].fn] # None]
<1>1. /\ v.new = local[t].new /\ v.old = local[t].old /\ v.fn = local[t].fn
      /\ v.entry = local[t].entry /\ v.ok = (functionHandlers[local[t].fn] # None)
  BY LocalTyped, Distinct DEF LocalType
<1>2. /\ Goto(t, IF functionHandlers[local[t].fn] = None THEN "downDone" ELSE "downIPs", v)
      /\ At(t, "downLookup") /\ UNCHANGED <<functionHandlers, tables, autoscaler, deployed>>
  BY DEF DownLookup, Lookup, runtime
<1>3. t \in Threads /\ t \notin Deployers /\ Place(t, pc[t], local[t])
  BY <1>2, SoleScaler, Distinct DEF At, ScaleLabels, RInv, Places
<1> HIDE DEF v
<1>4. Place(t, "downIPs", v) /\ (functionHandlers[local[t].fn] = None
                                   => Place(t, "downDone", v))
  BY <1>1, <1>2, <1>3 DEF Place, Routeless, ScaleLabels, At
<1> QED BY <1>2, <1>3, <1>4, GotoWent, LocalKeeps

LEMMA UpLookupRoutes ==
  ASSUME TypeOK, IInv, RInv, NEW t \in Deployers \cup Callers \cup Scalers, UpLookup(t)
  PROVE  RInv'
<1> DEFINE v == [local[t] EXCEPT !.h = functionHandlers[local[t].fn],
                               !.ok = functionHandlers[local[t].fn] # None]
<1>1. /\ v.new = local[t].new /\ v.old = local[t].old /\ v.fn = local[t].fn
      /\ v.entry = local[t].entry
  BY LocalTyped, Distinct DEF LocalType
<1>2. /\ Goto(t, "upRestart", v) \/ Goto(t, "upDone", v)
      /\ At(t, "upLookup") /\ UNCHANGED <<functionHandlers, tables, autoscaler, deployed>>
  BY DEF UpLookup, Lookup, runtime
<1>3. t \in Threads /\ t \notin Deployers /\ Place(t, pc[t], local[t])
  BY <1>2, SoleScaler, Distinct DEF At, ScaleLabels, RInv, Places
<1> HIDE DEF v
<1>4. Place(t, "upRestart", v) /\ Place(t, "upDone", v)
  BY <1>1, <1>2, <1>3 DEF Place, Routeless, ScaleLabels, At
<1> QED BY <1>2, <1>3, <1>4, GotoWent, LocalKeeps

LEMMA DownIPsRoutes ==
  ASSUME TypeOK, IInv, RInv, NEW t \in Deployers \cup Callers \cup Scalers, DownIPs(t)
  PROVE  RInv'
<1> DEFINE v == [local[t] EXCEPT !.ips = handler[local[t].h].ips]
<1>1. v.fn = local[t].fn /\ v.entry = local[t].entry
  BY LocalTyped, Distinct DEF LocalType
<1>2. /\ Goto(t, "downUpdate", v)
      /\ At(t, "downIPs") /\ UNCHANGED <<functionHandlers, tables, autoscaler, deployed>>
  BY DEF DownIPs, runtime
<1>3. t \in Threads /\ t \notin Deployers /\ Place(t, pc[t], local[t])
  BY <1>2, SoleScaler, Distinct DEF At, ScaleLabels, RInv, Places
<1> HIDE DEF v
<1>4. Place(t, "downUpdate", v)
  BY <1>1, <1>2, <1>3 DEF Place, Routeless, ScaleLabels, At
<1> QED BY <1>2, <1>3, <1>4, GotoWent, LocalKeeps

LEMMA UpIPsRoutes ==
  ASSUME TypeOK, IInv, RInv, NEW t \in Deployers \cup Callers \cup Scalers, UpIPs(t)
  PROVE  RInv'
<1> DEFINE v == [local[t] EXCEPT !.ips = handler[local[t].h].ips]
<1>1. v.fn = local[t].fn /\ v.entry = local[t].entry
  BY LocalTyped, Distinct DEF LocalType
<1>2. /\ Goto(t, "upAdd", v)
      /\ At(t, "upIPs") /\ UNCHANGED <<functionHandlers, tables, autoscaler, deployed>>
  BY DEF UpIPs, runtime
<1>3. t \in Threads /\ t \notin Deployers /\ Place(t, pc[t], local[t])
  BY <1>2, SoleScaler, Distinct DEF At, ScaleLabels, RInv, Places
<1> HIDE DEF v
<1>4. Place(t, "upAdd", v)
  BY <1>1, <1>2, <1>3 DEF Place, Routeless, ScaleLabels, At
<1> QED BY <1>2, <1>3, <1>4, GotoWent, LocalKeeps

LEMMA DownStopRoutes ==
  ASSUME TypeOK, IInv, RInv, NEW t \in Deployers \cup Callers \cup Scalers, DownStop(t)
  PROVE  RInv'
<1> DEFINE v == [local[t] EXCEPT !.ok = FALSE]
<1>1. v.fn = local[t].fn /\ v.entry = local[t].entry /\ ~v.ok
  BY LocalTyped, Distinct DEF LocalType
<1>2. At(t, "downStop") /\ UNCHANGED <<functionHandlers, tables, autoscaler>>
  BY DEF DownStop
<1>3. t \in Threads /\ t \notin Deployers /\ Place(t, pc[t], local[t])
  BY <1>2, SoleScaler, Distinct DEF At, ScaleLabels, RInv, Places
<1>4. UNCHANGED deployed /\ (Went(t, "downDone", local[t]) \/ Went(t, "downRestore", v))
  BY <1>3, PerformsWent DEF DownStop, StopHandler
<1> HIDE DEF v
<1>5. Place(t, "downDone", local[t]) /\ Place(t, "downRestore", v)
  BY <1>1, <1>2, <1>3 DEF Place, Routeless, ScaleLabels, At
<1> QED BY <1>2, <1>3, <1>4, <1>5, LocalKeeps

LEMMA UpRestartRoutes ==
  ASSUME TypeOK, IInv, RInv, NEW t \in Deployers \cup Callers \cup Scalers, UpRestart(t)
  PROVE  RInv'
<1> DEFINE v == [local[t] EXCEPT !.ok = FALSE]
<1>1. v.fn = local[t].fn /\ v.entry = local[t].entry
  BY LocalTyped, Distinct DEF LocalType
<1>2. At(t, "upRestart") /\ UNCHANGED <<functionHandlers, tables, autoscaler>>
  BY DEF UpRestart
<1>3. t \in Threads /\ t \notin Deployers /\ Place(t, pc[t], local[t])
  BY <1>2, SoleScaler, Distinct DEF At, ScaleLabels, RInv, Places
<1>4. UNCHANGED deployed /\ (Went(t, "upIPs", local[t]) \/ Went(t, "upDone", v))
  BY <1>3, PerformsWent DEF UpRestart, StartHandler
<1> HIDE DEF v
<1>5. Place(t, "upIPs", local[t]) /\ Place(t, "upDone", v)
  BY <1>1, <1>2, <1>3 DEF Place, Routeless, ScaleLabels, At
<1> QED BY <1>2, <1>3, <1>4, <1>5, LocalKeeps

LEMMA DownUpdateRoutes ==
  ASSUME TypeOK, IInv, RInv, NEW t \in Deployers \cup Callers \cup Scalers, DownUpdate(t)
  PROVE  RInv'
<1> DEFINE f == local[t].fn
<1>1. /\ At(t, "downUpdate") /\ UNCHANGED <<functionHandlers, autoscaler, deployed>>
      /\ RT!Update(f) /\ t \in Threads
  BY Distinct DEF DownUpdate, runtime
<1>2. /\ f \in Functions /\ t \notin Deployers
      /\ \E h \in Handlers : deployed[h] = f
      /\ deployed[local[t].entry] = f
  BY <1>1, SoleScaler DEF At, ScaleLabels, RInv, Places, Place
<1>3. Went(t, "downStop", local[t])
  BY <1>1, GotoWent DEF DownUpdate, Continue
<1>4. ReverseOwned
  BY DEF RInv
<1> HIDE DEF f
<1>5. Rerouted(t, f) /\ Emptied(f)
  BY <1>1, <1>2, <1>4, UpdateOwned DEF Rerouted
<1> QED BY <1>1, <1>2, <1>3, <1>5, ReroutingKeeps DEF f

LEMMA DownRestoreRoutes ==
  ASSUME TypeOK, IInv, RInv, NEW t \in Deployers \cup Callers \cup Scalers, DownRestore(t)
  PROVE  RInv'
<1> DEFINE f == local[t].fn
           ips == local[t].ips
<1>1. /\ At(t, "downRestore") /\ UNCHANGED <<functionHandlers, autoscaler, deployed>>
      /\ RT!Add(f, ips) /\ t \in Threads
  BY Distinct DEF DownRestore, runtime
<1>2. /\ f \in Functions /\ t \notin Deployers
      /\ \E h \in Handlers : deployed[h] = f
      /\ deployed[local[t].entry] = f /\ Unobserved(t, f)
      /\ RouteEmpty(f) /\ ~local[t].ok
  BY <1>1, SoleScaler DEF At, ScaleLabels, RInv, Places, Place, Routeless
<1>3. Went(t, "downDone", local[t])
  BY <1>1, GotoWent DEF DownRestore, Continue
<1>4. ReverseOwned /\ ips \in SUBSET IPs
  BY <1>1, LocalTyped DEF RInv, LocalType
<1>5. ~Routeless("downDone", local[t].ok)
  BY <1>2 DEF Routeless
<1> HIDE DEF f, ips
<1>6. Rerouted(t, f)
  BY <1>1, <1>2, <1>4, AddOwned DEF Rerouted
<1> QED BY <1>1, <1>2, <1>3, <1>5, <1>6, ReroutingKeeps DEF f

LEMMA UpAddRoutes ==
  ASSUME TypeOK, IInv, RInv, NEW t \in Deployers \cup Callers \cup Scalers, UpAdd(t)
  PROVE  RInv'
<1> DEFINE f == local[t].fn
           ips == local[t].ips
           v == [local[t] EXCEPT !.ok = RT!AddAccepts(local[t].ips), !.ips = {}]
<1>1. /\ At(t, "upAdd") /\ UNCHANGED <<functionHandlers, autoscaler, deployed>>
      /\ RT!Add(f, ips) /\ t \in Threads /\ Goto(t, "upDone", v)
  BY Distinct DEF UpAdd, runtime
<1>2. /\ f \in Functions /\ t \notin Deployers
      /\ \E h \in Handlers : deployed[h] = f
      /\ deployed[local[t].entry] = f /\ Unobserved(t, f)
      /\ RouteEmpty(f)
  BY <1>1, SoleScaler DEF At, ScaleLabels, RInv, Places, Place, Routeless
<1>3. v.fn = f /\ v.entry = local[t].entry /\ v.ok = (ips # {})
  BY <1>1, LocalTyped DEF LocalType, RT!AddAccepts
<1>4. ReverseOwned /\ ips \in SUBSET IPs
  BY <1>1, LocalTyped DEF RInv, LocalType
<1> HIDE DEF f, ips, v
<1>5. Went(t, "upDone", v)
  BY <1>1, GotoWent
<1>6. Rerouted(t, f) /\ (ips = {} => Emptied(f))
  BY <1>1, <1>2, <1>4, AddOwned DEF Rerouted
<1>7. Routeless("upDone", v.ok) => ips = {}
  BY <1>3 DEF Routeless
<1> QED BY <1>1, <1>2, <1>3, <1>5, <1>6, <1>7, ReroutingKeeps

\* Who claims a function takes the entry it was registered under.
LEMMA ClaimedWent ==
  ASSUME TypeOK, RInv, NEW t \in Threads, t \notin Deployers, NEW f \in Functions,
         NEW label \in {"downLookup", "upLookup"}, Claimed(t, f, label),
         autoscaler[f].entry \in Handlers,
         label = "upLookup" => RouteEmpty(f)
  PROVE  \E v : Went(t, label, v) /\ Place(t, label, v)
<1> DEFINE v == [local[t] EXCEPT !.fn = f, !.entry = autoscaler[f].entry]
<1>1. v.fn = f /\ v.entry = autoscaler[f].entry
  BY LocalTyped DEF LocalType
<1>2. Goto(t, label, v)
  BY DEF Claimed
<1>3. deployed[autoscaler[f].entry] = f
  BY Distinct DEF RInv, Names
<1> HIDE DEF v
<1>4. Place(t, label, v)
  BY <1>1, <1>3 DEF Place, Routeless
<1> QED BY <1>2, <1>4, GotoWent

LEMMA ScaleDownRoutes ==
  ASSUME TypeOK, IInv, RInv, NEW t \in Threads, t \notin Deployers, NEW f \in Functions,
         BeginScaleDown(t, f), UNCHANGED <<functionHandlers, tables, runtime>>
  PROVE  RInv'
<1>1. Claimed(t, f, "downLookup") /\ AS!ClaimScaleDown(f)
  BY DEF BeginScaleDown
<1>2. /\ autoscaler[f].entry \in Handlers
      /\ autoscaler'[f].state # "ScaledDown"
      /\ \A g \in Functions : autoscaler'[g].entry = autoscaler[g].entry
      /\ \A g \in Functions : g # f => autoscaler'[g].state = autoscaler[g].state
  BY <1>1, ClaimDownChanges DEF Changes
<1>3. PICK v : Went(t, "downLookup", v) /\ Place(t, "downLookup", v)
  BY <1>1, <1>2, ClaimedWent
<1> QED BY <1>2, <1>3, NamesKeep DEF RInv, Names, AS!InState, runtime

LEMMA ScaleUpRoutes ==
  ASSUME TypeOK, IInv, RInv, NEW t \in Threads, t \notin Deployers, NEW f \in Functions,
         BeginScaleUp(t, f), UNCHANGED <<functionHandlers, tables, runtime>>
  PROVE  RInv'
<1>1. Claimed(t, f, "upLookup") /\ AS!ClaimScaleUp(f)
  BY DEF BeginScaleUp
<1>2. /\ autoscaler[f].entry \in Handlers
      /\ autoscaler[f].state = "ScaledDown" /\ autoscaler'[f].state # "ScaledDown"
      /\ \A g \in Functions : autoscaler'[g].entry = autoscaler[g].entry
      /\ \A g \in Functions : g # f => autoscaler'[g].state = autoscaler[g].state
  BY <1>1, ClaimUpChanges DEF Changes
<1>3. RouteEmpty(f)
  BY <1>2 DEF RInv, Names, AS!InState
<1>4. PICK v : Went(t, "upLookup", v) /\ Place(t, "upLookup", v)
  BY <1>1, <1>2, <1>3, ClaimedWent
<1> QED BY <1>2, <1>4, NamesKeep DEF RInv, Names, AS!InState, runtime

LEMMA ScaleDoneRoutes ==
  ASSUME TypeOK, IInv, RInv, NEW t \in Deployers \cup Callers \cup Scalers, ScaleDone(t)
  PROVE  RInv'
<1> DEFINE f == local[t].fn
           e == local[t].entry
           v == [local[t] EXCEPT !.h = None, !.ips = {}, !.entry = None, !.ok = TRUE]
<1>1. /\ \/ pc[t] = "downDone" /\ AS!Settle(f, e, ~local[t].ok)
         \/ pc[t] = "upDone" /\ AS!Settle(f, e, local[t].ok)
      /\ Resume(t) /\ UNCHANGED <<functionHandlers, tables, deployed>>
  BY DEF ScaleDone, At, runtime
<1>2. /\ t \in Threads /\ t \notin Deployers /\ t \in Callers \cup Scalers
      /\ f \in Functions /\ e \in Handlers
  BY <1>1, SoleScaler, Distinct DEF ScaleLabels, IInv, Operands, Operand
<1>3. PICK active \in BOOLEAN :
        AS!Settle(f, e, active) /\ (~active => Routeless(pc[t], local[t].ok))
  BY <1>1, <1>2, LocalTyped DEF LocalType, Routeless
<1>4. Place(t, pc[t], local[t])
  BY <1>2 DEF RInv, Places
<1>5. ~active => RouteEmpty(f)
  BY <1>3, <1>4 DEF Place
<1>6. \/ Went(t, "idle", Reset) /\ Place(t, "idle", Reset)
      \/ Went(t, "waitRoute", v) /\ Place(t, "waitRoute", v)
  <2>1. Return(t) \/ Goto(t, "waitRoute", v)
    BY <1>1, <1>2 DEF Resume
  <2> HIDE DEF v
  <2> QED BY <1>2, <2>1, GotoWent, ReturnWent, PlainPlace
<1> HIDE DEF f, e, v
<1>7. /\ \A g \in Functions : g # f => autoscaler'[g] = autoscaler[g]
      /\ autoscaler'[f].entry = autoscaler[f].entry
      /\ autoscaler[f].entry # e => autoscaler'[f] = autoscaler[f]
  BY <1>2, <1>3, SettleChanges DEF Changes
<1>8. autoscaler'[f].state = "ScaledDown" => autoscaler[f].state = "ScaledDown" \/ ~active
  <2>1. CASE autoscaler[f].entry = e
    <3>1. autoscaler[f] \in [state : AS!ScalingState, inFlight : Nat, entry : Handlers]
      BY <1>2, <2>1, EntryTyped, Distinct
    <3>2. autoscaler' = [autoscaler EXCEPT ![f].state =
                            IF active THEN "Active" ELSE "ScaledDown"]
      BY <1>3, <2>1 DEF AS!Settle
    <3>3. active => autoscaler'[f].state = "Active"
      BY <1>2, <3>1, <3>2 DEF TypeOK, AS!TypeOK
    <3> QED BY <3>3
  <2>2. CASE autoscaler[f].entry # e
    BY <1>7, <2>2
  <2> QED BY <2>1, <2>2
<1>9. \A g \in Functions : autoscaler'[g].state = "ScaledDown" => RouteEmpty(g)
  BY <1>5, <1>7, <1>8 DEF RInv, Names, AS!InState
<1>10. \A g \in Functions : autoscaler'[g].entry = autoscaler[g].entry
  BY <1>7
<1> QED BY <1>1, <1>2, <1>6, <1>9, <1>10, NamesKeep DEF RInv, Names

LEMMA DeployLookupRoutes ==
  ASSUME TypeOK, IInv, RInv, ~Redeploy, NEW t \in Deployers, NEW f \in Functions,
         DeployLookup(t, f)
  PROVE  RInv'
<1> DEFINE v == [Reset EXCEPT !.fn = f, !.old = functionHandlers[f]]
<1>1. /\ \A h \in Handlers : deployed[h] # f
      /\ Goto(t, "create", v)
      /\ UNCHANGED <<functionHandlers, tables, autoscaler, deployed>>
  BY DEF DeployLookup, runtime
<1>2. v.fn = f /\ v.old = functionHandlers[f]
  BY DEF Reset
<1>3. functionHandlers[f] = None /\ ~RT!HasRoute(f)
  BY <1>1 DEF RInv, Names, TypeOK
<1> HIDE DEF v
<1>4. Place(t, "create", v)
  BY <1>1, <1>2, <1>3 DEF Place, Routeless, RouteEmpty, ScaleLabels, DownLabels
<1> QED BY <1>1, <1>4, Distinct, GotoWent, LocalKeeps

\* The only deployment of a name has created no handler for it yet.
LEMMA DeployCreateRoutes ==
  ASSUME TypeOK, IInv, RInv, Alone, NEW t \in Deployers, DeployCreate(t)
  PROVE  RInv'
<1> DEFINE f == local[t].fn
<1>1. PICK h \in Handlers :
        /\ deployed[h] = None
        /\ deployed' = [deployed EXCEPT ![h] = f]
        /\ Goto(t, IF local[t].old # None /\ AutoscalerEnabled THEN "drain" ELSE "start",
                [local[t] EXCEPT !.new = h])
  BY DEF DeployCreate
<1> DEFINE v == [local[t] EXCEPT !.new = h]
<1>2. v.fn = f /\ v.old = local[t].old /\ v.new = h
  BY LocalTyped, Distinct DEF LocalType
<1>3. /\ At(t, "create") /\ t \in Threads
      /\ UNCHANGED <<functionHandlers, routingTable, reverseRoutingTable, autoscaler>>
  BY Distinct DEF DeployCreate, tables
<1>4. /\ f \in Functions /\ local[t].old = None /\ RouteEmpty(f)
      /\ \A g \in Handlers : deployed[g] # f
  BY <1>3, Distinct DEF At, IInv, Operands, Operand, RInv, Places, Place, Routeless
<1>5. deployed'[h] = f /\ \A g \in Handlers : g # h => deployed'[g] = deployed[g]
  BY <1>1 DEF TypeOK
<1> HIDE DEF v
<1>6. Went(t, "start", v)
  BY <1>1, <1>3, <1>4, GotoWent DEF v
<1>7. \A u \in Deployers : u # t /\ pc[u] # "idle" => local[u].fn # f
  BY <1>3 DEF Alone, At
<1> HIDE DEF f
<1>8. \A g : RouteEmpty(g)' <=> RouteEmpty(g)
  BY <1>3 DEF RouteEmpty, RT!HasRoute
<1>9. \A g \in Handlers, k \in Functions : deployed[g] = k => deployed'[g] = k
  BY <1>1, <1>5, Distinct
<1>10. ASSUME NEW u \in Threads
       PROVE  Place(u, pc[u], local[u])'
  <2>1. CASE u = t
    BY <1>2, <1>3, <1>4, <1>5, <1>6, <1>8, <2>1 DEF Place, Went, Routeless, ScaleLabels,
       DownLabels
  <2>2. CASE u # t
    <3>1. pc'[u] = pc[u] /\ local'[u] = local[u] /\ Place(u, pc[u], local[u])
      BY <1>6, <2>2 DEF Went, RInv, Places
    <3>2. pc[u] \in ScaleLabels => deployed'[local[u].entry] = local[u].fn
      BY <1>9, <3>1 DEF Place, IInv, Operands, Operand
    <3>3. u \in Deployers /\ pc[u] = "create" => \A g \in Handlers : deployed'[g] # local[u].fn
      BY <1>5, <1>7, <2>2, <3>1 DEF Place
    <3>4. u \in Deployers /\ pc[u] \notin {"idle", "create"}
            => deployed'[local[u].new] = local[u].fn
      BY <1>9, <3>1 DEF Place, IInv, Operands, Operand
    <3> QED BY <1>8, <3>1, <3>2, <3>3, <3>4 DEF Place
  <2> QED BY <2>1, <2>2
<1>11. Once'
  BY <1>4, <1>5 DEF RInv, Once
<1>12. Names'
  <2>1. \A k \in Functions :
          /\ functionHandlers[k] \in Handlers \cup {None}
          /\ autoscaler[k].entry \in Handlers \cup {None}
    BY EntryTyped DEF TypeOK
  <2> QED BY <1>3, <1>8, <1>9, <2>1 DEF RInv, Names, AS!InState, RT!HasRoute
<1>13. ReverseOwned'
  BY <1>3 DEF RInv, ReverseOwned, RT!HasRoute
<1> QED BY <1>10, <1>11, <1>12, <1>13 DEF RInv, Places

LEMMA DeployStartRoutes ==
  ASSUME TypeOK, IInv, RInv, NEW t \in Deployers, DeployStart(t)
  PROVE  RInv'
<1>1. At(t, "start") /\ UNCHANGED <<functionHandlers, tables, autoscaler>> /\ t \in Threads
  BY Distinct DEF DeployStart
<1>2. UNCHANGED deployed /\ (Went(t, "add", local[t]) \/ Went(t, "abort", local[t]))
  BY <1>1, PerformsWent DEF DeployStart, StartHandler
<1>3. Place(t, "start", local[t])
  BY <1>1 DEF RInv, Places, At
<1>4. Place(t, "add", local[t]) /\ Place(t, "abort", local[t])
  BY <1>3 DEF Place, Routeless, ScaleLabels, DownLabels
<1> QED BY <1>1, <1>2, <1>4, LocalKeeps

LEMMA DeployAddRoutes ==
  ASSUME TypeOK, IInv, RInv, Alone, NEW t \in Deployers, DeployAdd(t)
  PROVE  RInv'
<1> DEFINE f == local[t].fn
           ips == handler[local[t].new].ips
<1>1. /\ At(t, "add") /\ UNCHANGED <<functionHandlers, autoscaler, deployed>>
      /\ RT!Add(f, ips) /\ t \in Threads
      /\ Continue(t, IF RT!AddAccepts(ips) THEN "commit" ELSE "abort")
  BY Distinct DEF DeployAdd, runtime
<1>2. f \in Functions /\ (\E h \in Handlers : deployed[h] = f) /\ Unobserved(t, f)
  BY <1>1, SoleDeployer DEF At
<1>3. Place(t, "add", local[t]) /\ local[t].new \in Handlers
  BY <1>1, Distinct DEF RInv, Places, At, IInv, Operands, Operand
<1>4. ReverseOwned /\ ips \in SUBSET IPs /\ RouteEmpty(f)
  BY <1>3 DEF RInv, TypeOK, HandlerState, Place, Routeless
<1> HIDE DEF ips
<1>5. Went(t, "commit", local[t]) \/ Went(t, "abort", local[t])
  BY <1>1, GotoWent DEF Continue
<1> HIDE DEF f
<1>6. Rerouted(t, f)
  BY <1>1, <1>2, <1>4, AddOwned DEF Rerouted
<1>7. ~Routeless("commit", local[t].ok) /\ ~Routeless("abort", local[t].ok)
  BY DEF Routeless
<1>8. local[t].old = None /\ deployed[local[t].new] = local[t].fn
  BY <1>3 DEF Place
<1>9. "commit" \notin ScaleLabels /\ "abort" \notin ScaleLabels
  BY DEF ScaleLabels
<1> QED BY <1>1, <1>2, <1>5, <1>6, <1>7, <1>8, <1>9, ReroutingKeeps

LEMMA DeployCommitRoutes ==
  ASSUME TypeOK, IInv, RInv, NEW t \in Deployers, DeployCommit(t)
  PROVE  RInv'
<1>1. /\ At(t, "commit") /\ UNCHANGED <<tables, autoscaler, deployed>> /\ t \in Threads
      /\ functionHandlers' = [functionHandlers EXCEPT ![local[t].fn] = local[t].new]
  BY Distinct DEF DeployCommit, runtime
<1>2. Went(t, "register", local[t])
  BY <1>1, GotoWent DEF DeployCommit, Continue
<1>3. Place(t, "commit", local[t]) /\ local[t].fn \in Functions
  BY <1>1, Distinct DEF RInv, Places, At, IInv, Operands, Operand
<1>4. Place(t, "register", local[t]) /\ deployed[local[t].new] = local[t].fn
  BY <1>3 DEF Place, Routeless, ScaleLabels, DownLabels
<1>5. \A f \in Functions : functionHandlers'[f] # None => deployed[functionHandlers'[f]] = f
  BY <1>1, <1>3, <1>4 DEF RInv, Names, TypeOK
<1> QED BY <1>1, <1>2, <1>4, <1>5, NamesKeep DEF RInv, Names, AS!InState

LEMMA DeployRegisterRoutes ==
  ASSUME TypeOK, IInv, RInv, NEW t \in Deployers, DeployRegister(t)
  PROVE  RInv'
<1> DEFINE f == local[t].fn
           n == local[t].new
<1>1. /\ At(t, "register") /\ UNCHANGED <<functionHandlers, tables, deployed>>
      /\ t \in Threads
      /\ AS!RegisterFunction(f, n) \/ UNCHANGED autoscaler
      /\ IF local[t].old = None THEN Return(t) ELSE Continue(t, "destroyOld")
  BY Distinct DEF DeployRegister, runtime
<1>2. /\ f \in Functions /\ n \in Handlers /\ deployed[n] = f /\ local[t].old = None
  BY <1>1, Distinct DEF RInv, Places, Place, At, IInv, Operands, Operand
<1>3. Went(t, "idle", Reset) /\ Place(t, "idle", Reset)
  BY <1>1, <1>2, ReturnWent, IdlePlace
<1> HIDE DEF f, n
<1>4. \/ UNCHANGED autoscaler
      \/ /\ \A g \in Functions : g # f => autoscaler'[g] = autoscaler[g]
         /\ autoscaler'[f].state = "Active" /\ autoscaler'[f].entry = n
  BY <1>1, <1>2, RegisterChanges DEF Changes
<1> QED BY <1>1, <1>2, <1>3, <1>4, NamesKeep DEF RInv, Names, AS!InState

LEMMA DeployAbortRoutes ==
  ASSUME TypeOK, IInv, RInv, NEW t \in Deployers, DeployAbort(t)
  PROVE  RInv'
<1>1. UNCHANGED <<functionHandlers, tables, autoscaler>> /\ t \in Threads
  BY Distinct DEF DeployAbort
<1>2. UNCHANGED deployed /\ Went(t, "idle", Reset)
  BY <1>1, PerformsWent DEF DeployAbort, DestroyHandler
<1> QED BY <1>1, <1>2, IdlePlace, LocalKeeps

\* Where only a replacement goes.
LEMMA NoReplacement ==
  ASSUME RInv, NEW t \in Deployers
  PROVE  ~(DeployDrain(t) \/ DeployDrained(t) \/ DeployDestroyOld(t))
  BY Distinct DEF RInv, Places, Place, At, DeployDrain, DeployDrained, DeployDestroyOld

LEMMA NextDeletePlace ==
  ASSUME TypeOK, NEW t \in Deleters, NEW f \in Functions, NextDelete(t, f)
  PROVE  \E label, v : Went(t, label, v) /\ Place(t, label, v)
<1>1. pc'[t] \in {"idle", "deleteLock"} /\ Went(t, pc'[t], local'[t])
  BY NextDeleteWent, Distinct DEF Went
<1> QED BY <1>1, PlainPlace

LEMMA DeleteStepRoutes ==
  ASSUME TypeOK, IInv, RInv, NEW t \in Deleters, DeleteRequest(t) \/ DeleteStep(t)
  PROVE  RInv'
<1>1. t \in Threads /\ t \notin Deployers
  BY Distinct
<1>2. CASE DeleteRequest(t)
  <2>1. PICK names : Goto(t, "deleteLock", [Reset EXCEPT !.todo = names])
    BY <1>2 DEF DeleteRequest
  <2> DEFINE v == [Reset EXCEPT !.todo = names]
  <2>2. UNCHANGED <<functionHandlers, tables, autoscaler, deployed>>
    BY <1>2 DEF DeleteRequest, runtime
  <2> HIDE DEF v
  <2>3. Went(t, "deleteLock", v)
    BY <1>1, <2>1, GotoWent DEF v
  <2> QED BY <1>1, <2>2, <2>3, PlainPlace, LocalKeeps
<1>3. CASE DeleteLock(t)
  <2>1. UNCHANGED <<functionHandlers, tables, autoscaler, deployed>>
    BY <1>3 DEF DeleteLock, runtime
  <2>2. PICK f \in local[t].todo :
          \/ NextDelete(t, f)
          \/ Goto(t, "deleteDestroy", [local[t] EXCEPT !.fn = f, !.h = functionHandlers[f]])
    BY <1>3 DEF DeleteLock
  <2>3. f \in Functions
    BY <1>1, LocalTyped DEF LocalType
  <2> DEFINE v == [local[t] EXCEPT !.fn = f, !.h = functionHandlers[f]]
  <2>4. NextDelete(t, f) \/ Goto(t, "deleteDestroy", v)
    BY <2>2
  <2> HIDE DEF v
  <2>5. \E label, w : Went(t, label, w) /\ Place(t, label, w)
    BY <1>1, <2>3, <2>4, GotoWent, PlainPlace, NextDeletePlace DEF MuxLabels
  <2> QED BY <1>1, <2>1, <2>5, LocalKeeps
<1>4. CASE DeleteDestroy(t)
  <2>1. UNCHANGED <<functionHandlers, tables, autoscaler>>
    BY <1>4 DEF DeleteDestroy
  <2>2. /\ UNCHANGED deployed
        /\ Went(t, "deleteRoute", local[t]) \/ Went(t, "deleteFailed", local[t])
    BY <1>1, <1>4, PerformsWent DEF DeleteDestroy, DestroyHandler
  <2> QED BY <1>1, <2>1, <2>2, PlainPlace, LocalKeeps DEF MuxLabels
<1>5. CASE DeleteFailed(t)
  <2>1. UNCHANGED <<functionHandlers, tables, autoscaler, deployed>>
    BY <1>5 DEF DeleteFailed, runtime
  <2>2. NextDelete(t, local[t].fn) /\ local[t].fn \in Functions
    BY <1>1, <1>5 DEF DeleteFailed, At, IInv, Operands, Operand, MuxLabels
  <2> QED BY <1>1, <2>1, <2>2, NextDeletePlace, LocalKeeps
<1>6. CASE DeleteRoute(t)
  <2> DEFINE f == local[t].fn
  <2>1. /\ UNCHANGED <<functionHandlers, autoscaler, deployed>>
        /\ RT!Del(f) /\ f \in Functions
    BY <1>1, <1>6 DEF DeleteRoute, runtime, At, IInv, Operands, Operand, MuxLabels
  <2>2. Went(t, "deleteFinish", local[t])
    BY <1>1, <1>6, GotoWent DEF DeleteRoute, Continue
  <2>3. "deleteFinish" \notin ScaleLabels /\ ~Routeless("deleteFinish", local[t].ok)
    BY DEF ScaleLabels, Routeless
  <2>4. ReverseOwned
    BY DEF RInv
  <2> HIDE DEF f
  <2>5. Rerouted(t, f) /\ Emptied(f)
    BY <2>1, <2>4, DelOwned DEF Rerouted
  <2> QED BY <1>1, <2>1, <2>2, <2>3, <2>5, ReroutingKeeps
<1>7. CASE DeleteFinish(t)
  <2> DEFINE f == local[t].fn
  <2>1. /\ UNCHANGED <<tables, deployed>> /\ AS!UnregisterFunction(f) /\ NextDelete(t, f)
        /\ functionHandlers' = [functionHandlers EXCEPT ![f] = None]
        /\ f \in Functions
    BY <1>1, <1>7 DEF DeleteFinish, runtime, At, IInv, Operands, Operand, MuxLabels
  <2> HIDE DEF f
  <2>2. /\ autoscaler'[f].state # "ScaledDown" /\ autoscaler'[f].entry = None
        /\ \A g \in Functions : g # f => autoscaler'[g] = autoscaler[g]
    BY <2>1, UnregisterChanges DEF Changes
  <2>3. \A g \in Functions :
          functionHandlers'[g] = IF g = f THEN None ELSE functionHandlers[g]
    BY <2>1 DEF TypeOK
  <2>4. PICK label, v : Went(t, label, v) /\ Place(t, label, v)
    BY <2>1, NextDeletePlace
  <2> QED BY <1>1, <2>1, <2>2, <2>3, <2>4, NamesKeep DEF RInv, Names, AS!InState
<1> QED BY <1>2, <1>3, <1>4, <1>5, <1>6, <1>7 DEF DeleteStep

LEMMA CallStepRoutes ==
  ASSUME TypeOK, IInv, RInv, NEW t \in Callers, CallStep(t) \/ CallFinish(t)
  PROVE  RInv'
<1>1. t \in Threads /\ t \notin Deployers
  BY Distinct
<1>2. CASE CallColdStart(t)
  <2>1. local[t].fn \in Functions
    BY <1>2, Distinct DEF CallColdStart, At, IInv, Operands, Operand
  <2> QED BY <1>1, <1>2, <2>1, ScaleUpRoutes DEF CallColdStart
<1>3. CASE CallColdStarted(t) \/ CallWaitRoute(t) \/ CallRefused(t)
  <2> DEFINE v == [local[t] EXCEPT !.ips = routingTable[local[t].fn].ips]
  <2>1. Goto(t, "waitRoute", local[t]) \/ Goto(t, "begin", v) \/ Return(t)
    BY <1>3 DEF CallColdStarted, CallWaitRoute, CallRefused, Continue
  <2>2. UNCHANGED <<functionHandlers, tables, autoscaler, deployed>>
    BY <1>3 DEF CallColdStarted, CallWaitRoute, CallRefused, runtime
  <2> HIDE DEF v
  <2>3. \E label, w : Went(t, label, w) /\ Place(t, label, w)
    BY <1>1, <2>1, GotoWent, ReturnWent, PlainPlace
  <2> QED BY <1>1, <2>2, <2>3, LocalKeeps
<1>4. CASE CallBegin(t) \/ CallFinish(t)
  <2> DEFINE f == local[t].fn
             v(ip) == [local[t] EXCEPT !.ip = ip, !.ips = {}]
  <2>1. /\ UNCHANGED <<functionHandlers, tables, deployed>>
        /\ UNCHANGED autoscaler \/ AS!StartInvocation(f) \/ AS!EndInvocation(f)
        /\ f \in Functions
    BY <1>1, <1>4, Distinct DEF CallBegin, CallFinish, runtime, At, IInv, Operands, Operand
  <2>2. Return(t) \/ \E ip : Goto(t, "http", v(ip))
    BY <1>4 DEF CallBegin, CallFinish
  <2> HIDE DEF f, v
  <2>3. \A g \in Functions : /\ autoscaler'[g].state = autoscaler[g].state
                             /\ autoscaler'[g].entry = autoscaler[g].entry
    BY <2>1, StartChanges, EndChanges DEF Changes
  <2>4. \E label, w : Went(t, label, w) /\ Place(t, label, w)
    BY <1>1, <2>2, GotoWent, ReturnWent, PlainPlace
  <2> QED BY <1>1, <2>1, <2>3, <2>4, NamesKeep DEF RInv, Names, AS!InState
<1> QED BY <1>2, <1>3, <1>4 DEF CallStep

LEMMA RequestRoutes ==
  ASSUME TypeOK, IInv, RInv, ~Redeploy, Request
  PROVE  RInv'
<1>1. ASSUME NEW f \in Functions, NEW t \in Deployers, DeployLookup(t, f)
      PROVE  RInv'
  BY <1>1, DeployLookupRoutes
<1>2. ASSUME NEW f \in Functions, NEW t \in Callers, CallSnapshot(t, f)
      PROVE  RInv'
  <2> DEFINE v == [Reset EXCEPT !.fn = f, !.ips = routingTable[f].ips]
  <2>1. /\ Goto(t, "begin", v) \/ Goto(t, "coldStart", v)
        /\ UNCHANGED <<functionHandlers, tables, autoscaler, deployed>> /\ t \in Threads
    BY <1>2, Distinct DEF CallSnapshot, runtime
  <2> HIDE DEF v
  <2> QED BY <2>1, GotoWent, PlainPlace, LocalKeeps
<1>3. ASSUME NEW f \in Functions, NEW t \in Scalers, IdleScaleDown(t, f) \/ Prewarm(t, f)
      PROVE  RInv'
  <2>1. t \in Threads /\ t \notin Deployers
    BY Distinct
  <2> QED BY <1>3, <2>1, ScaleDownRoutes, ScaleUpRoutes DEF IdleScaleDown, Prewarm
<1> QED BY <1>1, <1>2, <1>3 DEF Request

LEMMA StepRoutes ==
  ASSUME TypeOK, IInv, RInv, Alone, ~Redeploy, [Next]_vars
  PROVE  RInv'
<1>1. CASE UNCHANGED vars
  BY <1>1 DEF vars, tables, runtime, RInv, Places, Place, Once, Names, ReverseOwned,
     RouteEmpty, RT!HasRoute, AS!InState
<1>2. ASSUME NEW t \in Deployers, DeployStep(t)
      PROVE  RInv'
  BY <1>2, NoReplacement, DeployCreateRoutes, DeployStartRoutes, DeployAddRoutes,
     DeployCommitRoutes, DeployRegisterRoutes, DeployAbortRoutes DEF DeployStep
<1>3. ASSUME NEW t \in Deployers \cup Callers \cup Scalers, ScaleStep(t)
      PROVE  RInv'
  BY <1>3, DownLookupRoutes, DownIPsRoutes, DownUpdateRoutes, DownStopRoutes,
     DownRestoreRoutes, UpLookupRoutes, UpRestartRoutes, UpIPsRoutes, UpAddRoutes,
     ScaleDoneRoutes DEF ScaleStep
<1> QED BY <1>1, <1>2, <1>3, RequestRoutes, DeleteStepRoutes, CallStepRoutes DEF Next

LEMMA InitRoutes == Init => RInv
<1> SUFFICES ASSUME Init PROVE RInv
  OBVIOUS
<1>1. Places
  BY Distinct DEF Init, Places, Place, Routeless, ScaleLabels, DownLabels, Reset
<1>2. \A f \in Functions : autoscaler[f] = AS!Unregistered /\ ~RT!HasRoute(f)
  BY DEF Init, AS!Init, RT!Init, RT!HasRoute
<1>3. Once /\ Names
  BY <1>2 DEF Init, Once, Names, AS!Unregistered, AS!InState, RouteEmpty
<1>4. ReverseOwned
  BY Distinct DEF Init, RT!Init, ReverseOwned
<1> QED BY <1>1, <1>3, <1>4 DEF RInv

\* An address is attributed to no function but the one routed to it, for any
\* failing operations, as long as every function is deployed once: containers
\* that were stopped, and a route given up, leave nothing behind in the reverse
\* table that an internal call could be booked to.
THEOREM ReverseAlwaysOwned ==
  ASSUME ~Redeploy
  PROVE  Spec /\ []Alone => []ReverseOwned
<1> DEFINE Inv == TypeOK /\ IInv /\ RInv
<1>1. Init => Inv
  BY InitInv, InitRoutes
<1>2. Inv /\ Alone /\ [Next]_vars => Inv'
  BY StepInv, StepRoutes
<1>3. Inv => ReverseOwned
  BY DEF RInv
<1> QED BY <1>1, <1>2, <1>3, PTL DEF Spec

-----------------------------------------------------------------------------
(* Requests in flight of functions that are deployed once: whoever scales a *)
(* function, or deploys it, does so while nobody serves it.                 *)

\* An entry of the autoscaler when n requests are being served.
Tally(entry, n) ==
  entry.entry # None =>
    /\ AutoscalerEnabled
    /\ entry.inFlight = n
    /\ entry.state # "Active" => n = 0

Exact == \A f \in Functions : Tally(autoscaler[f], Cardinality(Serving(f)))

Unserved ==
  /\ \A t \in Threads : pc[t] \in ScaleLabels =>
       AutoscalerEnabled /\ Serving(local[t].fn) = {}
  /\ AutoscalerEnabled =>
       \A d \in Deployers : pc[d] # "idle" => Serving(local[d].fn) = {}
  /\ \A c \in Callers : pc[c] # "idle" =>
       \E h \in Handlers : deployed[h] = local[c].fn

SInv == Exact /\ Unserved

\* A step that begins and ends no request.
LEMMA UnservedKeep ==
  ASSUME TypeOK, IInv, SInv, NEW t \in Threads, NEW label, NEW v, Went(t, label, v),
         label # "http", pc[t] # "http",
         \A f \in Functions : Tally(autoscaler'[f], Cardinality(Serving(f))),
         \A h \in Handlers, f \in Functions : deployed[h] = f => deployed'[h] = f,
         label \in ScaleLabels => AutoscalerEnabled /\ Serving(v.fn) = {},
         t \in Deployers /\ label # "idle" /\ AutoscalerEnabled => Serving(v.fn) = {},
         t \in Callers /\ label # "idle" =>
           v.fn \in Functions /\ \E h \in Handlers : deployed[h] = v.fn
  PROVE  SInv'
<1>1. \A f : Serving(f)' = Serving(f)
  BY Distinct DEF Serving, Went, At
<1>2. Exact'
  BY <1>1 DEF Exact
<1>3. \A u \in Threads : pc'[u] \in ScaleLabels =>
        AutoscalerEnabled /\ Serving(local'[u].fn) = {}
  BY DEF SInv, Unserved, Went
<1>4. AutoscalerEnabled =>
        \A d \in Deployers : pc'[d] # "idle" => Serving(local'[d].fn) = {}
  BY Distinct DEF SInv, Unserved, Went
<1>5. \A u \in Threads : Serving(local[u].fn)' = Serving(local'[u].fn)
  BY Distinct DEF Serving, Went, At
<1>6. \A c \in Callers : pc'[c] # "idle" =>
        \E h \in Handlers : deployed'[h] = local'[c].fn
  BY Distinct DEF SInv, Unserved, Went, IInv, Operands, Operand
<1>7. Unserved'
  BY <1>3, <1>4, <1>5, <1>6, Distinct DEF Unserved
<1> QED BY <1>2, <1>7 DEF SInv

\* A step that goes on with the same function, or with none.
LEMMA LocalUnserved ==
  ASSUME TypeOK, IInv, SInv, NEW t \in Threads, NEW label, NEW v, Went(t, label, v),
         label # "http", pc[t] # "http", UNCHANGED <<autoscaler, deployed>>,
         label \in ScaleLabels => pc[t] \in ScaleLabels /\ v.fn = local[t].fn,
         t \in (Deployers \cup Callers) /\ label # "idle" =>
           pc[t] # "idle" /\ v.fn = local[t].fn
  PROVE  SInv'
<1>1. \A f \in Functions : Tally(autoscaler'[f], Cardinality(Serving(f)))
  BY DEF SInv, Exact
<1> QED BY <1>1, UnservedKeep, Distinct DEF SInv, Unserved, IInv, Operands, Operand

\* Inside a scaling operation.
LEMMA ScaleStepWent ==
  ASSUME TypeOK, IInv, NEW t \in Threads, ScaleStep(t), ~ScaleDone(t)
  PROVE  /\ UNCHANGED <<autoscaler, deployed>> /\ pc[t] \in ScaleLabels
         /\ \E label \in ScaleLabels : \E v : Went(t, label, v) /\ v.fn = local[t].fn
<1> DEFINE Goes == \E label \in ScaleLabels : \E v : Went(t, label, v) /\ v.fn = local[t].fn
<1>1. pc[t] \in ScaleLabels
  BY DEF ScaleStep, ScaleDone, DownLookup, DownIPs, DownUpdate, DownStop, DownRestore,
     UpLookup, UpRestart, UpIPs, UpAdd, At, ScaleLabels
<1>2. ASSUME NEW label \in ScaleLabels, NEW v, Goto(t, label, v), v.fn = local[t].fn
      PROVE  Goes
  BY <1>2, GotoWent
<1>3. CASE DownLookup(t) \/ UpLookup(t)
  <2> DEFINE v == [local[t] EXCEPT !.h = functionHandlers[local[t].fn],
                                 !.ok = functionHandlers[local[t].fn] # None]
  <2>1. v.fn = local[t].fn
    BY LocalTyped DEF LocalType
  <2>2. /\ UNCHANGED <<autoscaler, deployed>>
        /\ \E label \in {"downIPs", "downDone", "upRestart", "upDone"} : Goto(t, label, v)
    BY <1>3 DEF DownLookup, UpLookup, Lookup, runtime
  <2> HIDE DEF v
  <2> QED BY <1>1, <1>2, <2>1, <2>2 DEF ScaleLabels
<1>4. CASE DownIPs(t) \/ UpIPs(t)
  <2> DEFINE v == [local[t] EXCEPT !.ips = handler[local[t].h].ips]
  <2>1. v.fn = local[t].fn
    BY LocalTyped DEF LocalType
  <2>2. /\ UNCHANGED <<autoscaler, deployed>>
        /\ \E label \in {"downUpdate", "upAdd"} : Goto(t, label, v)
    BY <1>4 DEF DownIPs, UpIPs, runtime
  <2> HIDE DEF v
  <2> QED BY <1>1, <1>2, <2>1, <2>2 DEF ScaleLabels
<1>5. CASE DownUpdate(t) \/ DownRestore(t)
  <2>1. /\ UNCHANGED <<autoscaler, deployed>>
        /\ \E label \in {"downStop", "downDone"} : Goto(t, label, local[t])
    BY <1>5 DEF DownUpdate, DownRestore, Continue, runtime
  <2> QED BY <1>1, <1>2, <2>1 DEF ScaleLabels
<1>6. CASE DownStop(t) \/ UpRestart(t)
  <2> DEFINE v == [local[t] EXCEPT !.ok = FALSE]
  <2>1. v.fn = local[t].fn
    BY LocalTyped DEF LocalType
  <2>2. /\ UNCHANGED <<autoscaler, deployed>>
        /\ \/ \E label \in {"downDone", "upIPs"} : Went(t, label, local[t])
           \/ \E label \in {"downRestore", "upDone"} : Went(t, label, v)
    BY <1>6, PerformsWent DEF DownStop, UpRestart, StopHandler, StartHandler
  <2> HIDE DEF v
  <2> QED BY <1>1, <2>1, <2>2 DEF ScaleLabels
<1>7. CASE UpAdd(t)
  <2> DEFINE v == [local[t] EXCEPT !.ok = RT!AddAccepts(local[t].ips), !.ips = {}]
  <2>1. v.fn = local[t].fn
    BY LocalTyped DEF LocalType
  <2>2. UNCHANGED <<autoscaler, deployed>> /\ Goto(t, "upDone", v)
    BY <1>7 DEF UpAdd, runtime
  <2> HIDE DEF v
  <2> QED BY <1>1, <1>2, <2>1, <2>2 DEF ScaleLabels
<1> QED BY <1>3, <1>4, <1>5, <1>6, <1>7 DEF ScaleStep

LEMMA ScaleStepUnserved ==
  ASSUME TypeOK, IInv, RInv, SInv, NEW t \in Deployers \cup Callers \cup Scalers,
         ScaleStep(t)
  PROVE  SInv'
<1>1. t \in Threads
  BY Distinct
<1>2. CASE ~ScaleDone(t)
  <2>1. /\ UNCHANGED <<autoscaler, deployed>> /\ pc[t] \in ScaleLabels
        /\ \E label \in ScaleLabels : \E v : Went(t, label, v) /\ v.fn = local[t].fn
    BY <1>1, <1>2, ScaleStepWent
  <2> QED BY <1>1, <2>1, LocalUnserved DEF ScaleLabels
<1>3. CASE ScaleDone(t)
  <2> DEFINE f == local[t].fn
             e == local[t].entry
             v == [local[t] EXCEPT !.h = None, !.ips = {}, !.entry = None, !.ok = TRUE]
  <2>1. /\ pc[t] \in ScaleLabels /\ (\E active \in BOOLEAN : AS!Settle(f, e, active))
        /\ Resume(t) /\ UNCHANGED deployed
    BY <1>1, <1>3, LocalTyped DEF ScaleDone, At, runtime, ScaleLabels, LocalType
  <2>2. /\ t \notin Deployers /\ f \in Functions /\ e \in Handlers
    BY <1>1, <2>1, SoleScaler DEF IInv, Operands, Operand
  <2>3. v.fn = local[t].fn
    BY <1>1, LocalTyped DEF LocalType
  <2>4. Serving(f) = {}
    BY <1>1, <2>1 DEF SInv, Unserved
  <2>5. Went(t, "idle", Reset) \/ (t \in Callers /\ Went(t, "waitRoute", v))
    <3>1. Return(t) \/ (t \in Callers /\ Goto(t, "waitRoute", v))
      BY <2>1, <2>2 DEF Resume
    <3> HIDE DEF v
    <3> QED BY <1>1, <3>1, GotoWent, ReturnWent
  <2> HIDE DEF f, e, v
  <2>6. /\ \A g \in Functions : g # f => autoscaler'[g] = autoscaler[g]
        /\ autoscaler'[f].entry = autoscaler[f].entry
        /\ autoscaler'[f].inFlight = autoscaler[f].inFlight
    BY <2>1, <2>2, SettleChanges DEF Changes
  <2>7. \A g \in Functions : Tally(autoscaler'[g], Cardinality(Serving(g)))
    <3>1. Cardinality(Serving(f)) = 0
      BY <2>4, FS_EmptySet
    <3> QED BY <2>6, <3>1 DEF SInv, Exact, Tally
  <2>8. \E h \in Handlers : deployed[h] = f
    BY <1>1, <2>1, SoleScaler DEF f
  <2> QED BY <1>1, <2>1, <2>2, <2>3, <2>5, <2>7, <2>8, UnservedKeep, Distinct
       DEF f, ScaleLabels
<1> QED BY <1>2, <1>3

\* Only an idle or stopped function is claimed.
LEMMA ClaimUnserved ==
  ASSUME TypeOK, IInv, RInv, SInv, NEW t \in Callers \cup Scalers, NEW f \in Functions,
         pc[t] \in {"idle", "coldStart"}, BeginScaleDown(t, f) \/ BeginScaleUp(t, f),
         UNCHANGED deployed
  PROVE  SInv'
<1> DEFINE v == [local[t] EXCEPT !.fn = f, !.entry = autoscaler[f].entry]
<1>1. t \in Threads /\ t \notin Deployers
  BY Distinct
<1>2. v.fn = f
  BY <1>1, LocalTyped DEF LocalType
<1>3. \E label \in {"downLookup", "upLookup"} : Goto(t, label, v)
  BY DEF BeginScaleDown, BeginScaleUp, Claimed
<1>4. /\ autoscaler[f].entry \in Handlers /\ autoscaler'[f].entry = autoscaler[f].entry
      /\ autoscaler'[f].inFlight = autoscaler[f].inFlight
      /\ \A g \in Functions : g # f => autoscaler'[g] = autoscaler[g]
      /\ autoscaler[f].inFlight = 0 \/ autoscaler[f].state # "Active"
  BY ClaimDownChanges, ClaimUpChanges DEF BeginScaleDown, BeginScaleUp, Changes
<1>5. AutoscalerEnabled /\ Cardinality(Serving(f)) = 0
  BY <1>4, Distinct DEF SInv, Exact, Tally
<1>6. Serving(f) = {}
  BY <1>5, ServingFinite, FS_EmptySet
<1>7. \A g \in Functions : Tally(autoscaler'[g], Cardinality(Serving(g)))
  BY <1>4, <1>5, Distinct DEF SInv, Exact, Tally
<1>8. deployed[autoscaler[f].entry] = f
  BY <1>4, Distinct DEF RInv, Names
<1> HIDE DEF v
<1> QED BY <1>1, <1>2, <1>3, <1>4, <1>5, <1>6, <1>7, <1>8, GotoWent, UnservedKeep

LEMMA DeployStepUnserved ==
  ASSUME TypeOK, IInv, RInv, SInv, NEW t \in Deployers, DeployStep(t)
  PROVE  SInv'
<1>1. t \in Threads /\ t \notin Callers
  BY Distinct
<1>2. ~(DeployDrain(t) \/ DeployDrained(t) \/ DeployDestroyOld(t))
  BY NoReplacement
<1>3. CASE DeployCreate(t)
  <2>1. PICK h \in Handlers :
          /\ deployed[h] = None /\ deployed' = [deployed EXCEPT ![h] = local[t].fn]
          /\ Goto(t, IF local[t].old # None /\ AutoscalerEnabled THEN "drain" ELSE "start",
                  [local[t] EXCEPT !.new = h])
    BY <1>3 DEF DeployCreate
  <2> DEFINE v == [local[t] EXCEPT !.new = h]
  <2>2. At(t, "create") /\ UNCHANGED autoscaler
    BY <1>3 DEF DeployCreate
  <2>3. v.fn = local[t].fn
    BY <1>1, LocalTyped DEF LocalType
  <2> HIDE DEF v
  <2>4. Went(t, "drain", v) \/ Went(t, "start", v)
    BY <1>1, <2>1, GotoWent DEF v
  <2>5. \A g \in Handlers, f \in Functions : deployed[g] = f => deployed'[g] = f
    BY <2>1, Distinct DEF TypeOK
  <2>6. AutoscalerEnabled => Serving(v.fn) = {}
    BY <2>2, <2>3 DEF SInv, Unserved, At
  <2>7. \A f \in Functions : Tally(autoscaler'[f], Cardinality(Serving(f)))
    BY <2>2 DEF SInv, Exact
  <2> QED BY <1>1, <2>2, <2>4, <2>5, <2>6, <2>7, UnservedKeep DEF At, ScaleLabels
<1>4. CASE DeployStart(t) \/ DeployAdd(t) \/ DeployCommit(t)
  <2>1. pc[t] \in {"start", "add", "commit"} /\ UNCHANGED autoscaler
    BY <1>4 DEF DeployStart, DeployAdd, DeployCommit, At
  <2>2. \E label \in {"add", "commit", "register", "abort"} : Went(t, label, local[t])
    <3>1. CASE DeployStart(t)
      BY <1>1, <3>1, PerformsWent DEF DeployStart, StartHandler
    <3>2. CASE DeployAdd(t) \/ DeployCommit(t)
      <4>1. \E label \in {"commit", "register", "abort"} : Goto(t, label, local[t])
        BY <3>2 DEF DeployAdd, DeployCommit, Continue
      <4> QED BY <1>1, <4>1, GotoWent
    <3> QED BY <1>4, <3>1, <3>2
  <2>3. UNCHANGED deployed
    BY <1>1, <1>4, PerformsWent DEF DeployStart, StartHandler, DeployAdd, DeployCommit,
       runtime
  <2> QED BY <1>1, <2>1, <2>2, <2>3, LocalUnserved DEF ScaleLabels
<1>5. CASE DeployRegister(t)
  <2> DEFINE f == local[t].fn
             n == local[t].new
  <2>1. /\ At(t, "register") /\ UNCHANGED deployed
        /\ (AutoscalerEnabled /\ AS!RegisterFunction(f, n)) \/ UNCHANGED autoscaler
        /\ IF local[t].old = None THEN Return(t) ELSE Continue(t, "destroyOld")
    BY <1>5 DEF DeployRegister, runtime
  <2>2. f \in Functions /\ n \in Handlers /\ local[t].old = None
    BY <1>1, <2>1 DEF At, IInv, Operands, Operand, RInv, Places, Place
  <2>3. Went(t, "idle", Reset)
    BY <1>1, <2>1, <2>2, ReturnWent
  <2>4. AutoscalerEnabled => Cardinality(Serving(f)) = 0
    BY <2>1, FS_EmptySet DEF SInv, Unserved, At
  <2> HIDE DEF f, n
  <2>5. \A g \in Functions : Tally(autoscaler'[g], Cardinality(Serving(g)))
    BY <2>1, <2>2, <2>4, RegisterChanges DEF Changes, SInv, Exact, Tally
  <2> QED BY <1>1, <2>1, <2>3, <2>5, UnservedKeep DEF At, ScaleLabels
<1>6. CASE DeployAbort(t)
  <2>1. At(t, "abort") /\ UNCHANGED autoscaler
    BY <1>6 DEF DeployAbort
  <2>2. UNCHANGED deployed /\ Went(t, "idle", Reset)
    BY <1>1, <1>6, PerformsWent DEF DeployAbort, DestroyHandler
  <2> QED BY <1>1, <2>1, <2>2, LocalUnserved DEF At, ScaleLabels
<1> QED BY <1>2, <1>3, <1>4, <1>5, <1>6 DEF DeployStep

LEMMA DeleteStepUnserved ==
  ASSUME TypeOK, IInv, SInv, NEW t \in Deleters, DeleteRequest(t) \/ DeleteStep(t)
  PROVE  SInv'
<1>1. t \in Threads /\ t \notin Deployers \cup Callers
  BY Distinct
<1>2. pc[t] # "http" /\ UNCHANGED deployed
  <2>1. pc[t] # "http"
    BY DEF DeleteRequest, DeleteStep, DeleteLock, DeleteDestroy, DeleteFailed,
       DeleteRoute, DeleteFinish, At
  <2>2. CASE DeleteDestroy(t)
    BY <1>1, <2>1, <2>2, PerformsWent DEF DeleteDestroy, DestroyHandler
  <2>3. CASE ~DeleteDestroy(t)
    BY <2>1, <2>3 DEF DeleteRequest, DeleteStep, DeleteLock, DeleteFailed, DeleteRoute,
       DeleteFinish, runtime
  <2> QED BY <2>1, <2>2, <2>3
<1>3. \E label \in MuxLabels \cup {"idle", "deleteLock"} : \E v : Went(t, label, v)
  <2>1. CASE DeleteRequest(t)
    <3>1. \E v : Goto(t, "deleteLock", v)
      BY <2>1 DEF DeleteRequest
    <3> QED BY <1>1, <3>1, GotoWent
  <2>2. CASE DeleteLock(t)
    <3>1. PICK f \in local[t].todo :
            NextDelete(t, f) \/ \E v : Goto(t, "deleteDestroy", v)
      BY <2>2 DEF DeleteLock
    <3>2. f \in Functions
      BY <1>1, LocalTyped DEF LocalType
    <3> QED BY <1>1, <3>1, <3>2, GotoWent, NextDeleteWent DEF Went, MuxLabels
  <2>3. CASE DeleteDestroy(t)
    BY <1>1, <2>3, PerformsWent DEF DeleteDestroy, DestroyHandler, MuxLabels
  <2>4. CASE DeleteRoute(t)
    BY <1>1, <2>4, GotoWent DEF DeleteRoute, Continue, MuxLabels
  <2>5. CASE DeleteFailed(t) \/ DeleteFinish(t)
    <3>1. NextDelete(t, local[t].fn) /\ local[t].fn \in Functions
      BY <1>1, <2>5 DEF DeleteFailed, DeleteFinish, At, IInv, Operands, Operand, MuxLabels
    <3> QED BY <1>1, <3>1, NextDeleteWent DEF Went
  <2> QED BY <2>1, <2>2, <2>3, <2>4, <2>5 DEF DeleteStep
<1>4. \A f \in Functions : Tally(autoscaler'[f], Cardinality(Serving(f)))
  <2>1. CASE DeleteFinish(t)
    <3>1. AS!UnregisterFunction(local[t].fn) /\ local[t].fn \in Functions
      BY <1>1, <2>1 DEF DeleteFinish, At, IInv, Operands, Operand, MuxLabels
    <3> QED BY <3>1, UnregisterChanges DEF Changes, SInv, Exact, Tally
  <2>2. CASE ~DeleteFinish(t)
    <3>1. UNCHANGED autoscaler
      BY <2>2 DEF DeleteRequest, DeleteStep, DeleteLock, DeleteDestroy, DeleteFailed,
         DeleteRoute
    <3> QED BY <3>1 DEF SInv, Exact
  <2> QED BY <2>1, <2>2
<1> QED BY <1>1, <1>2, <1>3, <1>4, UnservedKeep DEF MuxLabels, ScaleLabels

\* A request begins at a function that nobody scales or deploys.
LEMMA CallBeginUnserved ==
  ASSUME TypeOK, IInv, RInv, SInv, NEW t \in Callers, CallBegin(t)
  PROVE  SInv'
<1>1. PICK f \in Functions : pc[t] = "begin" /\ f = local[t].fn
  BY Distinct DEF CallBegin, At, IInv, Operands, Operand
<1>2. /\ pc[t] = "begin" /\ f = local[t].fn /\ t \in Threads
      /\ UNCHANGED deployed
      /\ IF AutoscalerEnabled THEN AS!StartInvocation(f) ELSE UNCHANGED autoscaler
  BY <1>1, Distinct DEF CallBegin, runtime
<1>3. PICK ip : Goto(t, "http", [local[t] EXCEPT !.ip = ip, !.ips = {}])
  BY DEF CallBegin
<1> DEFINE v == [local[t] EXCEPT !.ip = ip, !.ips = {}]
<1>4. v.fn = f
  BY <1>2, LocalTyped DEF LocalType
<1> HIDE DEF v
<1>5. Went(t, "http", v)
  BY <1>2, <1>3, GotoWent DEF v
<1>6. AutoscalerEnabled => autoscaler[f].state = "Active" /\ autoscaler[f].entry \in Handlers
  BY <1>2, EntryTyped DEF AS!StartInvocation, AS!InState, AS!Unregistered
<1>7. ASSUME NEW u \in Threads, pc[u] \in ScaleLabels
      PROVE  local[u].fn # f /\ AutoscalerEnabled
  <2>1. AutoscalerEnabled
    BY <1>7 DEF SInv, Unserved
  <2>2. ASSUME local[u].fn = f PROVE FALSE
    <3>1. autoscaler[f].entry = local[u].entry
      BY <1>2, <1>6, <1>7, <2>1, <2>2, Distinct
      DEF RInv, Places, Place, Names, Once, IInv, Operands, Operand
    <3>2. AS!Scaling(f)
      BY <1>2, <1>7, <2>2, <3>1 DEF IInv, Claims
    <3> QED BY <1>6, <2>1, <3>2 DEF AS!Scaling, AS!InState
  <2> QED BY <2>1, <2>2
<1>8. ASSUME AutoscalerEnabled, NEW d \in Deployers, pc[d] # "idle"
      PROVE  local[d].fn # f
  <2> SUFFICES ASSUME local[d].fn = f PROVE FALSE
    OBVIOUS
  <2>1. d \in Threads /\ deployed[autoscaler[f].entry] = f
    BY <1>2, <1>6, <1>8, Distinct DEF RInv, Names
  <2>2. Place(d, pc[d], local[d])
    BY <2>1 DEF RInv, Places
  <2>3. pc[d] # "create"
    BY <1>6, <1>8, <2>1, <2>2 DEF Place
  <2>4. Holding(d) /\ local[d].new \in Handlers /\ deployed[local[d].new] = f
    BY <1>8, <2>1, <2>2, <2>3 DEF Place, Holding, Preparing, IInv, Operands, Operand
  <2>5. autoscaler[f].entry = local[d].new
    BY <1>2, <1>6, <1>8, <2>1, <2>4, Distinct DEF RInv, Once
  <2> QED BY <1>2, <2>4, <2>5 DEF IInv, Fresh
<1>9. \E h \in Handlers : deployed[h] = f
  BY <1>2 DEF SInv, Unserved
<1>10. Serving(f)' = Serving(f) \cup {t} /\ t \notin Serving(f)
  BY <1>2, <1>4, <1>5, Distinct DEF Serving, Went, At
<1>11. \A g \in Functions \cup {None} : g # f => Serving(g)' = Serving(g)
  BY <1>2, <1>4, <1>5, Distinct DEF Serving, Went, At
<1>12. Cardinality(Serving(f)') = Cardinality(Serving(f)) + 1
  BY <1>1, <1>10, ServingFinite, FS_AddElement
<1>13. Exact'
  <2>1. CASE AutoscalerEnabled
    <3>1. /\ autoscaler'[f].entry = autoscaler[f].entry /\ autoscaler'[f].state = "Active"
          /\ autoscaler'[f].inFlight = autoscaler[f].inFlight + 1
          /\ \A g \in Functions : g # f => autoscaler'[g] = autoscaler[g]
      BY <1>2, <1>6, <2>1, StartChanges DEF Changes
    <3>2. autoscaler[f].inFlight = Cardinality(Serving(f))
      BY <1>2, <1>6, <2>1, Distinct DEF SInv, Exact, Tally
    <3> QED BY <1>11, <1>12, <3>1, <3>2 DEF SInv, Exact, Tally
  <2>2. CASE ~AutoscalerEnabled
    BY <1>2, <2>2 DEF SInv, Exact, Tally
  <2> QED BY <2>1, <2>2
<1>14. \A u \in Threads : local[u].fn \in Functions \cup {None}
  BY LocalTyped DEF LocalType
<1>15. \A u \in Threads : pc'[u] \in ScaleLabels =>
         AutoscalerEnabled /\ Serving(local[u].fn)' = {} /\ local'[u] = local[u]
  <2>1. "http" \notin ScaleLabels
    BY DEF ScaleLabels
  <2>2. ASSUME NEW u \in Threads, pc'[u] \in ScaleLabels
        PROVE  AutoscalerEnabled /\ Serving(local[u].fn)' = {} /\ local'[u] = local[u]
    <3>1. u # t /\ pc'[u] = pc[u] /\ local'[u] = local[u]
      BY <1>5, <2>1, <2>2 DEF Went
    <3>2. PICK g \in Functions \cup {None} : g = local[u].fn
      BY <1>14
    <3>3. g # f /\ AutoscalerEnabled /\ Serving(g) = {}
      BY <1>7, <2>2, <3>1, <3>2 DEF SInv, Unserved
    <3>4. Serving(g)' = {}
      BY <1>11, <3>3
    <3> QED BY <3>1, <3>2, <3>3, <3>4 DEF Serving
  <2> QED BY <2>2
<1>16. Unserved'
  <2>1. ASSUME AutoscalerEnabled, NEW d \in Deployers, pc'[d] # "idle"
        PROVE  Serving(local[d].fn)' = {}
    <3>1. d \in Threads /\ pc'[d] = pc[d] /\ local'[d] = local[d]
      BY <1>5, Distinct DEF Went
    <3>2. PICK g \in Functions \cup {None} : g = local[d].fn
      BY <1>14, <3>1
    <3>3. g # f /\ Serving(g) = {}
      BY <1>8, <2>1, <3>1, <3>2 DEF SInv, Unserved
    <3>4. Serving(g)' = {}
      BY <1>11, <3>3
    <3> QED BY <3>1, <3>2, <3>4 DEF Serving
  <2>2. \A c \in Callers : pc'[c] # "idle" =>
          \E h \in Handlers : deployed'[h] = local'[c].fn
    BY <1>2, <1>4, <1>5, <1>9, Distinct DEF Went, SInv, Unserved
  <2> QED BY <1>15, <2>1, <2>2 DEF Unserved
<1> QED BY <1>13, <1>16 DEF SInv

LEMMA CallFinishUnserved ==
  ASSUME TypeOK, IInv, RInv, SInv, NEW t \in Callers, CallFinish(t)
  PROVE  SInv'
<1>1. PICK f \in Functions : pc[t] = "http" /\ f = local[t].fn
  BY Distinct DEF CallFinish, At, IInv, Operands, Operand
<1>2. /\ pc[t] = "http" /\ f = local[t].fn /\ t \in Threads
      /\ UNCHANGED deployed
      /\ IF AutoscalerEnabled THEN AS!EndInvocation(f) ELSE UNCHANGED autoscaler
  BY <1>1, Distinct DEF CallFinish, runtime
<1>3. Went(t, "idle", Reset)
  BY <1>2, ReturnWent DEF CallFinish
<1>4. Serving(f)' = Serving(f) \ {t} /\ t \in Serving(f)
  BY <1>2, <1>3, Distinct DEF Serving, Went, At
<1>5. \A g \in Functions : g # f => Serving(g)' = Serving(g)
  BY <1>2, <1>3, Distinct DEF Serving, Went, At
<1>6. \A g : Serving(g)' \subseteq Serving(g)
  BY <1>3, Distinct DEF Serving, Went, At
<1>7. Cardinality(Serving(f)') = Cardinality(Serving(f)) - 1
  BY <1>1, <1>4, ServingFinite, FS_RemoveElement
<1>8. Exact'
  <2>1. CASE AutoscalerEnabled
    <3>1. /\ autoscaler'[f].entry = autoscaler[f].entry
          /\ autoscaler'[f].state = autoscaler[f].state
          /\ autoscaler'[f].inFlight =
               IF autoscaler[f].inFlight > 0 THEN autoscaler[f].inFlight - 1 ELSE 0
          /\ \A g \in Functions : g # f => autoscaler'[g] = autoscaler[g]
      BY <1>2, <2>1, EndChanges DEF Changes
    <3>2. Cardinality(Serving(f)) > 0
      BY <1>2, <1>4, ServingFinite, FS_EmptySet
    <3> QED BY <1>5, <1>7, <3>1, <3>2 DEF SInv, Exact, Tally
  <2>2. CASE ~AutoscalerEnabled
    BY <1>2, <2>2 DEF SInv, Exact, Tally
  <2> QED BY <2>1, <2>2
<1>9. \A u \in Threads : pc'[u] # "idle" => pc'[u] = pc[u] /\ local'[u] = local[u]
  BY <1>3 DEF Went
<1>10. Unserved'
  <2>1. \A u \in Threads : pc'[u] \in ScaleLabels =>
          AutoscalerEnabled /\ Serving(local'[u].fn) = {}
    BY <1>9 DEF SInv, Unserved, ScaleLabels
  <2>2. \A u \in Threads : Serving(local[u].fn)' \subseteq Serving(local'[u].fn)
    BY <1>3, Distinct DEF Serving, Went, At
  <2> QED BY <1>2, <1>9, <2>1, <2>2, Distinct DEF SInv, Unserved
<1> QED BY <1>8, <1>10 DEF SInv

LEMMA CallStepUnserved ==
  ASSUME TypeOK, IInv, RInv, SInv, NEW t \in Callers, CallStep(t) \/ CallFinish(t)
  PROVE  SInv'
<1>1. t \in Threads
  BY Distinct
<1>2. CASE CallColdStart(t)
  <2>1. local[t].fn \in Functions
    BY <1>1, <1>2 DEF CallColdStart, At, IInv, Operands, Operand
  <2> QED BY <1>2, <2>1, ClaimUnserved DEF CallColdStart, At, runtime
<1>3. CASE CallColdStarted(t) \/ CallWaitRoute(t) \/ CallRefused(t)
  <2> DEFINE v == [local[t] EXCEPT !.ips = routingTable[local[t].fn].ips]
  <2>1. v.fn = local[t].fn
    BY <1>1, LocalTyped DEF LocalType
  <2>2. Goto(t, "waitRoute", local[t]) \/ Goto(t, "begin", v) \/ Return(t)
    BY <1>3 DEF CallColdStarted, CallWaitRoute, CallRefused, Continue
  <2>3. UNCHANGED <<autoscaler, deployed>> /\ pc[t] \in {"coldStart", "waitRoute", "begin"}
    BY <1>3 DEF CallColdStarted, CallWaitRoute, CallRefused, At, runtime
  <2> HIDE DEF v
  <2>4. Went(t, "waitRoute", local[t]) \/ Went(t, "begin", v) \/ Went(t, "idle", Reset)
    BY <1>1, <2>2, GotoWent, ReturnWent
  <2> QED BY <1>1, <2>1, <2>3, <2>4, LocalUnserved DEF ScaleLabels
<1> QED BY <1>2, <1>3, CallBeginUnserved, CallFinishUnserved DEF CallStep

LEMMA RequestUnserved ==
  ASSUME TypeOK, IInv, RInv, SInv, ~Redeploy, Request
  PROVE  SInv'
<1>1. \A f \in Functions : Tally(autoscaler[f], Cardinality(Serving(f)))
  BY DEF SInv, Exact
<1>2. ASSUME NEW f \in Functions, NEW t \in Deployers, DeployLookup(t, f)
      PROVE  SInv'
  <2> DEFINE v == [Reset EXCEPT !.fn = f, !.old = functionHandlers[f]]
  <2>1. /\ Goto(t, "create", v) /\ pc[t] = "idle" /\ UNCHANGED <<autoscaler, deployed>>
        /\ \A h \in Handlers : deployed[h] # f
    BY <1>2 DEF DeployLookup, At, runtime
  <2>2. v.fn = f
    BY DEF Reset
  <2>3. Serving(f) = {}
    BY <2>1 DEF SInv, Unserved, Serving, At
  <2> HIDE DEF v
  <2>4. Went(t, "create", v) /\ t \in Threads /\ t \notin Callers
    BY <2>1, GotoWent, Distinct
  <2> QED BY <1>1, <2>1, <2>2, <2>3, <2>4, UnservedKeep DEF ScaleLabels
<1>3. ASSUME NEW f \in Functions, NEW t \in Callers, CallSnapshot(t, f)
      PROVE  SInv'
  <2> DEFINE v == [Reset EXCEPT !.fn = f, !.ips = routingTable[f].ips]
  <2>1. /\ Goto(t, "begin", v) \/ Goto(t, "coldStart", v)
        /\ pc[t] = "idle" /\ UNCHANGED <<autoscaler, deployed>> /\ RT!HasRoute(f)
    BY <1>3 DEF CallSnapshot, At, runtime
  <2>2. v.fn = f
    BY DEF Reset
  <2>3. \E h \in Handlers : deployed[h] = f
    BY <2>1 DEF RInv, Names
  <2> HIDE DEF v
  <2>4. (Went(t, "begin", v) \/ Went(t, "coldStart", v)) /\ t \in Threads
        /\ t \notin Deployers
    BY <2>1, GotoWent, Distinct
  <2> QED BY <1>1, <2>1, <2>2, <2>3, <2>4, UnservedKeep DEF ScaleLabels
<1>4. ASSUME NEW f \in Functions, NEW t \in Scalers, IdleScaleDown(t, f) \/ Prewarm(t, f)
      PROVE  SInv'
  BY <1>4, ClaimUnserved DEF IdleScaleDown, Prewarm, At, runtime
<1> QED BY <1>2, <1>3, <1>4 DEF Request

LEMMA StepUnserved ==
  ASSUME TypeOK, IInv, RInv, SInv, ~Redeploy, [Next]_vars
  PROVE  SInv'
<1>1. CASE UNCHANGED vars
  BY <1>1 DEF vars, runtime, SInv, Exact, Unserved, Serving, At
<1> QED BY <1>1, RequestUnserved, DeployStepUnserved, DeleteStepUnserved, CallStepUnserved,
       ScaleStepUnserved DEF Next

LEMMA InitUnserved == Init => SInv
<1> SUFFICES ASSUME Init PROVE SInv
  OBVIOUS
<1>1. \A t \in Threads : pc[t] = "idle"
  BY DEF Init
<1>2. Exact
  BY DEF Init, AS!Init, AS!Unregistered, Exact, Tally
<1>3. Unserved
  BY <1>1, Distinct DEF Unserved, ScaleLabels
<1> QED BY <1>2, <1>3 DEF SInv

LEMMA OnceKept ==
  ASSUME ~Redeploy
  PROVE  Spec /\ []Alone => [](TypeOK /\ IInv /\ RInv /\ SInv)
<1> DEFINE Inv == TypeOK /\ IInv /\ RInv /\ SInv
<1>1. Init => Inv
  BY InitInv, InitRoutes, InitUnserved
<1>2. Inv /\ Alone /\ [Next]_vars => Inv'
  BY StepInv, StepRoutes, StepUnserved
<1> QED BY <1>1, <1>2, PTL DEF Spec

\* The containers of a function are stopped, and started again, while none of
\* its requests is in flight, whatever fails, for any number of functions that
\* are deployed once.
THEOREM ScalesUnserved ==
  ASSUME ~Redeploy
  PROVE  Spec /\ []Alone =>
           [](\A t \in Threads : pc[t] \in ScaleLabels => Serving(local[t].fn) = {})
<1>1. TypeOK /\ IInv /\ RInv /\ SInv =>
        \A t \in Threads : pc[t] \in ScaleLabels => Serving(local[t].fn) = {}
  BY DEF SInv, Unserved
<1> QED BY <1>1, OnceKept, PTL

\* With one function no request is sent to a container that a scale-down is
\* stopping.  (With several an address may have passed from one to the other
\* since a request took its snapshot.)
THEOREM AlwaysStoppedIdle ==
  ASSUME ~Redeploy, \A f, g \in Functions : f = g
  PROVE  Spec /\ []Alone => []StoppedIdle
<1>1. TypeOK /\ IInv /\ RInv /\ SInv => StoppedIdle
  <2> SUFFICES ASSUME IInv, SInv, NEW t \in Threads, pc[t] = "downStop",
                      NEW c \in Callers, pc[c] = "http"
               PROVE  FALSE
    BY DEF StoppedIdle, At
  <2>1. local[t].fn \in Functions /\ local[c].fn \in Functions
    BY Distinct DEF IInv, Operands, Operand, ScaleLabels
  <2> QED BY <2>1 DEF SInv, Unserved, Serving, At, ScaleLabels
<1> QED BY <1>1, OnceKept, PTL

-----------------------------------------------------------------------------
(* Where the routes of functions that are deployed once lead, when nothing   *)
(* but starting a handler fails.                                             *)

Deleting(f) ==
  \E x \in Deleters : pc[x] \in {"deleteRoute", "deleteFinish"} /\ local[x].fn = f

\* Nobody listed needs a container of f any more.
Leaving(f) == functionHandlers[f] = None \/ Deleting(f)

Runs(h, ips) == handler[h].phase = "up" /\ ips \subseteq handler[h].ips

HandlerLabels == {"downIPs", "downUpdate", "downStop", "upRestart", "upIPs", "upAdd"}

\* A goroutine that scales has the handler of its function, and knows it running.
Scales(t, label, v) ==
  /\ label # "downRestore"
  /\ label \in HandlerLabels => deployed[v.h] = v.fn
  /\ label = "upIPs" => handler[v.h].phase = "up" \/ Leaving(v.fn)
  /\ label = "upAdd" => Runs(v.h, v.ips) \/ Leaving(v.fn)

\* So does one that deploys, and it routes to what runs.
Deploys(d, label, v) ==
  /\ label = "add" => handler[v.new].phase = "up"
  /\ label = "commit" /\ RT!HasRoute(v.fn) => Runs(v.new, routingTable[v.fn].ips)

Leads(f) ==
  RT!HasRoute(f) /\ ~Leaving(f) =>
    routingTable[f].ips = {} \/ Runs(functionHandlers[f], routingTable[f].ips)

VInv ==
  /\ \A t \in Threads : Scales(t, pc[t], local[t])
  /\ \A d \in Deployers : Deploys(d, pc[d], local[d])
  /\ \A f \in Functions : Leads(f)

\* Whoever scales a function has it to itself.
LEMMA ScalerAlone ==
  ASSUME TypeOK, IInv, RInv, VInv, NEW t \in Threads, pc[t] \in HandlerLabels
  PROVE  /\ local[t].fn \in Functions /\ local[t].h \in Handlers /\ t \notin Deployers
         /\ deployed[local[t].h] = local[t].fn
         /\ \A u \in Threads : u # t /\ pc[u] \in ScaleLabels => local[u].fn # local[t].fn
         /\ \A d \in Deployers : pc[d] \in {"add", "commit"} =>
              local[d].new # local[t].h /\ local[d].fn # local[t].fn
         /\ \A f \in Functions : functionHandlers[f] = local[t].h => f = local[t].fn
         /\ functionHandlers[local[t].fn] \in {None, local[t].h}
<1> DEFINE f == local[t].fn
           h == local[t].h
<1>1. /\ f \in Functions /\ h \in Handlers /\ deployed[h] = f /\ pc[t] \in ScaleLabels
      /\ local[t].entry \in Handlers /\ deployed[local[t].entry] = f
  BY DEF HandlerLabels, ScaleLabels, IInv, Operands, Operand, VInv, Scales, RInv, Places,
     Place
<1>2. t \notin Deployers
  BY <1>1, SoleScaler
<1>3. h = local[t].entry
  BY <1>1, Distinct DEF RInv, Once
<1>4. ASSUME NEW u \in Threads, u # t, pc[u] \in ScaleLabels, local[u].fn = f
      PROVE  FALSE
  <2>1. local[u].entry \in Handlers /\ deployed[local[u].entry] = f
    BY <1>4 DEF IInv, Operands, Operand, RInv, Places, Place
  <2>2. local[u].entry = h
    BY <1>1, <2>1, Distinct DEF RInv, Once
  <2> QED BY <1>1, <1>3, <1>4, <2>2 DEF IInv, Claims
<1>5. ASSUME NEW d \in Deployers, pc[d] \in {"add", "commit"}
      PROVE  local[d].new # h /\ local[d].fn # f
  <2>1. Holding(d) /\ local[d].new \in Handlers /\ deployed[local[d].new] = local[d].fn
    BY <1>5, Distinct DEF Holding, Preparing, RInv, Places, Place, IInv, Operands, Operand
  <2>2. local[d].new # h
    BY <1>1, <1>3, <2>1 DEF IInv, Fresh
  <2> QED BY <1>1, <2>1, <2>2, Distinct DEF RInv, Once
<1>6. \A g \in Functions : functionHandlers[g] = h => g = f
  BY <1>1, Distinct DEF RInv, Names
<1>7. functionHandlers[f] \in {None, h}
  BY <1>1, Distinct DEF RInv, Names, Once, TypeOK
<1> QED BY <1>1, <1>2, <1>4, <1>5, <1>6, <1>7

\* So has whoever deploys one, until it is listed.
LEMMA DeployerAlone ==
  ASSUME TypeOK, IInv, HInv, RInv, NEW d \in Deployers,
         pc[d] \in {"start", "add", "commit", "abort"}
  PROVE  /\ local[d].fn \in Functions /\ local[d].new \in Handlers /\ d \in Threads
         /\ deployed[local[d].new] = local[d].fn
         /\ functionHandlers[local[d].fn] = None
         /\ \A f \in Functions : functionHandlers[f] # local[d].new
         /\ \A u \in Threads : pc[u] \in ScaleLabels => local[u].fn # local[d].fn
         /\ \A e \in Deployers : e # d /\ pc[e] \in {"add", "commit"} =>
              local[e].new # local[d].new /\ local[e].fn # local[d].fn
<1> DEFINE f == local[d].fn
           n == local[d].new
<1>1. f \in Functions /\ n \in Handlers /\ deployed[n] = f /\ Holding(d) /\ d \in Threads
  BY Distinct DEF IInv, Operands, Operand, RInv, Places, Place, Holding, Preparing
<1>2. \A g \in Functions : functionHandlers[g] # n
  BY DEF HInv, Unlisted, Replacing
<1>3. functionHandlers[f] = None
  BY <1>1, <1>2, Distinct DEF RInv, Names, Once, TypeOK
<1>4. ASSUME NEW u \in Threads, pc[u] \in ScaleLabels, local[u].fn = f
      PROVE  FALSE
  <2>1. local[u].entry \in Handlers /\ deployed[local[u].entry] = f
    BY <1>4 DEF IInv, Operands, Operand, RInv, Places, Place
  <2>2. local[u].entry = n
    BY <1>1, <2>1, Distinct DEF RInv, Once
  <2> QED BY <1>1, <1>4, <2>2 DEF IInv, Fresh
<1>5. ASSUME NEW e \in Deployers, e # d, pc[e] \in {"add", "commit"}
      PROVE  local[e].new # n /\ local[e].fn # f
  <2>1. Holding(e) /\ local[e].new \in Handlers /\ deployed[local[e].new] = local[e].fn
    BY <1>5, Distinct DEF Holding, Preparing, RInv, Places, Place, IInv, Operands, Operand
  <2>2. local[e].new # n
    BY <1>1, <1>5, <2>1 DEF IInv, Fresh
  <2> QED BY <1>1, <2>1, <2>2, Distinct DEF RInv, Once
<1> QED BY <1>1, <1>2, <1>3, <1>4, <1>5

\* What t does to handler h matters to nobody else.
Unneeded(t, h) ==
  h \in Handlers =>
    /\ \A f \in Functions : functionHandlers[f] = h => RouteEmpty(f) \/ Deleting(f)'
    /\ \A u \in Threads, f \in Functions :
         u # t /\ pc[u] \in {"upIPs", "upAdd"} /\ local[u].h = h /\ local[u].fn = f =>
           functionHandlers[f] = None \/ Deleting(f)'
    /\ \A d \in Deployers : d # t /\ pc[d] \in {"add", "commit"} => local[d].new # h

\* What t has deleted stays so.
Onward(t, label, v) ==
  pc[t] \in {"deleteRoute", "deleteFinish"} =>
    label = "deleteFinish" /\ v.fn = local[t].fn

LEMMA StillDeleting ==
  ASSUME NEW t \in Threads, NEW label, NEW v, Went(t, label, v), Onward(t, label, v), NEW f,
         Deleting(f)
  PROVE  Deleting(f)'
  BY Distinct DEF Deleting, Went, Onward

\* A step that changes no route and no listing, and no handler but h.
LEMMA HandlerStepLeads ==
  ASSUME TypeOK, IInv, HInv, RInv, VInv, NEW t \in Threads, NEW label, NEW v, NEW h,
         Went(t, label, v), Onward(t, label, v),
         UNCHANGED <<functionHandlers, routingTable>>,
         \A g \in Handlers : g # h => handler'[g] = handler[g],
         \A g \in Handlers, f \in Functions : deployed[g] = f => deployed'[g] = f,
         Unneeded(t, h), Scales(t, label, v)', t \in Deployers => Deploys(t, label, v)'
  PROVE  VInv'
<1>1. \A f : Deleting(f) => Deleting(f)'
  BY StillDeleting
<1>2. ASSUME NEW u \in Threads
      PROVE  Scales(u, pc[u], local[u])'
  <2>1. CASE u = t
    BY <2>1 DEF Went, Scales
  <2>2. CASE u # t
    <3>1. pc'[u] = pc[u] /\ local'[u] = local[u] /\ Scales(u, pc[u], local[u])
      BY <2>2 DEF Went, VInv
    <3>2. pc[u] \in HandlerLabels =>
            local[u].h \in Handlers /\ local[u].fn \in Functions
      BY DEF HandlerLabels, ScaleLabels, IInv, Operands, Operand
    <3>3. CASE pc[u] \notin HandlerLabels
      BY <3>1, <3>3 DEF Scales, HandlerLabels
    <3>4. CASE pc[u] \in HandlerLabels
      <4>1. PICK f \in Functions, g \in Handlers : f = local[u].fn /\ g = local[u].h
        BY <3>2, <3>4
      <4>2. deployed'[g] = f
        BY <3>1, <3>4, <4>1 DEF Scales
      <4>3. Leaving(f) => Leaving(f)'
        BY <1>1 DEF Leaving
      <4>4. pc[u] \in {"upIPs", "upAdd"} => handler'[g] = handler[g] \/ Leaving(f)'
        BY <2>2, <4>1 DEF Unneeded, Leaving
      <4>5. pc[u] = "upIPs" => handler'[g].phase = "up" \/ Leaving(f)'
        BY <3>1, <4>1, <4>3, <4>4 DEF Scales
      <4>6. pc[u] = "upAdd" => Runs(g, local[u].ips)' \/ Leaving(f)'
        BY <3>1, <4>1, <4>3, <4>4 DEF Scales, Runs
      <4>7. Leaving(f)' <=> Leaving(local[u].fn)'
        BY <3>1, <4>1
      <4> QED BY <3>1, <4>1, <4>2, <4>5, <4>6, <4>7 DEF Scales, Runs
    <3> QED BY <3>3, <3>4
  <2> QED BY <2>1, <2>2
<1>3. ASSUME NEW d \in Deployers
      PROVE  Deploys(d, pc[d], local[d])'
  <2>1. CASE d = t
    BY <2>1 DEF Went, Deploys
  <2>2. CASE d # t
    <3>1. pc'[d] = pc[d] /\ local'[d] = local[d] /\ Deploys(d, pc[d], local[d])
      BY <2>2, Distinct DEF Went, VInv
    <3>2. pc[d] \in {"add", "commit"} => handler'[local[d].new] = handler[local[d].new]
      BY <2>2, Distinct DEF Unneeded, IInv, Operands, Operand
    <3> QED BY <3>1, <3>2 DEF Deploys, Runs, RT!HasRoute
  <2> QED BY <2>1, <2>2
<1>4. ASSUME NEW f \in Functions
      PROVE  Leads(f)'
  BY <1>1 DEF VInv, Leads, Leaving, Runs, Unneeded, RouteEmpty, RT!HasRoute, TypeOK
<1> QED BY <1>2, <1>3, <1>4 DEF VInv

\* A step that changes the route of f only.
LEMMA RouteStepLeads ==
  ASSUME TypeOK, IInv, RInv, VInv, NEW t \in Threads, NEW label, NEW v, NEW f \in Functions,
         Went(t, label, v), Onward(t, label, v),
         UNCHANGED <<functionHandlers, handler, deployed>>,
         \A g \in Functions : g # f =>
           /\ g \in DOMAIN routingTable' <=> g \in DOMAIN routingTable
           /\ g \in DOMAIN routingTable => routingTable'[g] = routingTable[g],
         \A d \in Deployers : d # t /\ pc[d] = "commit" => local[d].fn # f,
         Leads(f)', Scales(t, label, v)', t \in Deployers => Deploys(t, label, v)'
  PROVE  VInv'
<1>1. \A g : Deleting(g) => Deleting(g)'
  BY StillDeleting
<1>2. ASSUME NEW u \in Threads
      PROVE  Scales(u, pc[u], local[u])'
  <2>1. CASE u = t
    BY <2>1 DEF Went, Scales
  <2>2. CASE u # t
    <3>1. pc'[u] = pc[u] /\ local'[u] = local[u] /\ Scales(u, pc[u], local[u])
      BY <2>2 DEF Went, VInv
    <3>2. PICK g : g = local[u].fn
      OBVIOUS
    <3>3. Leaving(g) => Leaving(g)'
      BY <1>1 DEF Leaving
    <3>4. Leaving(g)' <=> Leaving(local[u].fn)'
      BY <3>1, <3>2
    <3> QED BY <3>1, <3>2, <3>3, <3>4 DEF Scales, Runs
  <2> QED BY <2>1, <2>2
<1>3. ASSUME NEW d \in Deployers
      PROVE  Deploys(d, pc[d], local[d])'
  <2>1. CASE d = t
    BY <2>1 DEF Went, Deploys
  <2>2. CASE d # t
    <3>1. pc'[d] = pc[d] /\ local'[d] = local[d] /\ Deploys(d, pc[d], local[d])
      BY <2>2, Distinct DEF Went, VInv
    <3>2. pc[d] = "commit" => local[d].fn \in Functions /\ local[d].fn # f
      BY <2>2, Distinct DEF IInv, Operands, Operand
    <3> QED BY <3>1, <3>2 DEF Deploys, Runs, RT!HasRoute
  <2> QED BY <2>1, <2>2
<1>4. ASSUME NEW g \in Functions
      PROVE  Leads(g)'
  <2>1. CASE g = f
    BY <2>1
  <2>2. CASE g # f
    BY <1>1, <2>2 DEF VInv, Leads, Leaving, Runs, RT!HasRoute
  <2> QED BY <2>1, <2>2
<1> QED BY <1>2, <1>3, <1>4 DEF VInv

\* Where a goroutine relies on no handler.
FreeLabels ==
  {"idle", "downLookup", "downDone", "upLookup", "upDone", "create", "start", "register",
   "abort", "deleteLock", "deleteDestroy", "coldStart", "waitRoute", "begin", "http"}

LEMMA FreeStands ==
  ASSUME NEW t, NEW v, NEW label \in FreeLabels
  PROVE  Scales(t, label, v)' /\ Deploys(t, label, v)'
  BY DEF Scales, Deploys, FreeLabels, HandlerLabels

LEMMA LocalStepLeads ==
  ASSUME TypeOK, IInv, HInv, RInv, VInv, NEW t \in Threads, NEW label, NEW v,
         Went(t, label, v), pc[t] \notin {"deleteRoute", "deleteFinish"},
         UNCHANGED <<functionHandlers, routingTable, handler, deployed>>,
         Scales(t, label, v)', t \in Deployers => Deploys(t, label, v)'
  PROVE  VInv'
<1>1. Onward(t, label, v) /\ Unneeded(t, None)
  BY Distinct DEF Onward, Unneeded
<1> QED BY <1>1, HandlerStepLeads

LEMMA FreeStepLeads ==
  ASSUME TypeOK, IInv, HInv, RInv, VInv, NEW t \in Threads, NEW label \in FreeLabels, NEW v,
         Went(t, label, v), pc[t] \notin {"deleteRoute", "deleteFinish"},
         UNCHANGED <<functionHandlers, routingTable, handler, deployed>>
  PROVE  VInv'
  BY FreeStands, LocalStepLeads

LEMMA LookupLeads ==
  ASSUME TypeOK, IInv, HInv, RInv, VInv, NEW t \in Deployers \cup Callers \cup Scalers,
         DownLookup(t) \/ UpLookup(t)
  PROVE  VInv'
<1> DEFINE w == [local[t] EXCEPT !.h = functionHandlers[local[t].fn],
                               !.ok = functionHandlers[local[t].fn] # None]
<1>1. w.fn = local[t].fn /\ w.h = functionHandlers[local[t].fn]
  BY LocalTyped, Distinct DEF LocalType
<1>2. /\ \/ \E label \in {"downDone", "upDone"} : Goto(t, label, w)
         \/ /\ functionHandlers[local[t].fn] # None
            /\ \E label \in {"downIPs", "upRestart"} : Goto(t, label, w)
      /\ pc[t] \in {"downLookup", "upLookup"}
      /\ UNCHANGED <<functionHandlers, routingTable, handler, deployed>>
  BY DEF DownLookup, UpLookup, Lookup, At, tables, runtime
<1>3. t \in Threads /\ t \notin Deployers /\ local[t].fn \in Functions
  BY <1>2, SoleScaler, Distinct DEF ScaleLabels
<1>4. PICK v : v = w
  OBVIOUS
<1> HIDE DEF w
<1>5. CASE \E label \in {"downDone", "upDone"} : Goto(t, label, v)
  BY <1>2, <1>3, <1>5, GotoWent, FreeStepLeads DEF FreeLabels
<1>6. ASSUME functionHandlers[local[t].fn] # None, NEW label \in {"downIPs", "upRestart"},
             Goto(t, label, v)
      PROVE  VInv'
  <2>1. deployed'[v.h] = v.fn
    BY <1>1, <1>2, <1>3, <1>4, <1>6 DEF RInv, Names
  <2>2. Scales(t, label, v)'
    BY <2>1 DEF Scales
  <2> QED BY <1>2, <1>3, <1>6, <2>2, GotoWent, LocalStepLeads
<1> QED BY <1>2, <1>4, <1>5, <1>6

LEMMA IPsLeads ==
  ASSUME TypeOK, IInv, HInv, RInv, VInv, NEW t \in Deployers \cup Callers \cup Scalers,
         DownIPs(t) \/ UpIPs(t)
  PROVE  VInv'
<1> DEFINE w == [local[t] EXCEPT !.ips = handler[local[t].h].ips]
<1>1. w.fn = local[t].fn /\ w.h = local[t].h /\ w.ips = handler[local[t].h].ips
  BY LocalTyped, Distinct DEF LocalType
<1>2. /\ \/ pc[t] = "downIPs" /\ Goto(t, "downUpdate", w)
         \/ pc[t] = "upIPs" /\ Goto(t, "upAdd", w)
      /\ UNCHANGED <<functionHandlers, routingTable, handler, deployed>>
  BY DEF DownIPs, UpIPs, At, tables, runtime
<1>3. t \in Threads /\ t \notin Deployers /\ deployed[local[t].h] = local[t].fn
  BY <1>2, ScalerAlone, Distinct DEF HandlerLabels
<1>4. pc[t] = "upIPs" => handler[local[t].h].phase = "up" \/ Leaving(local[t].fn)
  BY <1>3 DEF VInv, Scales
<1>5. PICK v : v = w
  OBVIOUS
<1> HIDE DEF w
<1>6. PICK label \in {"downUpdate", "upAdd"} :
        Went(t, label, v) /\ (label = "upAdd" => pc[t] = "upIPs")
  <2>1. CASE Goto(t, "downUpdate", v)
    BY <1>3, <2>1, GotoWent
  <2>2. CASE pc[t] = "upIPs" /\ Goto(t, "upAdd", v)
    BY <1>3, <2>2, GotoWent
  <2> QED BY <1>2, <1>5, <2>1, <2>2
<1>7. Leaving(v.fn) => Leaving(v.fn)'
  <2>1. Deleting(v.fn) => Deleting(v.fn)'
    BY <1>2, <1>3, <1>6, StillDeleting DEF Onward
  <2> QED BY <1>2, <2>1 DEF Leaving
<1>8. Scales(t, label, v)'
  BY <1>1, <1>2, <1>3, <1>4, <1>5, <1>6, <1>7 DEF Scales, Runs
<1> QED BY <1>2, <1>3, <1>6, <1>8, LocalStepLeads

LEMMA StartRuns ==
  ASSUME NEW h, NEW r \in StartResults(handler[h], FreeIPs, replicas), r.ok
  PROVE  r.state.phase = "up"
  BY DEF StartResults, Outcome, WithRuntime

LEMMA StopSucceeds ==
  ASSUME NEW h
  PROVE  \E r \in StopResults(handler[h]) : r.ok
<1>1. \/ Outcome(TRUE, handler[h]) \in StopResults(handler[h])
      \/ Outcome(TRUE, WithRuntime(handler[h], "down", {})) \in StopResults(handler[h])
  BY DEF StopResults
<1> QED BY <1>1 DEF Outcome

\* The handler of a function being scaled, while nothing is routed to it.
LEMMA ScaledUnneeded ==
  ASSUME TypeOK, IInv, RInv, VInv, NEW t \in Threads, pc[t] \in {"downStop", "upRestart"}
  PROVE  Unneeded(t, local[t].h)
<1>1. pc[t] \in HandlerLabels /\ Routeless(pc[t], local[t].ok)
  BY DEF HandlerLabels, Routeless
<1>2. RouteEmpty(local[t].fn)
  BY <1>1 DEF RInv, Places, Place
<1>3. \A u \in Threads : u # t /\ pc[u] \in {"upIPs", "upAdd"} => local[u].h # local[t].h
  <2>1. ASSUME NEW u \in Threads, u # t, pc[u] \in {"upIPs", "upAdd"},
               local[u].h = local[t].h
        PROVE  FALSE
    <3>1. pc[u] \in HandlerLabels /\ pc[u] \in ScaleLabels
      BY <2>1 DEF HandlerLabels, ScaleLabels
    <3>2. local[u].fn = local[t].fn
      BY <1>1, <2>1, <3>1 DEF VInv, Scales
    <3> QED BY <1>1, <2>1, <3>1, <3>2, ScalerAlone
  <2> QED BY <2>1
<1> QED BY <1>1, <1>2, <1>3, ScalerAlone DEF Unneeded

LEMMA DownStopLeads ==
  ASSUME TypeOK, IInv, HInv, RInv, VInv, "stop" \notin Faults,
         NEW t \in Deployers \cup Callers \cup Scalers, DownStop(t)
  PROVE  VInv'
<1>1. /\ pc[t] = "downStop" /\ UNCHANGED <<functionHandlers, routingTable>>
      /\ StopHandler(local[t].h, t, "downDone", local[t],
                     "downRestore", [local[t] EXCEPT !.ok = FALSE])
  BY DEF DownStop, At, tables
<1>2. t \in Threads /\ t \notin Deployers /\ local[t].h \in Handlers
  BY <1>1, ScalerAlone, Distinct DEF HandlerLabels
<1>3. PICK h, v : h \in Handlers /\ h = local[t].h /\ v = local[t]
  BY <1>2
<1>4. /\ UNCHANGED deployed /\ \A g \in Handlers : g # h => handler'[g] = handler[g]
      /\ Went(t, "downDone", v)
  BY <1>1, <1>2, <1>3, PerformWent, StopSucceeds DEF StopHandler
<1>5. Unneeded(t, h) /\ Onward(t, "downDone", v)
  <2>1. Unneeded(t, local[t].h)
    BY <1>1, <1>2, ScaledUnneeded
  <2> QED BY <1>1, <1>3, <2>1 DEF Unneeded, Onward
<1> QED BY <1>1, <1>2, <1>4, <1>5, FreeStands, HandlerStepLeads DEF FreeLabels

LEMMA UpRestartLeads ==
  ASSUME TypeOK, IInv, HInv, RInv, VInv, NEW t \in Deployers \cup Callers \cup Scalers,
         UpRestart(t)
  PROVE  VInv'
<1> DEFINE e == [local[t] EXCEPT !.ok = FALSE]
<1>1. /\ pc[t] = "upRestart" /\ UNCHANGED <<functionHandlers, routingTable>>
      /\ StartHandler(local[t].h, t, "upIPs", local[t], "upDone", e)
  BY DEF UpRestart, At, tables
<1>2. /\ t \in Threads /\ t \notin Deployers /\ local[t].h \in Handlers
      /\ deployed[local[t].h] = local[t].fn
  BY <1>1, ScalerAlone, Distinct DEF HandlerLabels
<1>3. PICK h, v, w : h \in Handlers /\ h = local[t].h /\ v = local[t] /\ w = e
  BY <1>2
<1> HIDE DEF e
<1>4. /\ UNCHANGED deployed /\ \A g \in Handlers : g # h => handler'[g] = handler[g]
      /\ \/ Went(t, "upIPs", v) /\ handler'[h].phase = "up"
         \/ Went(t, "upDone", w)
  <2> DEFINE results == StartResults(handler[h], FreeIPs, replicas)
  <2>1. Perform("start", h, results, t, "upIPs", v, "upDone", w)
    BY <1>1, <1>3 DEF StartHandler
  <2>2. \A r \in results : r.ok => r.state.phase = "up"
    BY StartRuns
  <2> HIDE DEF results
  <2> QED BY <1>2, <1>3, <2>1, <2>2, PerformWent
<1>5. Unneeded(t, h) /\ Onward(t, "upIPs", v) /\ Onward(t, "upDone", w)
  <2>1. Unneeded(t, local[t].h)
    BY <1>1, <1>2, ScaledUnneeded
  <2> QED BY <1>1, <1>3, <2>1 DEF Unneeded, Onward
<1>6. handler'[h].phase = "up" => Scales(t, "upIPs", v)'
  BY <1>2, <1>3, <1>4 DEF Scales
<1> QED BY <1>1, <1>2, <1>4, <1>5, <1>6, FreeStands, HandlerStepLeads DEF FreeLabels

\* The handler of a deployment that is not listed yet.
LEMMA NewUnneeded ==
  ASSUME TypeOK, IInv, HInv, RInv, VInv, NEW d \in Deployers,
         pc[d] \in {"start", "add", "commit", "abort"}
  PROVE  Unneeded(d, local[d].new)
<1>1. ASSUME NEW u \in Threads, pc[u] \in {"upIPs", "upAdd"}, local[u].h = local[d].new
      PROVE  FALSE
  <2>1. pc[u] \in HandlerLabels /\ pc[u] \in ScaleLabels
    BY <1>1 DEF HandlerLabels, ScaleLabels
  <2>2. local[u].fn = local[d].fn
    BY <1>1, <2>1, DeployerAlone DEF VInv, Scales
  <2> QED BY <2>1, <2>2, DeployerAlone
<1> QED BY <1>1, DeployerAlone DEF Unneeded

LEMMA DeployStartLeads ==
  ASSUME TypeOK, IInv, HInv, RInv, VInv, NEW t \in Deployers, DeployStart(t)
  PROVE  VInv'
<1>1. /\ pc[t] = "start" /\ UNCHANGED <<functionHandlers, routingTable>>
      /\ StartHandler(local[t].new, t, "add", local[t], "abort", local[t])
  BY DEF DeployStart, At, tables
<1>2. t \in Threads /\ local[t].new \in Handlers
  BY <1>1, DeployerAlone
<1>3. PICK h, v : h \in Handlers /\ h = local[t].new /\ v = local[t]
  BY <1>2
<1>4. /\ UNCHANGED deployed /\ \A g \in Handlers : g # h => handler'[g] = handler[g]
      /\ \/ Went(t, "add", v) /\ handler'[h].phase = "up"
         \/ Went(t, "abort", v)
  <2> DEFINE results == StartResults(handler[h], FreeIPs, replicas)
  <2>1. Perform("start", h, results, t, "add", v, "abort", v)
    BY <1>1, <1>3 DEF StartHandler
  <2>2. \A r \in results : r.ok => r.state.phase = "up"
    BY StartRuns
  <2> HIDE DEF results
  <2> QED BY <1>2, <1>3, <2>1, <2>2, PerformWent
<1>5. Unneeded(t, h) /\ Onward(t, "add", v) /\ Onward(t, "abort", v)
  <2>1. Unneeded(t, local[t].new)
    BY <1>1, NewUnneeded
  <2> QED BY <1>1, <1>3, <2>1 DEF Unneeded, Onward
<1>6. handler'[h].phase = "up" => Scales(t, "add", v)' /\ Deploys(t, "add", v)'
  BY <1>3 DEF Scales, Deploys, HandlerLabels
<1> QED BY <1>1, <1>2, <1>4, <1>5, <1>6, FreeStands, HandlerStepLeads DEF FreeLabels

LEMMA DeployAbortLeads ==
  ASSUME TypeOK, IInv, HInv, RInv, VInv, "destroy" \notin Faults, NEW t \in Deployers,
         DeployAbort(t)
  PROVE  VInv'
<1>1. /\ pc[t] = "abort" /\ UNCHANGED <<functionHandlers, routingTable>>
      /\ DestroyHandler(local[t].new, t, "idle", Reset, "idle", Reset)
  BY DEF DeployAbort, At, tables
<1>2. t \in Threads /\ local[t].new \in Handlers
  BY <1>1, DeployerAlone
<1>3. PICK h \in Handlers : h = local[t].new
  BY <1>2
<1>4. /\ UNCHANGED deployed /\ \A g \in Handlers : g # h => handler'[g] = handler[g]
      /\ Went(t, "idle", Reset)
  BY <1>1, <1>2, <1>3, DestroyHandlerWent DEF Destroyed
<1>5. Unneeded(t, h) /\ Onward(t, "idle", Reset)
  <2>1. Unneeded(t, local[t].new)
    BY <1>1, NewUnneeded
  <2> QED BY <1>1, <1>3, <2>1 DEF Unneeded, Onward
<1> QED BY <1>1, <1>2, <1>4, <1>5, FreeStands, HandlerStepLeads DEF FreeLabels

LEMMA DeployCreateLeads ==
  ASSUME TypeOK, IInv, HInv, RInv, VInv, NEW t \in Deployers, DeployCreate(t)
  PROVE  VInv'
<1> DEFINE w(h) == [local[t] EXCEPT !.new = h]
<1>1. PICK h \in Handlers :
        /\ deployed[h] = None
        /\ deployed' = [deployed EXCEPT ![h] = local[t].fn]
        /\ handler' = [handler EXCEPT ![h] = Created]
        /\ Goto(t, IF local[t].old # None /\ AutoscalerEnabled THEN "drain" ELSE "start",
                w(h))
  BY DEF DeployCreate
<1>2. /\ pc[t] = "create" /\ t \in Threads
      /\ UNCHANGED <<functionHandlers, routingTable>>
  BY Distinct DEF DeployCreate, At, tables
<1>3. PICK v : v = w(h)
  OBVIOUS
<1> HIDE DEF w
<1>4. Went(t, "start", v)
  <2>1. local[t].old = None
    BY <1>2 DEF RInv, Places, Place
  <2> QED BY <1>1, <1>2, <1>3, <2>1, GotoWent
<1>5. /\ \A g \in Handlers : g # h => handler'[g] = handler[g]
      /\ \A g \in Handlers, f \in Functions : deployed[g] = f => deployed'[g] = f
  BY <1>1, Distinct DEF TypeOK
<1>6. Unneeded(t, h)
  <2>1. \A f \in Functions : functionHandlers[f] # h
    BY <1>1, Distinct DEF RInv, Names
  <2>2. \A u \in Threads, f \in Functions :
          pc[u] \in {"upIPs", "upAdd"} /\ local[u].fn = f => local[u].h # h
    BY <1>1, Distinct DEF VInv, Scales, HandlerLabels
  <2>3. \A d \in Deployers : pc[d] \in {"add", "commit"} => local[d].new # h
    BY <1>1, DeployerAlone, Distinct
  <2> QED BY <2>1, <2>2, <2>3 DEF Unneeded
<1>7. Onward(t, "start", v)
  BY <1>2 DEF Onward
<1> QED BY <1>2, <1>4, <1>5, <1>6, <1>7, FreeStands, HandlerStepLeads DEF FreeLabels

\* Delete's handler is nobody's any more, and its function leaves.
LEMMA DeleteDestroyLeads ==
  ASSUME TypeOK, IInv, HInv, RInv, VInv, "destroy" \notin Faults, NEW t \in Deleters,
         DeleteDestroy(t)
  PROVE  VInv'
<1>1. /\ pc[t] = "deleteDestroy" /\ UNCHANGED <<functionHandlers, routingTable>>
      /\ DestroyHandler(local[t].h, t, "deleteRoute", local[t], "deleteFailed", local[t])
  BY DEF DeleteDestroy, At, tables
<1>2. /\ t \in Threads /\ t \notin Deployers
      /\ local[t].fn \in Functions /\ local[t].h \in Handlers
      /\ functionHandlers[local[t].fn] = local[t].h
  BY <1>1, Distinct DEF IInv, Operands, Operand, MuxLabels, HInv, Locked
<1>3. PICK f \in Functions, h \in Handlers : f = local[t].fn /\ h = local[t].h
  BY <1>2
<1>4. PICK v : v = local[t]
  OBVIOUS
<1>5. /\ UNCHANGED deployed /\ \A g \in Handlers : g # h => handler'[g] = handler[g]
      /\ Went(t, "deleteRoute", v)
  BY <1>1, <1>2, <1>3, <1>4, DestroyHandlerWent DEF Destroyed
<1>6. Deleting(f)'
  BY <1>3, <1>4, <1>5 DEF Deleting, Went
<1>7. deployed[h] = f /\ functionHandlers[f] = h
  BY <1>2, <1>3, Distinct DEF RInv, Names
<1>8. Unneeded(t, h)
  <2>1. \A g \in Functions : functionHandlers[g] = h => g = f
    BY <1>7, Distinct DEF RInv, Names
  <2>2. \A u \in Threads, g \in Functions :
          pc[u] \in {"upIPs", "upAdd"} /\ local[u].h = h /\ local[u].fn = g => g = f
    BY <1>7 DEF VInv, Scales, HandlerLabels
  <2>3. \A d \in Deployers : pc[d] \in {"add", "commit"} => local[d].new # h
    BY <1>7, DeployerAlone
  <2> QED BY <1>6, <2>1, <2>2, <2>3 DEF Unneeded
<1>9. Onward(t, "deleteRoute", v) /\ Scales(t, "deleteRoute", v)'
  BY <1>1 DEF Onward, Scales, HandlerLabels
<1> QED BY <1>1, <1>2, <1>5, <1>8, <1>9, HandlerStepLeads

LEMMA AddedRoute ==
  ASSUME NEW f, NEW ips, ips # {}, RT!Add(f, ips)
  PROVE  f \in DOMAIN routingTable' /\ routingTable'[f].ips = ips
  BY DEF RT!Add, RT!AddAccepts, RT!SetRoute, RT!Route

LEMMA DownUpdateLeads ==
  ASSUME TypeOK, IInv, HInv, RInv, VInv, NEW t \in Deployers \cup Callers \cup Scalers,
         DownUpdate(t)
  PROVE  VInv'
<1>1. /\ pc[t] = "downUpdate" /\ UNCHANGED <<functionHandlers, handler, deployed>>
      /\ RT!Update(local[t].fn) /\ Continue(t, "downStop") /\ t \in Threads
  BY Distinct DEF DownUpdate, At, runtime
<1>2. /\ t \notin Deployers /\ local[t].fn \in Functions
      /\ deployed[local[t].h] = local[t].fn
      /\ \A d \in Deployers : pc[d] = "commit" => local[d].fn # local[t].fn
  BY <1>1, ScalerAlone DEF HandlerLabels
<1>3. PICK f \in Functions : f = local[t].fn
  BY <1>2
<1>4. PICK v : v = local[t]
  OBVIOUS
<1>5. Went(t, "downStop", v) /\ Onward(t, "downStop", v)
  BY <1>1, <1>4, GotoWent DEF Continue, Onward
<1>6. /\ Emptied(f)
      /\ \A g \in Functions : g # f =>
           /\ g \in DOMAIN routingTable' <=> g \in DOMAIN routingTable
           /\ g \in DOMAIN routingTable => routingTable'[g] = routingTable[g]
  BY <1>1, <1>3, UpdateOwned DEF RInv
<1>7. Leads(f)'
  BY <1>6 DEF Leads, Emptied, RT!HasRoute
<1>8. Scales(t, "downStop", v)'
  BY <1>1, <1>2, <1>4 DEF Scales
<1> QED BY <1>1, <1>2, <1>3, <1>5, <1>6, <1>7, <1>8, RouteStepLeads

\* The addresses that become routed to are those of the listed handler, unless
\* the function is being deleted.
LEMMA UpAddLeads ==
  ASSUME TypeOK, IInv, HInv, RInv, VInv, NEW t \in Deployers \cup Callers \cup Scalers,
         UpAdd(t)
  PROVE  VInv'
<1> DEFINE w == [local[t] EXCEPT !.ok = RT!AddAccepts(local[t].ips), !.ips = {}]
<1>1. /\ pc[t] = "upAdd" /\ UNCHANGED <<functionHandlers, handler, deployed>>
      /\ RT!Add(local[t].fn, local[t].ips) /\ Goto(t, "upDone", w) /\ t \in Threads
  BY Distinct DEF UpAdd, At, runtime
<1>2. /\ t \notin Deployers /\ local[t].fn \in Functions
      /\ functionHandlers[local[t].fn] \in {None, local[t].h}
      /\ \A d \in Deployers : pc[d] = "commit" => local[d].fn # local[t].fn
  BY <1>1, ScalerAlone DEF HandlerLabels
<1>3. PICK f \in Functions, ips \in SUBSET IPs : f = local[t].fn /\ ips = local[t].ips
  BY <1>1, <1>2, LocalTyped DEF LocalType
<1>4. PICK v : v = w
  OBVIOUS
<1> HIDE DEF w
<1>5. Went(t, "upDone", v) /\ Onward(t, "upDone", v)
  BY <1>1, <1>4, GotoWent DEF Onward
<1>6. RouteEmpty(f)
  <2>1. Place(t, "upAdd", local[t])
    BY <1>1 DEF RInv, Places
  <2> QED BY <1>3, <2>1 DEF Place, Routeless
<1>7. /\ ips = {} => Emptied(f)
      /\ \A g \in Functions : g # f =>
           /\ g \in DOMAIN routingTable' <=> g \in DOMAIN routingTable
           /\ g \in DOMAIN routingTable => routingTable'[g] = routingTable[g]
  BY <1>1, <1>3, <1>6, AddOwned DEF RInv
<1>8. Leads(f)'
  <2>1. CASE ips = {}
    BY <1>7, <2>1 DEF Leads, Emptied, RT!HasRoute
  <2>2. CASE ips # {}
    <3>1. routingTable'[f].ips = ips
      BY <1>1, <1>3, <2>2, AddedRoute
    <3>2. Runs(local[t].h, ips) \/ Leaving(f)
      BY <1>1, <1>3 DEF VInv, Scales
    <3>3. Leaving(f) => Leaving(f)'
      BY <1>1, <1>5, StillDeleting DEF Leaving
    <3>4. functionHandlers[f] = None => Leaving(f)
      BY DEF Leaving
    <3>5. functionHandlers[f] = local[t].h /\ Runs(local[t].h, ips)
            => Runs(functionHandlers[f], ips)'
      BY <1>1 DEF Runs
    <3>6. Leaving(f)' \/ Runs(functionHandlers[f], ips)'
      BY <1>2, <1>3, <3>2, <3>3, <3>4, <3>5
    <3> QED BY <1>1, <3>1, <3>6 DEF Leads, Runs
  <2> QED BY <2>1, <2>2
<1> QED BY <1>1, <1>2, <1>3, <1>5, <1>7, <1>8, FreeStands, RouteStepLeads DEF FreeLabels

LEMMA DeployAddLeads ==
  ASSUME TypeOK, IInv, HInv, RInv, VInv, NEW t \in Deployers, DeployAdd(t)
  PROVE  VInv'
<1>1. /\ pc[t] = "add" /\ UNCHANGED <<functionHandlers, handler, deployed>>
      /\ RT!Add(local[t].fn, handler[local[t].new].ips)
      /\ Continue(t, IF RT!AddAccepts(handler[local[t].new].ips) THEN "commit" ELSE "abort")
  BY DEF DeployAdd, At, runtime
<1>2. /\ t \in Threads /\ local[t].fn \in Functions /\ local[t].new \in Handlers
      /\ functionHandlers[local[t].fn] = None
      /\ \A d \in Deployers : d # t /\ pc[d] = "commit" => local[d].fn # local[t].fn
  BY <1>1, DeployerAlone
<1>3. PICK f \in Functions, n \in Handlers : f = local[t].fn /\ n = local[t].new
  BY <1>2
<1>4. PICK ips \in SUBSET IPs : ips = handler[n].ips
  BY DEF TypeOK, HandlerState
<1>5. PICK v : v = local[t]
  OBVIOUS
<1>6. PICK label \in {"commit", "abort"} :
        /\ Went(t, label, v) /\ Onward(t, label, v)
        /\ label = "commit" => ips # {}
  BY <1>1, <1>2, <1>3, <1>4, <1>5, GotoWent DEF Continue, Onward, RT!AddAccepts
<1>7. RouteEmpty(f)
  <2>1. Place(t, "add", local[t])
    BY <1>1, <1>2 DEF RInv, Places
  <2> QED BY <1>3, <2>1 DEF Place, Routeless
<1>8. \A g \in Functions : g # f =>
        /\ g \in DOMAIN routingTable' <=> g \in DOMAIN routingTable
        /\ g \in DOMAIN routingTable => routingTable'[g] = routingTable[g]
  BY <1>1, <1>3, <1>4, <1>7, AddOwned DEF RInv
<1>9. Leads(f)'
  BY <1>1, <1>2, <1>3 DEF Leads, Leaving
<1>10. Scales(t, label, v)'
  BY DEF Scales, HandlerLabels
<1>11. Deploys(t, label, v)'
  <2>1. CASE label = "abort"
    BY <2>1 DEF Deploys
  <2>2. CASE label = "commit"
    <3>1. routingTable'[f].ips = ips
      BY <1>1, <1>3, <1>4, <1>6, <2>2, AddedRoute
    <3>2. handler[n].phase = "up"
      BY <1>1, <1>3 DEF VInv, Deploys
    <3> QED BY <1>1, <1>3, <1>4, <1>5, <2>2, <3>1, <3>2 DEF Deploys, Runs
  <2> QED BY <2>1, <2>2
<1> QED BY <1>1, <1>2, <1>3, <1>6, <1>8, <1>9, <1>10, <1>11, RouteStepLeads

LEMMA DeleteRouteLeads ==
  ASSUME TypeOK, IInv, HInv, RInv, VInv, NEW t \in Deleters, DeleteRoute(t)
  PROVE  VInv'
<1>1. /\ pc[t] = "deleteRoute" /\ UNCHANGED <<functionHandlers, handler, deployed>>
      /\ RT!Del(local[t].fn) /\ Continue(t, "deleteFinish")
      /\ t \in Threads /\ t \notin Deployers
  BY Distinct DEF DeleteRoute, At, runtime
<1>2. /\ local[t].fn \in Functions /\ local[t].h \in Handlers
      /\ functionHandlers[local[t].fn] = local[t].h
  BY <1>1 DEF IInv, Operands, Operand, MuxLabels, HInv, Locked
<1>3. PICK f \in Functions : f = local[t].fn
  BY <1>2
<1>4. PICK v : v = local[t]
  OBVIOUS
<1>5. Went(t, "deleteFinish", v) /\ Onward(t, "deleteFinish", v)
  BY <1>1, <1>4, GotoWent DEF Continue, Onward
<1>6. /\ f \notin DOMAIN routingTable'
      /\ \A g \in Functions : g # f =>
           /\ g \in DOMAIN routingTable' <=> g \in DOMAIN routingTable
           /\ g \in DOMAIN routingTable => routingTable'[g] = routingTable[g]
  BY <1>1, <1>3, DelOwned DEF RInv
<1>7. Leads(f)'
  BY <1>6 DEF Leads, RT!HasRoute
<1>8. \A d \in Deployers : pc[d] = "commit" => local[d].fn # f
  BY <1>2, <1>3, DeployerAlone, Distinct
<1>9. Scales(t, "deleteFinish", v)'
  BY DEF Scales, HandlerLabels
<1> QED BY <1>1, <1>5, <1>6, <1>7, <1>8, <1>9, RouteStepLeads

\* A step that changes what is listed for f only.
LEMMA ListingStepLeads ==
  ASSUME TypeOK, IInv, RInv, VInv, NEW t \in Threads, NEW label \in FreeLabels, NEW v,
         NEW f \in Functions, Went(t, label, v),
         UNCHANGED <<routingTable, handler, deployed>>,
         \A g \in Functions : g # f =>
           functionHandlers'[g] = functionHandlers[g] /\ (Deleting(g) => Deleting(g)'),
         \/ functionHandlers'[f] = None
         \/ \A u \in Threads : pc[u] \in {"upIPs", "upAdd"} => local[u].fn # f,
         Leads(f)'
  PROVE  VInv'
<1>1. ASSUME NEW u \in Threads
      PROVE  Scales(u, pc[u], local[u])'
  <2>1. CASE u = t
    BY <2>1, FreeStands DEF Went, Scales
  <2>2. CASE u # t
    <3>1. pc'[u] = pc[u] /\ local'[u] = local[u] /\ Scales(u, pc[u], local[u])
      BY <2>2 DEF Went, VInv
    <3>2. CASE pc[u] \notin {"upIPs", "upAdd"}
      BY <3>1, <3>2 DEF Scales, HandlerLabels
    <3>3. CASE pc[u] \in {"upIPs", "upAdd"}
      <4>1. PICK g \in Functions : g = local[u].fn
        BY <3>3 DEF ScaleLabels, IInv, Operands, Operand
      <4>2. Leaving(g) => Leaving(g)'
        BY <3>3, <4>1 DEF Leaving
      <4>3. Leaving(g)' <=> Leaving(local[u].fn)'
        BY <3>1, <4>1
      <4> QED BY <3>1, <4>1, <4>2, <4>3 DEF Scales, Runs
    <3> QED BY <3>2, <3>3
  <2> QED BY <2>1, <2>2
<1>2. ASSUME NEW d \in Deployers
      PROVE  Deploys(d, pc[d], local[d])'
  <2>1. CASE d = t
    BY <2>1, FreeStands DEF Went, Deploys
  <2>2. CASE d # t
    <3>1. pc'[d] = pc[d] /\ local'[d] = local[d] /\ Deploys(d, pc[d], local[d])
      BY <2>2, Distinct DEF Went, VInv
    <3> QED BY <3>1 DEF Deploys, Runs, RT!HasRoute
  <2> QED BY <2>1, <2>2
<1>3. ASSUME NEW g \in Functions, g # f
      PROVE  Leads(g)'
  BY <1>3 DEF VInv, Leads, Leaving, Runs, RT!HasRoute
<1> QED BY <1>1, <1>2, <1>3 DEF VInv

LEMMA DeployCommitLeads ==
  ASSUME TypeOK, IInv, HInv, RInv, VInv, NEW t \in Deployers, DeployCommit(t)
  PROVE  VInv'
<1>1. /\ pc[t] = "commit" /\ UNCHANGED <<routingTable, handler, deployed>>
      /\ functionHandlers' = [functionHandlers EXCEPT ![local[t].fn] = local[t].new]
      /\ Continue(t, "register")
  BY DEF DeployCommit, At, tables, runtime
<1>2. /\ t \in Threads /\ local[t].fn \in Functions /\ local[t].new \in Handlers
      /\ \A u \in Threads : pc[u] \in ScaleLabels => local[u].fn # local[t].fn
  BY <1>1, DeployerAlone
<1>3. PICK f \in Functions, n \in Handlers : f = local[t].fn /\ n = local[t].new
  BY <1>2
<1>4. PICK v : v = local[t]
  OBVIOUS
<1>5. Went(t, "register", v) /\ Onward(t, "register", v)
  BY <1>1, <1>2, <1>4, GotoWent DEF Continue, Onward
<1>6. \A g \in Functions :
        functionHandlers'[g] = IF g = f THEN n ELSE functionHandlers[g]
  BY <1>1, <1>3 DEF TypeOK
<1>7. Leads(f)'
  <2>1. RT!HasRoute(f) => Runs(n, routingTable[f].ips)
    BY <1>1, <1>3 DEF VInv, Deploys
  <2> QED BY <1>1, <1>6, <2>1 DEF Leads, Runs, RT!HasRoute
<1>8. \A g : Deleting(g) => Deleting(g)'
  BY <1>2, <1>5, StillDeleting
<1>9. \A u \in Threads : pc[u] \in {"upIPs", "upAdd"} => local[u].fn # f
  BY <1>2, <1>3 DEF ScaleLabels
<1> QED BY <1>1, <1>2, <1>5, <1>6, <1>7, <1>8, <1>9, ListingStepLeads DEF FreeLabels

LEMMA NextDeleteLeads ==
  ASSUME TypeOK, NEW t \in Deleters, NEW f \in Functions, NextDelete(t, f)
  PROVE  \E label \in {"idle", "deleteLock"} : \E v : Went(t, label, v)
  BY NextDeleteWent, Distinct DEF Went

LEMMA DeleteFinishLeads ==
  ASSUME TypeOK, IInv, HInv, RInv, VInv, NEW t \in Deleters, DeleteFinish(t)
  PROVE  VInv'
<1>1. /\ pc[t] = "deleteFinish" /\ UNCHANGED <<routingTable, handler, deployed>>
      /\ functionHandlers' = [functionHandlers EXCEPT ![local[t].fn] = None]
      /\ NextDelete(t, local[t].fn) /\ t \in Threads
  BY Distinct DEF DeleteFinish, At, tables, runtime
<1>2. PICK f \in Functions : f = local[t].fn
  BY <1>1 DEF IInv, Operands, Operand, MuxLabels
<1>3. PICK label \in {"idle", "deleteLock"} : \E v : Went(t, label, v)
  BY <1>1, <1>2, NextDeleteLeads
<1>4. PICK v : Went(t, label, v)
  BY <1>3
<1>5. \A g \in Functions :
        functionHandlers'[g] = IF g = f THEN None ELSE functionHandlers[g]
  BY <1>1, <1>2 DEF TypeOK
<1>6. \A g \in Functions : g # f /\ Deleting(g) => Deleting(g)'
  BY <1>2, <1>4, Distinct DEF Deleting, Went
<1>7. Leads(f)'
  BY <1>5 DEF Leads, Leaving
<1> QED BY <1>1, <1>4, <1>5, <1>6, <1>7, ListingStepLeads DEF FreeLabels

LEMMA ScaleDoneLeads ==
  ASSUME TypeOK, IInv, HInv, RInv, VInv, NEW t \in Deployers \cup Callers \cup Scalers,
         ScaleDone(t)
  PROVE  VInv'
<1> DEFINE v == [local[t] EXCEPT !.h = None, !.ips = {}, !.entry = None, !.ok = TRUE]
<1>1. /\ pc[t] \in {"downDone", "upDone"} /\ Resume(t)
      /\ UNCHANGED <<functionHandlers, routingTable, handler, deployed>>
  BY DEF ScaleDone, At, tables, runtime
<1>2. t \in Threads /\ t \notin Deployers
  BY <1>1, SoleScaler, Distinct DEF ScaleLabels
<1>3. Return(t) \/ Goto(t, "waitRoute", v)
  BY <1>1, <1>2 DEF Resume
<1> HIDE DEF v
<1>4. Went(t, "idle", Reset) \/ Went(t, "waitRoute", v)
  BY <1>2, <1>3, GotoWent, ReturnWent
<1> QED BY <1>1, <1>2, <1>4, FreeStepLeads DEF FreeLabels

LEMMA ScaleStepLeads ==
  ASSUME TypeOK, IInv, HInv, RInv, VInv, "stop" \notin Faults,
         NEW t \in Deployers \cup Callers \cup Scalers, ScaleStep(t)
  PROVE  VInv'
<1>1. ~DownRestore(t)
  BY Distinct DEF DownRestore, At, VInv, Scales
<1> QED BY <1>1, LookupLeads, IPsLeads, DownUpdateLeads, DownStopLeads, UpRestartLeads,
       UpAddLeads, ScaleDoneLeads DEF ScaleStep

LEMMA ClaimLeads ==
  ASSUME TypeOK, IInv, HInv, RInv, VInv, NEW t \in Threads, NEW f,
         pc[t] \in {"idle", "coldStart"}, BeginScaleDown(t, f) \/ BeginScaleUp(t, f),
         UNCHANGED <<functionHandlers, tables, runtime>>
  PROVE  VInv'
<1> DEFINE v == [local[t] EXCEPT !.fn = f, !.entry = autoscaler[f].entry]
<1>1. Goto(t, "downLookup", v) \/ Goto(t, "upLookup", v)
  BY DEF BeginScaleDown, BeginScaleUp, Claimed
<1>2. UNCHANGED <<functionHandlers, routingTable, handler, deployed>>
  BY DEF tables, runtime
<1> HIDE DEF v
<1>3. Went(t, "downLookup", v) \/ Went(t, "upLookup", v)
  BY <1>1, GotoWent
<1> QED BY <1>2, <1>3, FreeStepLeads DEF FreeLabels

LEMMA DeployRegisterLeads ==
  ASSUME TypeOK, IInv, HInv, RInv, VInv, NEW t \in Deployers, DeployRegister(t)
  PROVE  VInv'
<1>1. /\ pc[t] = "register" /\ t \in Threads
      /\ UNCHANGED <<functionHandlers, routingTable, handler, deployed>>
      /\ IF local[t].old = None THEN Return(t) ELSE Continue(t, "destroyOld")
  BY Distinct DEF DeployRegister, At, tables, runtime
<1>2. local[t].old = None
  BY <1>1 DEF RInv, Places, Place
<1> QED BY <1>1, <1>2, ReturnWent, FreeStepLeads DEF FreeLabels

LEMMA DeployStepLeads ==
  ASSUME TypeOK, IInv, HInv, RInv, VInv, "destroy" \notin Faults, NEW t \in Deployers,
         DeployStep(t)
  PROVE  VInv'
  BY NoReplacement, DeployCreateLeads, DeployStartLeads, DeployAddLeads, DeployCommitLeads,
     DeployRegisterLeads, DeployAbortLeads DEF DeployStep

LEMMA DeleteStepLeads ==
  ASSUME TypeOK, IInv, HInv, RInv, VInv, "destroy" \notin Faults, NEW t \in Deleters,
         DeleteRequest(t) \/ DeleteStep(t)
  PROVE  VInv'
<1>1. t \in Threads
  BY Distinct
<1>2. CASE DeleteRequest(t)
  <2>1. \E v : Goto(t, "deleteLock", v)
    BY <1>2 DEF DeleteRequest
  <2>2. /\ pc[t] = "idle"
        /\ UNCHANGED <<functionHandlers, routingTable, handler, deployed>>
    BY <1>2 DEF DeleteRequest, At, tables, runtime
  <2> QED BY <1>1, <2>1, <2>2, GotoWent, FreeStepLeads DEF FreeLabels
<1>3. CASE DeleteLock(t)
  <2>1. /\ pc[t] = "deleteLock"
        /\ UNCHANGED <<functionHandlers, routingTable, handler, deployed>>
    BY <1>3 DEF DeleteLock, At, tables, runtime
  <2>2. PICK f \in local[t].todo :
          NextDelete(t, f) \/ \E v : Goto(t, "deleteDestroy", v)
    BY <1>3 DEF DeleteLock
  <2>3. f \in Functions
    BY <1>1, LocalTyped DEF LocalType
  <2>4. CASE NextDelete(t, f)
    BY <1>1, <2>1, <2>3, <2>4, NextDeleteLeads, FreeStepLeads DEF FreeLabels
  <2>5. CASE \E v : Goto(t, "deleteDestroy", v)
    BY <1>1, <2>1, <2>5, GotoWent, FreeStepLeads DEF FreeLabels
  <2> QED BY <2>2, <2>4, <2>5
<1>4. ~DeleteFailed(t)
  BY DEF DeleteFailed, At, HInv, Locked
<1> QED BY <1>2, <1>3, <1>4, DeleteDestroyLeads, DeleteRouteLeads, DeleteFinishLeads
    DEF DeleteStep

LEMMA CallStepLeads ==
  ASSUME TypeOK, IInv, HInv, RInv, VInv, NEW t \in Callers, CallStep(t) \/ CallFinish(t)
  PROVE  VInv'
<1>1. t \in Threads
  BY Distinct
<1>2. CASE CallColdStart(t)
  BY <1>1, <1>2, ClaimLeads DEF CallColdStart, At
<1>3. CASE ~CallColdStart(t)
  <2>1. /\ pc[t] \in {"coldStart", "waitRoute", "begin", "http"}
        /\ UNCHANGED <<functionHandlers, routingTable, handler, deployed>>
    BY <1>3 DEF CallStep, CallFinish, CallColdStarted, CallWaitRoute, CallBegin,
       CallRefused, At, tables, runtime
  <2>2. Return(t) \/ \E label \in {"waitRoute", "begin", "http"} : \E v : Goto(t, label, v)
    BY <1>3 DEF CallStep, CallFinish, CallColdStarted, CallWaitRoute, CallBegin,
       CallRefused, Continue
  <2>3. \E label \in {"idle", "waitRoute", "begin", "http"} : \E v : Went(t, label, v)
    BY <1>1, <2>2, GotoWent, ReturnWent
  <2> QED BY <1>1, <2>1, <2>3, FreeStepLeads DEF FreeLabels
<1> QED BY <1>2, <1>3

LEMMA RequestLeads ==
  ASSUME TypeOK, IInv, HInv, RInv, VInv, Request
  PROVE  VInv'
<1>1. ASSUME NEW f \in Functions, NEW t \in Deployers \cup Callers,
             DeployLookup(t, f) \/ CallSnapshot(t, f)
      PROVE  VInv'
  <2>1. /\ \E label \in {"create", "begin", "coldStart"} : \E v : Goto(t, label, v)
        /\ pc[t] = "idle" /\ t \in Threads
        /\ UNCHANGED <<functionHandlers, routingTable, handler, deployed>>
    BY <1>1, Distinct DEF DeployLookup, CallSnapshot, At, tables, runtime
  <2> QED BY <2>1, GotoWent, FreeStepLeads DEF FreeLabels
<1>2. ASSUME NEW f \in Functions, NEW t \in Scalers, IdleScaleDown(t, f) \/ Prewarm(t, f)
      PROVE  VInv'
  BY <1>2, ClaimLeads, Distinct DEF IdleScaleDown, Prewarm, At
<1> QED BY <1>1, <1>2 DEF Request

LEMMA StepLeads ==
  ASSUME TypeOK, IInv, HInv, RInv, VInv, "stop" \notin Faults, "destroy" \notin Faults,
         [Next]_vars
  PROVE  VInv'
<1>1. CASE UNCHANGED vars
  BY <1>1 DEF vars, tables, runtime, VInv, Scales, Deploys, Leads, Leaving, Deleting, Runs,
     RT!HasRoute
<1> QED BY <1>1, RequestLeads, DeployStepLeads, DeleteStepLeads, CallStepLeads,
       ScaleStepLeads DEF Next

LEMMA InitLeads == Init => VInv
<1> SUFFICES ASSUME Init PROVE VInv
  OBVIOUS
<1>1. \A t \in Threads : pc[t] = "idle"
  BY DEF Init
<1>2. \A f \in Functions : Leads(f)
  BY DEF Init, RT!Init, RT!HasRoute, Leads
<1> QED BY <1>1, <1>2, Distinct DEF VInv, Scales, Deploys, HandlerLabels

\* A route that takes a function's requests leads to running containers of its
\* handler, whenever nobody is changing the function, as long as every function
\* is deployed once and stopping and removing a handler work: whatever order
\* deployments, scaling operations and deletes write the route in, and however
\* many starts fail.  (The run MCServer_RouteServed_Redeploy shows that a second
\* deployment breaks it.)
THEOREM RouteAlwaysServed ==
  ASSUME ~Redeploy, "stop" \notin Faults, "destroy" \notin Faults
  PROVE  Spec /\ []Alone => []RouteServed
<1> DEFINE Inv == TypeOK /\ IInv /\ HInv /\ RInv /\ VInv
<1>1. Init => Inv
  BY InitInv, InitKeeps, InitRoutes, InitLeads
<1>2. Inv /\ Alone /\ [Next]_vars => Inv'
  BY StepInv, StepKeeps, StepRoutes, StepLeads
<1>3. Inv => RouteServed
  <2> SUFFICES ASSUME TypeOK, IInv, VInv, NEW f \in DOMAIN routingTable,
                      routingTable[f].isActive, functionHandlers[f] # None, ~Busy(f)
               PROVE  Runs(functionHandlers[f], routingTable[f].ips)
    BY DEF RouteServed, Runs
  <2>1. f \in Functions /\ RT!HasRoute(f)
    BY DEF TypeOK, RT!TypeOK, RT!HasRoute
  <2>2. routingTable[f].ips # {}
    BY <2>1 DEF IInv, RoutesPickable
  <2>3. ~Leaving(f)
    BY Distinct DEF Leaving, Deleting, Busy, Threads
  <2> QED BY <2>1, <2>2, <2>3 DEF VInv, Leads
<1> QED BY <1>1, <1>2, <1>3, PTL DEF Spec

-----------------------------------------------------------------------------
(* What clients see of functions that are deployed once.                     *)

Leaves(f) == mux # None /\ local[mux].fn = f

\* Nobody needs to start f.
Available(f) ==
  functionHandlers[f] # None /\ ~Leaves(f) => handler[functionHandlers[f]].phase = "up"

\* Where a goroutine relies on its function being available.
Vouches(label, ok) ==
  \/ label \in {"downLookup", "downIPs", "downUpdate", "downStop", "upIPs", "upAdd",
                "register"}
  \/ label = "downDone" /\ ~ok
  \/ label = "upDone" /\ ok

Knows(label, v) ==
  /\ Vouches(label, v.ok) => Available(v.fn)
  /\ label \in {"downIPs", "downUpdate", "downStop"} => v.ok
  /\ label = "commit" => handler[v.new].phase = "up"

\* What the autoscaler takes for active is available.
AInv ==
  /\ \A t \in Threads : Knows(pc[t], local[t])
  /\ \A f \in Functions : AS!InState(f, "Active") => Available(f)

Unlisting == {"create", "start", "add", "commit", "abort"}

SeenSame == UNCHANGED <<Life, Requests>>

LEMMA LeavesKeep ==
  ASSUME TypeOK, NEW t \in Threads, NEW label, NEW v, Went(t, label, v), UNCHANGED mux,
         mux = t => v.fn = local[t].fn
  PROVE  \A f : Leaves(f)' <=> Leaves(f)
  BY Distinct DEF TypeOK, Leaves, Went

LEMMA VouchTyped ==
  ASSUME IInv, NEW t \in Threads, Vouches(pc[t], local[t].ok) \/ pc[t] = "commit"
  PROVE  local[t].fn \in Functions /\ (pc[t] = "commit" => t \in Deployers)
  BY Distinct DEF IInv, Operands, Operand, Roles, Role, Vouches, ScaleLabels, MuxLabels,
     UpLabels, Threads

LEMMA KnowsKept ==
  ASSUME TypeOK, IInv, AInv, NEW t \in Threads, NEW label, NEW v, Went(t, label, v),
         Knows(label, v)',
         \A f \in Functions : autoscaler'[f].state = "Active" => Available(f)',
         \A u \in Threads, f \in Functions :
           u # t /\ Vouches(pc[u], local[u].ok) /\ local[u].fn = f => Available(f)',
         \A d \in Deployers : d # t /\ pc[d] = "commit" => handler'[local[d].new].phase = "up"
  PROVE  AInv'
<1>1. \A f \in Functions : AS!InState(f, "Active")' => Available(f)'
  BY DEF AS!InState
<1>2. ASSUME NEW u \in Threads
      PROVE  Knows(pc[u], local[u])'
  <2>1. CASE u = t
    BY <2>1 DEF Went, Knows, Available, Leaves
  <2>2. CASE u # t
    <3>1. pc'[u] = pc[u] /\ local'[u] = local[u] /\ Knows(pc[u], local[u])
      BY <2>2 DEF Went, AInv
    <3>2. Vouches(pc[u], local[u].ok) => Available(local[u].fn)'
      <4>1. CASE local[u].fn \in Functions
        <5>1. PICK f \in Functions : f = local[u].fn
          BY <4>1
        <5>2. Available(f)' <=> Available(local[u].fn)'
          BY <3>1, <5>1
        <5> QED BY <2>2, <5>1, <5>2
      <4> QED BY <4>1, VouchTyped
    <3>3. pc[u] = "commit" => handler'[local[u].new].phase = "up"
      BY <2>2, VouchTyped
    <3> QED BY <3>1, <3>2, <3>3 DEF Knows
  <2> QED BY <2>1, <2>2
<1> QED BY <1>1, <1>2 DEF AInv

LEMMA BeingKeep ==
  ASSUME TypeOK, NEW t \in Threads, NEW label, NEW v, Went(t, label, v), UNCHANGED deployed,
         t \in Deployers =>
           /\ label \in Unlisting <=> pc[t] \in Unlisting
           /\ label \in Unlisting => v.fn = local[t].fn
  PROVE  \A f : BeingDeployed(f)' <=> BeingDeployed(f)
  BY Distinct DEF BeingDeployed, Unlisting, Went

\* Whose entry does not change is seen as before.
LEMMA LifeKeeps ==
  ASSUME NEW f \in Functions, functionHandlers'[f] = functionHandlers[f],
         functionHandlers[f] = None => (BeingDeployed(f)' <=> BeingDeployed(f)),
         functionHandlers[f] # None => (Leaves(f)' <=> Leaves(f)),
         functionHandlers[f] # None /\ ~Leaves(f) =>
           (handler'[functionHandlers[f]].phase = "up"
              <=> handler[functionHandlers[f]].phase = "up")
  PROVE  Life'[f] = Life[f]
  BY DEF Life, Leaves

LEMMA LivesKeep ==
  ASSUME \A f \in Functions : Life'[f] = Life[f]
  PROVE  UNCHANGED Life
  BY DEF Life

LEMMA RequestsKeep ==
  ASSUME NEW t \in Threads, NEW label, NEW v, Went(t, label, v),
         label # "http", pc[t] # "http"
  PROVE  UNCHANGED Requests
  BY Distinct DEF Requests, Went, At

\* A step that changes no listing, and no handler that is listed or about to be.
LEMMA StepServes ==
  ASSUME TypeOK, IInv, AInv, NEW t \in Threads, NEW label, NEW v, Went(t, label, v),
         UNCHANGED <<functionHandlers, mux>>, mux = t => v.fn = local[t].fn,
         \A f \in Functions : functionHandlers[f] # None /\ ~Leaves(f) =>
           handler'[functionHandlers[f]] = handler[functionHandlers[f]],
         \A d \in Deployers : d # t /\ pc[d] = "commit" =>
           handler'[local[d].new] = handler[local[d].new],
         \A f \in Functions : autoscaler'[f].state = "Active" =>
           autoscaler[f].state = "Active" \/ Available(f),
         Knows(label, v)'
  PROVE  /\ AInv'
         /\ \A f \in Functions :
              (BeingDeployed(f)' <=> BeingDeployed(f)) => Life'[f] = Life[f]
<1>1. \A f : Leaves(f)' <=> Leaves(f)
  BY LeavesKeep
<1>2. \A f \in Functions : Available(f) => Available(f)'
  BY <1>1 DEF Available
<1>3. \A f \in Functions :
        (BeingDeployed(f)' <=> BeingDeployed(f)) => Life'[f] = Life[f]
  BY <1>1, LifeKeeps
<1>4. \A f \in Functions : autoscaler'[f].state = "Active" => Available(f)'
  BY <1>2 DEF AInv, AS!InState
<1>5. \A u \in Threads, f \in Functions :
        Vouches(pc[u], local[u].ok) /\ local[u].fn = f => Available(f)'
  BY <1>2 DEF AInv, Knows
<1>6. \A d \in Deployers : d # t /\ pc[d] = "commit" =>
        handler'[local[d].new].phase = "up"
  BY Distinct DEF AInv, Knows
<1> QED BY <1>3, <1>4, <1>5, <1>6, KnowsKept

\* A step that no client sees.
LEMMA QuietServes ==
  ASSUME TypeOK, IInv, AInv, NEW t \in Threads, NEW label, NEW v, Went(t, label, v),
         UNCHANGED <<functionHandlers, handler, mux>>, label # "http", pc[t] # "http",
         mux = t => v.fn = local[t].fn,
         \A f \in Functions : BeingDeployed(f)' <=> BeingDeployed(f),
         \A f \in Functions : autoscaler'[f].state = "Active" =>
           autoscaler[f].state = "Active" \/ Available(f),
         Knows(label, v)
  PROVE  SeenSame /\ AInv'
<1>1. Knows(label, v)'
  <2>1. \A f : Leaves(f)' <=> Leaves(f)
    BY LeavesKeep
  <2> QED BY <2>1 DEF Knows, Available
<1> QED BY <1>1, StepServes, LivesKeep, RequestsKeep DEF SeenSame

\* A scaling operation, claimed or under way, is not seen until it is done.
LEMMA ScalerServes ==
  ASSUME TypeOK, IInv, RInv, AInv, NEW t \in Threads, t \notin Deployers, t \notin Deleters,
         NEW label, NEW v, Went(t, label, v),
         UNCHANGED <<functionHandlers, handler, deployed, mux>>,
         label # "http", pc[t] # "http",
         \A f \in Functions : autoscaler'[f].state = "Active" =>
           autoscaler[f].state = "Active" \/ Available(f),
         Knows(label, v)
  PROVE  SeenSame /\ AInv'
<1>1. mux # t
  BY Distinct DEF TypeOK
<1> QED BY <1>1, BeingKeep, QuietServes

LEMMA ScalerIs ==
  ASSUME TypeOK, IInv, RInv, NEW t \in Threads, pc[t] \in ScaleLabels
  PROVE  t \notin Deployers /\ t \notin Deleters /\ local[t].fn \in Functions
  BY SoleScaler, Distinct DEF IInv, Roles, Role, ScaleLabels, MuxLabels

LEMMA LookupServes ==
  ASSUME TypeOK, IInv, RInv, AInv, NEW t \in Threads, DownLookup(t) \/ UpLookup(t)
  PROVE  SeenSame /\ AInv'
<1> DEFINE h == functionHandlers[local[t].fn]
           w == [local[t] EXCEPT !.h = h, !.ok = h # None]
<1>1. w.fn = local[t].fn /\ w.ok = (h # None)
  BY LocalTyped, Distinct DEF LocalType
<1>2. /\ \/ pc[t] = "downLookup" /\ Goto(t, IF h = None THEN "downDone" ELSE "downIPs", w)
         \/ pc[t] = "upLookup" /\ Goto(t, IF h = None THEN "upDone" ELSE "upRestart", w)
      /\ UNCHANGED <<functionHandlers, autoscaler, handler, deployed, mux>>
  BY DEF DownLookup, UpLookup, Lookup, At, runtime
<1>3. t \notin Deployers /\ t \notin Deleters
  BY <1>2, ScalerIs DEF ScaleLabels
<1>4. PICK v : v = w
  OBVIOUS
<1>5. v.fn = local[t].fn /\ v.ok = (functionHandlers[v.fn] # None)
  BY <1>1, <1>4
<1> HIDE DEF w
<1>6. Knows(pc[t], local[t])
  BY DEF AInv
<1>7. CASE pc[t] = "downLookup"
  <2>1. PICK label \in {"downDone", "downIPs"} :
          Went(t, label, v) /\ (label = "downDone" <=> h = None)
    BY <1>2, <1>4, <1>7, GotoWent
  <2>2. Knows(label, v)
    BY <1>5, <1>6, <1>7, <2>1 DEF Knows, Vouches, Available
  <2> QED BY <1>2, <1>3, <1>7, <2>1, <2>2, ScalerServes
<1>8. CASE pc[t] = "upLookup"
  <2>1. PICK label \in {"upDone", "upRestart"} :
          Went(t, label, v) /\ (label = "upDone" <=> h = None)
    BY <1>2, <1>4, <1>8, GotoWent
  <2>2. Knows(label, v)
    BY <1>5, <2>1 DEF Knows, Vouches, Available
  <2> QED BY <1>2, <1>3, <1>8, <2>1, <2>2, ScalerServes
<1> QED BY <1>2, <1>7, <1>8

LEMMA IPsServe ==
  ASSUME TypeOK, IInv, RInv, AInv, NEW t \in Threads, DownIPs(t) \/ UpIPs(t)
  PROVE  SeenSame /\ AInv'
<1> DEFINE w == [local[t] EXCEPT !.ips = handler[local[t].h].ips]
<1>1. w.fn = local[t].fn /\ w.ok = local[t].ok
  BY LocalTyped, Distinct DEF LocalType
<1>2. /\ \/ pc[t] = "downIPs" /\ Goto(t, "downUpdate", w)
         \/ pc[t] = "upIPs" /\ Goto(t, "upAdd", w)
      /\ UNCHANGED <<functionHandlers, autoscaler, handler, deployed, mux>>
  BY DEF DownIPs, UpIPs, At, runtime
<1>3. t \notin Deployers /\ t \notin Deleters
  BY <1>2, ScalerIs DEF ScaleLabels
<1>4. PICK v : v = w
  OBVIOUS
<1> HIDE DEF w
<1>5. PICK label \in {"downUpdate", "upAdd"} :
        /\ Went(t, label, v)
        /\ pc[t] = IF label = "upAdd" THEN "upIPs" ELSE "downIPs"
  BY <1>2, <1>4, GotoWent
<1>6. Knows(label, v)
  BY <1>1, <1>4, <1>5 DEF AInv, Knows, Vouches
<1> QED BY <1>2, <1>3, <1>5, <1>6, ScalerServes

LEMMA DownUpdateServes ==
  ASSUME TypeOK, IInv, RInv, AInv, NEW t \in Threads, DownUpdate(t)
  PROVE  SeenSame /\ AInv'
<1>1. /\ pc[t] = "downUpdate" /\ Continue(t, "downStop")
      /\ UNCHANGED <<functionHandlers, autoscaler, handler, deployed, mux>>
  BY DEF DownUpdate, At, runtime
<1>2. t \notin Deployers /\ t \notin Deleters
  BY <1>1, ScalerIs DEF ScaleLabels
<1>3. PICK v : v = local[t]
  OBVIOUS
<1>4. Went(t, "downStop", v)
  BY <1>1, <1>3, GotoWent DEF Continue
<1>5. Knows("downStop", v)
  BY <1>1, <1>3 DEF AInv, Knows, Vouches
<1> QED BY <1>1, <1>2, <1>4, <1>5, ScalerServes

LEMMA UpAddServes ==
  ASSUME TypeOK, IInv, RInv, AInv, NEW t \in Threads, UpAdd(t)
  PROVE  SeenSame /\ AInv'
<1> DEFINE w == [local[t] EXCEPT !.ok = RT!AddAccepts(local[t].ips), !.ips = {}]
<1>1. w.fn = local[t].fn
  BY LocalTyped, Distinct DEF LocalType
<1>2. /\ pc[t] = "upAdd" /\ Goto(t, "upDone", w)
      /\ UNCHANGED <<functionHandlers, autoscaler, handler, deployed, mux>>
  BY DEF UpAdd, At, runtime
<1>3. t \notin Deployers /\ t \notin Deleters
  BY <1>2, ScalerIs DEF ScaleLabels
<1>4. PICK v : v = w
  OBVIOUS
<1> HIDE DEF w
<1>5. Went(t, "upDone", v)
  BY <1>2, <1>4, GotoWent
<1>6. Knows("upDone", v)
  BY <1>1, <1>2, <1>4 DEF AInv, Knows, Vouches
<1> QED BY <1>2, <1>3, <1>5, <1>6, ScalerServes

\* A function is settled as active when its goroutine knows it available.
LEMMA ScaleDoneServes ==
  ASSUME TypeOK, IInv, RInv, AInv, NEW t \in Threads, ScaleDone(t)
  PROVE  SeenSame /\ AInv'
<1> DEFINE v == [local[t] EXCEPT !.h = None, !.ips = {}, !.entry = None, !.ok = TRUE]
<1>1. /\ \/ pc[t] = "downDone" /\ AS!Settle(local[t].fn, local[t].entry, ~local[t].ok)
         \/ pc[t] = "upDone" /\ AS!Settle(local[t].fn, local[t].entry, local[t].ok)
      /\ Resume(t) /\ UNCHANGED <<functionHandlers, handler, deployed, mux>>
  BY DEF ScaleDone, At, runtime
<1>2. t \notin Deployers /\ t \notin Deleters /\ local[t].fn \in Functions
  BY <1>1, ScalerIs DEF ScaleLabels
<1>3. Return(t) \/ Goto(t, "waitRoute", v)
  BY <1>1, <1>2 DEF Resume
<1> HIDE DEF v
<1>4. PICK label \in {"idle", "waitRoute"} : \E u : Went(t, label, u)
  BY <1>3, GotoWent, ReturnWent
<1>5. PICK u : Went(t, label, u)
  BY <1>4
<1>6. Knows(label, u)
  BY DEF Knows, Vouches
<1>7. PICK active \in BOOLEAN :
        /\ AS!Settle(local[t].fn, local[t].entry, active)
        /\ active => Available(local[t].fn)
  <2>1. local[t].ok \in BOOLEAN
    BY LocalTyped DEF LocalType
  <2>2. Knows(pc[t], local[t])
    BY DEF AInv
  <2> QED BY <1>1, <2>1, <2>2 DEF Knows, Vouches
<1>8. \A f \in Functions : autoscaler'[f].state = "Active" =>
        autoscaler[f].state = "Active" \/ Available(f)
  BY <1>2, <1>7 DEF AS!Settle, TypeOK, AS!TypeOK, AS!Unregistered
<1> QED BY <1>1, <1>2, <1>5, <1>6, <1>8, ScalerServes

\* A step that changes how f is seen, and nothing else.
Turns(f, from, to) ==
  /\ Life[f] \in from /\ Life'[f] = to
  /\ \A g \in Functions : g # f => Life'[g] = Life[g]
  /\ UNCHANGED Requests

LEMMA TurnsBecomes ==
  ASSUME NEW f \in Functions, NEW from, NEW to, Turns(f, from, to)
  PROVE  Service!Becomes(f, from, to)
<1>1. DOMAIN Life = Functions /\ Life = [g \in Functions |-> Life[g]]
  BY DEF Life
<1>2. Life' = [g \in Functions |-> Life'[g]]
  BY DEF Life
<1>3. Life' = [Life EXCEPT ![f] = to]
  BY <1>1, <1>2 DEF Turns
<1> QED BY <1>3 DEF Turns, Service!Becomes

\* Whoever scales a function is the only one that may find it available.
LEMMA SoleVoucher ==
  ASSUME TypeOK, IInv, RInv, NEW t \in Threads, pc[t] \in ScaleLabels
  PROVE  /\ autoscaler[local[t].fn].state # "Active"
         /\ \A u \in Threads : u # t /\ Vouches(pc[u], local[u].ok) =>
              local[u].fn # local[t].fn
<1> DEFINE f == local[t].fn
           e == local[t].entry
<1>1. f \in Functions /\ e \in Handlers /\ deployed[e] = f
  BY DEF IInv, Operands, Operand, RInv, Places, Place
<1>2. autoscaler[f].state # "Active"
  <2> SUFFICES ASSUME autoscaler[f].state = "Active" PROVE FALSE
    OBVIOUS
  <2>1. autoscaler[f].entry \in Handlers
    BY <1>1, EntryTyped DEF AS!Unregistered
  <2>2. autoscaler[f].entry = e
    BY <1>1, <2>1, Distinct DEF RInv, Names, Once
  <2>3. AS!Scaling(f)
    BY <1>1, <2>2 DEF IInv, Claims
  <2> QED BY <2>3 DEF AS!Scaling, AS!InState
<1>3. ASSUME NEW u \in Threads, u # t, Vouches(pc[u], local[u].ok), local[u].fn = f
      PROVE  FALSE
  <2>1. CASE pc[u] \in ScaleLabels
    <3>1. local[u].entry \in Handlers /\ deployed[local[u].entry] = f
      BY <1>3, <2>1 DEF IInv, Operands, Operand, RInv, Places, Place
    <3>2. local[u].entry = e
      BY <1>1, <3>1, Distinct DEF RInv, Once
    <3> QED BY <1>1, <1>3, <2>1, <3>2 DEF IInv, Claims
  <2>2. CASE pc[u] = "register"
    <3>1. u \in Deployers
      BY <2>2, Distinct DEF IInv, Roles, Role, ScaleLabels, MuxLabels, UpLabels, Threads
    <3>2. local[u].new \in Handlers /\ deployed[local[u].new] = f /\ Holding(u)
      BY <1>3, <2>2, <3>1
      DEF IInv, Operands, Operand, RInv, Places, Place, Holding, Preparing
    <3>3. local[u].new = e
      BY <1>1, <3>2, Distinct DEF RInv, Once
    <3> QED BY <3>1, <3>2, <3>3 DEF IInv, Fresh
  <2> QED BY <1>3, <2>1, <2>2 DEF Vouches, ScaleLabels
<1> QED BY <1>2, <1>3

\* What a scaling operation does to its handler is seen of its function only.
LEMMA RuntimeSeen ==
  ASSUME TypeOK, IInv, RInv, VInv, AInv, NEW t \in Threads,
         pc[t] \in {"downStop", "upRestart"}, NEW label, NEW v, Went(t, label, v),
         UNCHANGED <<functionHandlers, autoscaler, deployed, mux>>,
         \A g \in Handlers : g # local[t].h => handler'[g] = handler[g],
         label # "http", v.fn = local[t].fn, Knows(label, v)'
  PROVE  /\ UNCHANGED Requests /\ AInv'
         /\ \A f \in Functions : f # local[t].fn => Life'[f] = Life[f]
         /\ \A f : Leaves(f)' <=> Leaves(f)
<1> DEFINE f == local[t].fn
           h == local[t].h
<1>1. pc[t] \in HandlerLabels /\ pc[t] \in ScaleLabels /\ pc[t] # "http"
  BY DEF HandlerLabels, ScaleLabels
<1>2. f \in Functions /\ t \notin Deployers /\ mux # t
  BY <1>1, ScalerIs, Distinct DEF TypeOK
<1>3. \A g \in Functions : g # f => functionHandlers[g] # h
  BY <1>1, ScalerAlone
<1>4. \A d \in Deployers : pc[d] = "commit" => local[d].new # h /\ local[d].new \in Handlers
  BY <1>1, ScalerAlone DEF IInv, Operands, Operand, Threads
<1>5. \A g : Leaves(g)' <=> Leaves(g)
  BY <1>2, LeavesKeep
<1>6. \A g : BeingDeployed(g)' <=> BeingDeployed(g)
  BY <1>2, BeingKeep
<1>7. ASSUME NEW g \in Functions, g # f
      PROVE  Life'[g] = Life[g] /\ (Available(g) => Available(g)')
  <2>1. functionHandlers[g] # None =>
          handler'[functionHandlers[g]] = handler[functionHandlers[g]]
    BY <1>3, <1>7 DEF TypeOK
  <2>2. Life'[g] = Life[g]
    BY <1>5, <1>6, <2>1, LifeKeeps
  <2>3. Available(g) => Available(g)'
    BY <1>5, <2>1 DEF Available
  <2> QED BY <2>2, <2>3
<1>8. UNCHANGED Requests
  BY <1>1, RequestsKeep
<1>9. AInv'
  <2>1. \A g \in Functions : autoscaler'[g].state = "Active" => Available(g)'
    BY <1>1, <1>7, SoleVoucher DEF AInv, AS!InState
  <2>2. \A u \in Threads, g \in Functions :
          u # t /\ Vouches(pc[u], local[u].ok) /\ local[u].fn = g => Available(g)'
    BY <1>1, <1>7, SoleVoucher DEF AInv, Knows
  <2>3. \A d \in Deployers : d # t /\ pc[d] = "commit" =>
          handler'[local[d].new].phase = "up"
    BY <1>4, Distinct DEF AInv, Knows
  <2> QED BY <2>1, <2>2, <2>3, KnowsKept
<1> QED BY <1>5, <1>7, <1>8, <1>9

Seen == [Service!Next]_<<Life, Requests>>

LEMMA DownStopServes ==
  ASSUME TypeOK, IInv, RInv, SInv, VInv, AInv, "stop" \notin Faults,
         NEW t \in Threads, DownStop(t)
  PROVE  Seen /\ AInv'
<1>1. /\ pc[t] = "downStop" /\ UNCHANGED <<functionHandlers, autoscaler, mux>>
      /\ StopHandler(local[t].h, t, "downDone", local[t],
                     "downRestore", [local[t] EXCEPT !.ok = FALSE])
  BY DEF DownStop, At
<1>2. /\ local[t].fn \in Functions /\ local[t].h \in Handlers
      /\ functionHandlers[local[t].fn] \in {None, local[t].h}
  BY <1>1, ScalerAlone DEF HandlerLabels
<1>3. PICK f \in Functions, h \in Handlers, v \in LocalType :
        f = local[t].fn /\ h = local[t].h /\ v = local[t]
  BY <1>2, LocalTyped
<1>4. /\ UNCHANGED deployed /\ \A g \in Handlers : g # h => handler'[g] = handler[g]
      /\ Went(t, "downDone", v) /\ handler'[h].phase # "up"
  <2> DEFINE results == StopResults(handler[h])
  <2>1. Perform("stop", h, results, t, "downDone", v, "downRestore",
                [v EXCEPT !.ok = FALSE])
    BY <1>1, <1>3 DEF StopHandler
  <2>2. \A r \in results : r.state.phase # "up"
    BY StopSpares
  <2>3. \E r \in results : r.ok
    BY StopSucceeds
  <2> HIDE DEF results
  <2> QED BY <2>1, <2>2, <2>3, PerformWent
<1>5. Available(f) /\ v.ok
  BY <1>1, <1>3 DEF AInv, Knows, Vouches
<1>6. Knows("downDone", v)'
  BY <1>5 DEF Knows, Vouches
<1>7. /\ UNCHANGED Requests /\ AInv'
      /\ \A g \in Functions : g # f => Life'[g] = Life[g]
      /\ \A g : Leaves(g)' <=> Leaves(g)
  BY <1>1, <1>3, <1>4, <1>6, RuntimeSeen
<1>8. Seen
  <2>1. CASE functionHandlers[f] = h /\ ~Leaves(f)
    <3>1. Life[f] = "up" /\ Life'[f] = "down"
      BY <1>1, <1>4, <1>5, <1>7, <2>1, Distinct DEF Life, Available, Leaves
    <3>2. Service!Becomes(f, {"up"}, "down")
      BY <1>7, <3>1, TurnsBecomes DEF Turns
    <3>3. Serving(f) = {}
      BY <1>1, <1>3 DEF SInv, Unserved, ScaleLabels
    <3>4. Service!InFlight(f) = {}
      BY <3>3, Distinct DEF Service!InFlight, Requests, Serving, At
    <3> QED BY <3>2, <3>4 DEF Seen, Service!Next, Service!ScaleDown
  <2>2. CASE functionHandlers[f] = None \/ Leaves(f)
    <3>1. \A g : BeingDeployed(g)' <=> BeingDeployed(g)
      BY <1>1, <1>4, BeingKeep, ScalerIs DEF ScaleLabels
    <3>2. Life'[f] = Life[f]
      BY <1>1, <1>7, <2>2, <3>1, LifeKeeps
    <3> QED BY <1>7, <3>2, LivesKeep DEF Seen
  <2> QED BY <1>2, <1>3, <2>1, <2>2
<1> QED BY <1>7, <1>8

LEMMA StartFails ==
  ASSUME NEW h, NEW r \in StartResults(handler[h], FreeIPs, replicas), ~r.ok
  PROVE  handler[h].phase # "up" /\ r.state.phase # "up"
  BY DEF StartResults, Outcome, WithRuntime

LEMMA UpRestartServes ==
  ASSUME TypeOK, IInv, RInv, SInv, VInv, AInv, NEW t \in Threads, UpRestart(t)
  PROVE  Seen /\ AInv'
<1> DEFINE e == [local[t] EXCEPT !.ok = FALSE]
<1>1. /\ pc[t] = "upRestart" /\ UNCHANGED <<functionHandlers, autoscaler, mux>>
      /\ StartHandler(local[t].h, t, "upIPs", local[t], "upDone", e)
  BY DEF UpRestart, At
<1>2. /\ local[t].fn \in Functions /\ local[t].h \in Handlers
      /\ functionHandlers[local[t].fn] \in {None, local[t].h}
  BY <1>1, ScalerAlone DEF HandlerLabels
<1>3. PICK f \in Functions, h \in Handlers, v \in LocalType :
        f = local[t].fn /\ h = local[t].h /\ v = local[t]
  BY <1>2, LocalTyped
<1>4. PICK w : w = e
  OBVIOUS
<1>5. w.fn = f /\ ~w.ok
  BY <1>3, <1>4, LocalTyped DEF LocalType
<1> HIDE DEF e
<1>6. /\ UNCHANGED deployed /\ \A g \in Handlers : g # h => handler'[g] = handler[g]
      /\ \/ Went(t, "upIPs", v) /\ handler'[h].phase = "up"
         \/ Went(t, "upDone", w) /\ handler'[h].phase # "up" /\ handler[h].phase # "up"
  <2> DEFINE results == StartResults(handler[h], FreeIPs, replicas)
  <2>1. Perform("start", h, results, t, "upIPs", v, "upDone", w)
    BY <1>1, <1>3, <1>4 DEF StartHandler
  <2>2. \A r \in results :
          IF r.ok THEN r.state.phase = "up"
          ELSE handler[h].phase # "up" /\ r.state.phase # "up"
    BY StartRuns, StartFails
  <2> HIDE DEF results
  <2> QED BY <2>1, <2>2, PerformWent
<1>7. PICK label \in {"upIPs", "upDone"}, u \in {v, w} :
        /\ Went(t, label, u)
        /\ label = "upIPs" => u = v /\ handler'[h].phase = "up"
        /\ label = "upDone" => u = w /\ handler'[h].phase # "up" /\ handler[h].phase # "up"
  BY <1>6
<1>8. Knows(label, u)'
  <2>1. CASE label = "upDone"
    BY <1>5, <1>7, <2>1 DEF Knows, Vouches
  <2>2. CASE label = "upIPs"
    <3>1. Available(f)'
      BY <1>1, <1>2, <1>3, <1>7, <2>2 DEF Available
    <3>2. Available(f)' <=> Available(v.fn)'
      BY <1>3
    <3> QED BY <1>7, <2>2, <3>1, <3>2 DEF Knows
  <2> QED BY <2>1, <2>2
<1>9. /\ UNCHANGED Requests /\ AInv'
      /\ \A g \in Functions : g # f => Life'[g] = Life[g]
      /\ \A g : Leaves(g)' <=> Leaves(g)
  BY <1>1, <1>3, <1>5, <1>6, <1>7, <1>8, RuntimeSeen
<1>10. \A g : BeingDeployed(g)' <=> BeingDeployed(g)
  BY <1>1, <1>6, <1>7, BeingKeep, ScalerIs DEF ScaleLabels
<1>11. Seen
  <2>1. CASE functionHandlers[f] = h /\ ~Leaves(f) /\ handler[h].phase # "up"
                /\ handler'[h].phase = "up"
    <3>1. Life[f] = "down" /\ Life'[f] = "up"
      BY <1>1, <1>9, <2>1, Distinct DEF Life, Leaves
    <3>2. Service!Becomes(f, {"down"}, "up")
      BY <1>9, <3>1, TurnsBecomes DEF Turns
    <3> QED BY <3>2 DEF Seen, Service!Next, Service!ScaleUp
  <2>2. CASE functionHandlers[f] = None \/ Leaves(f)
                \/ (handler[h].phase = "up" <=> handler'[h].phase = "up")
    <3>1. Life'[f] = Life[f]
      BY <1>1, <1>2, <1>3, <1>9, <1>10, <2>2, LifeKeeps
    <3> QED BY <1>9, <3>1, LivesKeep DEF Seen
  <2> QED BY <1>2, <1>3, <1>7, <2>1, <2>2
<1> QED BY <1>9, <1>11

LEMMA DeployLookupServes ==
  ASSUME TypeOK, IInv, AInv, ~Redeploy, NEW t \in Deployers, NEW f \in Functions,
         DeployLookup(t, f)
  PROVE  SeenSame /\ AInv'
<1> DEFINE w == [Reset EXCEPT !.fn = f, !.old = functionHandlers[f]]
<1>1. /\ pc[t] = "idle" /\ t \in Threads /\ Goto(t, "create", w)
      /\ \A h \in Handlers : deployed[h] # f
      /\ UNCHANGED <<functionHandlers, autoscaler, handler, deployed, mux>>
  BY Distinct DEF DeployLookup, At, runtime
<1>2. PICK v : v = w
  OBVIOUS
<1>3. v.fn = f
  BY <1>2 DEF Reset
<1> HIDE DEF w
<1>4. Went(t, "create", v)
  BY <1>1, <1>2, GotoWent
<1>5. \A g \in Functions : BeingDeployed(g)' <=> BeingDeployed(g)
  BY <1>1, <1>3, <1>4, Distinct DEF BeingDeployed, Went
<1>6. Knows("create", v) /\ mux # t
  BY Distinct DEF Knows, Vouches, TypeOK
<1> QED BY <1>1, <1>4, <1>5, <1>6, QuietServes

LEMMA DeployCreateServes ==
  ASSUME TypeOK, IInv, HInv, RInv, AInv, NEW t \in Deployers, DeployCreate(t)
  PROVE  SeenSame /\ AInv'
<1> DEFINE w(h) == [local[t] EXCEPT !.new = h]
<1>1. PICK h \in Handlers :
        /\ deployed[h] = None
        /\ deployed' = [deployed EXCEPT ![h] = local[t].fn]
        /\ handler' = [handler EXCEPT ![h] = Created]
        /\ Goto(t, IF local[t].old # None /\ AutoscalerEnabled THEN "drain" ELSE "start",
                w(h))
  BY DEF DeployCreate
<1>2. /\ pc[t] = "create" /\ t \in Threads
      /\ UNCHANGED <<functionHandlers, autoscaler, mux>>
  BY Distinct DEF DeployCreate, At
<1>3. PICK v : v = w(h)
  OBVIOUS
<1>4. v.fn = local[t].fn /\ local[t].fn \in Functions
  BY <1>2, <1>3, LocalTyped DEF LocalType, IInv, Operands, Operand
<1> HIDE DEF w
<1>5. Went(t, "start", v)
  <2>1. local[t].old = None
    BY <1>2 DEF RInv, Places, Place
  <2> QED BY <1>1, <1>2, <1>3, <2>1, GotoWent
<1>6. /\ \A g \in Handlers : g # h => handler'[g] = handler[g] /\ deployed'[g] = deployed[g]
      /\ deployed'[h] = local[t].fn
  BY <1>1 DEF TypeOK
<1>7. \A f \in Functions : functionHandlers[f] # None =>
        handler'[functionHandlers[f]] = handler[functionHandlers[f]]
  BY <1>1, <1>6, Distinct DEF RInv, Names, TypeOK
<1>8. \A d \in Deployers : pc[d] = "commit" =>
        handler'[local[d].new] = handler[local[d].new]
  BY <1>1, <1>6, DeployerAlone, Distinct
<1>9. \A f \in Functions : BeingDeployed(f)' <=> BeingDeployed(f)
  BY <1>1, <1>2, <1>4, <1>5, <1>6, Distinct DEF BeingDeployed, Went
<1>10. Knows("start", v)' /\ mux # t
  BY Distinct DEF Knows, Vouches, TypeOK
<1> QED BY <1>2, <1>5, <1>7, <1>8, <1>9, <1>10, StepServes, RequestsKeep, LivesKeep
     DEF SeenSame

\* What happens to a handler that is not listed yet is not seen.
LEMMA NewUnseen ==
  ASSUME TypeOK, IInv, HInv, RInv, NEW t \in Deployers,
         pc[t] \in {"start", "add", "commit", "abort"},
         \A g \in Handlers : g # local[t].new => handler'[g] = handler[g]
  PROVE  /\ \A f \in Functions : functionHandlers[f] # None =>
              handler'[functionHandlers[f]] = handler[functionHandlers[f]]
         /\ \A d \in Deployers : d # t /\ pc[d] = "commit" =>
              handler'[local[d].new] = handler[local[d].new]
<1>1. \A f \in Functions : functionHandlers[f] # local[t].new
  BY DeployerAlone
<1>2. \A d \in Deployers : d # t /\ pc[d] = "commit" =>
        local[d].new # local[t].new /\ local[d].new \in Handlers
  BY DeployerAlone
<1> QED BY <1>1, <1>2 DEF TypeOK

LEMMA DeployStartServes ==
  ASSUME TypeOK, IInv, HInv, RInv, AInv, NEW t \in Deployers, DeployStart(t)
  PROVE  SeenSame /\ AInv'
<1>1. /\ pc[t] = "start" /\ UNCHANGED <<functionHandlers, autoscaler, mux>>
      /\ StartHandler(local[t].new, t, "add", local[t], "abort", local[t])
  BY DEF DeployStart, At
<1>2. t \in Threads /\ local[t].new \in Handlers
  BY <1>1, DeployerAlone
<1>3. PICK v \in LocalType : v = local[t]
  BY <1>2, LocalTyped
<1>4. /\ UNCHANGED deployed
      /\ \A g \in Handlers : g # local[t].new => handler'[g] = handler[g]
      /\ \E label \in {"add", "abort"} : Went(t, label, v)
  <2> DEFINE results == StartResults(handler[local[t].new], FreeIPs, replicas)
  <2>1. Perform("start", local[t].new, results, t, "add", v, "abort", v)
    BY <1>1, <1>3 DEF StartHandler
  <2> HIDE DEF results
  <2> QED BY <1>2, <2>1, PerformWent
<1>5. PICK label \in {"add", "abort"} : Went(t, label, v)
  BY <1>4
<1>6. \A f : BeingDeployed(f)' <=> BeingDeployed(f)
  BY <1>1, <1>2, <1>3, <1>4, <1>5, BeingKeep DEF Unlisting
<1>7. Knows(label, v)' /\ mux # t
  BY Distinct DEF Knows, Vouches, TypeOK
<1> QED BY <1>1, <1>2, <1>4, <1>5, <1>6, <1>7, NewUnseen, StepServes, RequestsKeep,
       LivesKeep DEF SeenSame

LEMMA DeployAddServes ==
  ASSUME TypeOK, IInv, HInv, RInv, VInv, AInv, NEW t \in Deployers, DeployAdd(t)
  PROVE  SeenSame /\ AInv'
<1>1. /\ pc[t] = "add" /\ \E label \in {"commit", "abort"} : Continue(t, label)
      /\ UNCHANGED <<functionHandlers, autoscaler, handler, deployed, mux>>
  BY DEF DeployAdd, At, runtime
<1>2. t \in Threads
  BY Distinct
<1>3. PICK v \in LocalType : v = local[t]
  BY <1>2, LocalTyped
<1>4. PICK label \in {"commit", "abort"} : Went(t, label, v)
  BY <1>1, <1>2, <1>3, GotoWent DEF Continue
<1>5. \A f : BeingDeployed(f)' <=> BeingDeployed(f)
  BY <1>1, <1>2, <1>3, <1>4, BeingKeep DEF Unlisting
<1>6. Knows(label, v) /\ mux # t
  BY <1>1, <1>3, Distinct DEF Knows, Vouches, TypeOK, VInv, Deploys
<1> QED BY <1>1, <1>2, <1>4, <1>5, <1>6, QuietServes

LEMMA DeployRegisterServes ==
  ASSUME TypeOK, IInv, RInv, AInv, NEW t \in Deployers, DeployRegister(t)
  PROVE  SeenSame /\ AInv'
<1>1. /\ pc[t] = "register" /\ t \in Threads
      /\ UNCHANGED <<functionHandlers, handler, deployed, mux>>
      /\ IF local[t].old = None THEN Return(t) ELSE Continue(t, "destroyOld")
      /\ AS!RegisterFunction(local[t].fn, local[t].new) \/ UNCHANGED autoscaler
  BY Distinct DEF DeployRegister, At, runtime
<1>2. local[t].old = None
  BY <1>1 DEF RInv, Places, Place
<1>3. Went(t, "idle", Reset)
  BY <1>1, <1>2, ReturnWent
<1>4. Available(local[t].fn)
  BY <1>1 DEF AInv, Knows, Vouches
<1>5. \A f \in Functions : autoscaler'[f].state = "Active" =>
        autoscaler[f].state = "Active" \/ Available(f)
  BY <1>1, <1>4 DEF AS!RegisterFunction, TypeOK, AS!TypeOK
<1>6. \A f : BeingDeployed(f)' <=> BeingDeployed(f)
  BY <1>1, <1>3, BeingKeep DEF Unlisting
<1>7. Knows("idle", Reset) /\ mux # t
  BY Distinct DEF Knows, Vouches, TypeOK
<1> QED BY <1>1, <1>3, <1>5, <1>6, <1>7, QuietServes

LEMMA DeployCommitServes ==
  ASSUME TypeOK, IInv, HInv, RInv, AInv, NEW t \in Deployers, DeployCommit(t)
  PROVE  Seen /\ AInv'
<1>1. /\ pc[t] = "commit" /\ mux = None /\ UNCHANGED <<autoscaler, handler, deployed, mux>>
      /\ functionHandlers' = [functionHandlers EXCEPT ![local[t].fn] = local[t].new]
      /\ Continue(t, "register")
  BY DEF DeployCommit, MuxFree, At, runtime
<1>2. /\ t \in Threads /\ local[t].fn \in Functions /\ local[t].new \in Handlers
      /\ functionHandlers[local[t].fn] = None
  BY <1>1, DeployerAlone
<1>3. PICK f \in Functions, n \in Handlers, v \in LocalType :
        f = local[t].fn /\ n = local[t].new /\ v = local[t]
  BY <1>2, LocalTyped
<1>4. Went(t, "register", v)
  BY <1>1, <1>2, <1>3, GotoWent DEF Continue
<1>5. \A g \in Functions :
        functionHandlers'[g] = IF g = f THEN n ELSE functionHandlers[g]
  BY <1>1, <1>3 DEF TypeOK
<1>6. handler[n].phase = "up"
  BY <1>1, <1>2, <1>3 DEF AInv, Knows
<1>7. \A g : ~Leaves(g) /\ ~Leaves(g)'
  BY <1>1 DEF Leaves
<1>8. ASSUME NEW g \in Functions, g # f
      PROVE  Life'[g] = Life[g]
  <2>1. BeingDeployed(g)' <=> BeingDeployed(g)
    BY <1>1, <1>2, <1>3, <1>4, <1>8, Distinct DEF BeingDeployed, Went
  <2> QED BY <1>1, <1>5, <1>7, <1>8, <2>1, LifeKeeps
<1>9. Life[f] = "absent" /\ Life'[f] = "up"
  <2>1. BeingDeployed(f)
    BY <1>1, <1>3 DEF BeingDeployed
  <2> QED BY <1>1, <1>2, <1>3, <1>5, <1>6, <1>7, <2>1, Distinct DEF Life, Leaves
<1>10. Seen
  <2>1. UNCHANGED Requests
    BY <1>1, <1>2, <1>4, RequestsKeep
  <2>2. Service!Becomes(f, {"absent"}, "up")
    BY <1>8, <1>9, <2>1, TurnsBecomes DEF Turns
  <2> QED BY <2>2 DEF Seen, Service!Next, Service!Deploy
<1>11. AInv'
  <2>1. \A g \in Functions : Available(g) => Available(g)'
    BY <1>1, <1>5, <1>6, <1>7 DEF Available
  <2>2. Available(f)'
    BY <1>1, <1>5, <1>6 DEF Available
  <2>3. Available(f)' <=> Available(v.fn)'
    BY <1>3
  <2>4. Knows("register", v)'
    BY <2>2, <2>3 DEF Knows
  <2>5. \A g \in Functions : autoscaler'[g].state = "Active" => Available(g)'
    BY <1>1, <2>1 DEF AInv, AS!InState
  <2>6. \A u \in Threads, g \in Functions :
          Vouches(pc[u], local[u].ok) /\ local[u].fn = g => Available(g)'
    BY <2>1 DEF AInv, Knows
  <2>7. \A d \in Deployers : pc[d] = "commit" => handler'[local[d].new].phase = "up"
    BY <1>1, Distinct DEF AInv, Knows
  <2> QED BY <1>2, <1>4, <2>4, <2>5, <2>6, <2>7, KnowsKept
<1> QED BY <1>10, <1>11

\* A deployment that fails leaves nothing that could come up later.
LEMMA DeployAbortServes ==
  ASSUME TypeOK, IInv, HInv, RInv, AInv, Alone, "destroy" \notin Faults,
         NEW t \in Deployers, DeployAbort(t)
  PROVE  Seen /\ AInv'
<1>1. /\ pc[t] = "abort" /\ UNCHANGED <<functionHandlers, autoscaler, mux>>
      /\ DestroyHandler(local[t].new, t, "idle", Reset, "idle", Reset)
  BY DEF DeployAbort, At
<1>2. /\ t \in Threads /\ local[t].fn \in Functions /\ local[t].new \in Handlers
      /\ functionHandlers[local[t].fn] = None /\ deployed[local[t].new] = local[t].fn
  BY <1>1, DeployerAlone
<1>3. PICK f \in Functions : f = local[t].fn
  BY <1>2
<1>4. /\ UNCHANGED deployed
      /\ \A g \in Handlers : g # local[t].new => handler'[g] = handler[g]
      /\ Went(t, "idle", Reset)
  BY <1>1, <1>2, DestroyHandlerWent DEF Destroyed
<1>5. \A g \in Functions : g # f => (BeingDeployed(g)' <=> BeingDeployed(g))
  BY <1>3, <1>4, Distinct DEF BeingDeployed, Went
<1>6. Knows("idle", Reset)' /\ mux # t
  BY Distinct DEF Knows, Vouches, TypeOK
<1>7. /\ AInv'
      /\ \A g \in Functions : g # f => Life'[g] = Life[g]
  BY <1>1, <1>2, <1>4, <1>5, <1>6, NewUnseen, StepServes
<1>8. Life[f] = "absent"
  <2>1. BeingDeployed(f)
    BY <1>1, <1>3 DEF BeingDeployed
  <2> QED BY <1>2, <1>3, <2>1 DEF Life
<1>9. Life'[f] = "gone"
  <2>1. ~BeingDeployed(f)'
    BY <1>1, <1>2, <1>3, <1>4, Distinct DEF BeingDeployed, Went, Alone
  <2> QED BY <1>1, <1>2, <1>3, <2>1 DEF Life
<1>10. UNCHANGED Requests
  BY <1>1, <1>2, <1>4, RequestsKeep
<1>11. Service!Becomes(f, {"absent"}, "gone")
  BY <1>7, <1>8, <1>9, <1>10, TurnsBecomes DEF Turns
<1> QED BY <1>7, <1>11 DEF Seen, Service!Next, Service!GiveUp

\* A deleter with mux in hand is at work on what leaves.
LEMMA HolderLeaves ==
  ASSUME TypeOK, IInv, HInv, RInv, NEW t \in Deleters, pc[t] \in MuxLabels
  PROVE  /\ t \in Threads /\ mux = t /\ Leaves(local[t].fn)
         /\ local[t].fn \in Functions /\ local[t].h \in Handlers
         /\ functionHandlers[local[t].fn] = local[t].h
         /\ deployed[local[t].h] = local[t].fn
<1>1. /\ t \in Threads /\ mux = t
      /\ local[t].fn \in Functions /\ local[t].h \in Handlers
      /\ functionHandlers[local[t].fn] = local[t].h
  BY Distinct DEF HInv, Locked, IInv, Operands, Operand
<1>2. deployed[local[t].h] = local[t].fn
  BY <1>1, Distinct DEF RInv, Names
<1> QED BY <1>1, <1>2, Distinct DEF Leaves

LEMMA DeleteRequestServes ==
  ASSUME TypeOK, IInv, AInv, NEW t \in Deleters, DeleteRequest(t)
  PROVE  SeenSame /\ AInv'
<1>1. /\ pc[t] = "idle" /\ t \in Threads /\ t \notin Deployers /\ mux = None
      /\ \E v : Goto(t, "deleteLock", v)
      /\ UNCHANGED <<functionHandlers, autoscaler, handler, deployed, mux>>
  BY Distinct DEF DeleteRequest, MuxFree, At, runtime
<1>2. PICK v : Went(t, "deleteLock", v)
  BY <1>1, GotoWent
<1>3. Knows("deleteLock", v) /\ mux # t
  BY <1>1, Distinct DEF Knows, Vouches
<1> QED BY <1>1, <1>2, <1>3, BeingKeep, QuietServes

LEMMA DeleteLockServes ==
  ASSUME TypeOK, IInv, RInv, AInv, NEW t \in Deleters, DeleteLock(t)
  PROVE  Seen /\ AInv'
<1>1. /\ pc[t] = "deleteLock" /\ t \in Threads /\ t \notin Deployers /\ mux = None
      /\ UNCHANGED <<functionHandlers, autoscaler, handler, deployed>>
  BY Distinct DEF DeleteLock, MuxFree, At, runtime
<1>2. PICK f \in local[t].todo :
        IF functionHandlers[f] = None
          THEN NextDelete(t, f) /\ UNCHANGED mux
          ELSE /\ mux' = t
               /\ Goto(t, "deleteDestroy",
                       [local[t] EXCEPT !.fn = f, !.h = functionHandlers[f]])
  BY DEF DeleteLock
<1>3. f \in Functions
  BY <1>1, LocalTyped DEF LocalType
<1>4. CASE functionHandlers[f] = None
  <2>1. PICK label \in {"idle", "deleteLock"} : \E v : Went(t, label, v)
    BY <1>2, <1>3, <1>4, NextDeleteLeads
  <2>2. PICK v : Went(t, label, v)
    BY <2>1
  <2>3. Knows(label, v) /\ mux # t
    BY <1>1, Distinct DEF Knows, Vouches
  <2>4. SeenSame /\ AInv'
    BY <1>1, <1>2, <1>4, <2>2, <2>3, BeingKeep, QuietServes
  <2> QED BY <2>4 DEF Seen, SeenSame
<1>5. CASE functionHandlers[f] # None
  <2> DEFINE w == [local[t] EXCEPT !.fn = f, !.h = functionHandlers[f]]
  <2>1. w.fn = f
    BY <1>1, LocalTyped DEF LocalType
  <2>2. PICK v : v = w
    OBVIOUS
  <2>3. mux' = t /\ Went(t, "deleteDestroy", v)
    BY <1>1, <1>2, <1>5, <2>2, GotoWent
  <2> HIDE DEF w
  <2>4. \A g : ~Leaves(g) /\ (Leaves(g)' <=> g = f)
    BY <1>1, <2>1, <2>2, <2>3, Distinct DEF Leaves, Went
  <2>5. \A g : BeingDeployed(g)' <=> BeingDeployed(g)
    BY <1>1, <2>3, BeingKeep
  <2>6. \A g \in Functions : g # f => Life'[g] = Life[g]
    BY <1>1, <2>4, <2>5, LifeKeeps
  <2>7. Life[f] \in {"up", "down"} /\ Life'[f] = "leaving"
    BY <1>1, <1>3, <1>5, <2>4 DEF Life, Leaves
  <2>8. UNCHANGED Requests
    BY <1>1, <2>3, RequestsKeep
  <2>9. Service!Becomes(f, {"up", "down"}, "leaving")
    BY <1>3, <2>6, <2>7, <2>8, TurnsBecomes DEF Turns
  <2>10. Seen
    BY <1>3, <2>9 DEF Seen, Service!Next, Service!Delete
  <2>11. \A g : Available(g) => Available(g)'
    BY <1>1, <2>4 DEF Available
  <2>12. Knows("deleteDestroy", v)'
    BY DEF Knows, Vouches
  <2>13. \A g \in Functions : autoscaler'[g].state = "Active" => Available(g)'
    BY <1>1, <2>11 DEF AInv, AS!InState
  <2>14. \A u \in Threads, g \in Functions :
           Vouches(pc[u], local[u].ok) /\ local[u].fn = g => Available(g)'
    BY <2>11 DEF AInv, Knows
  <2>15. \A d \in Deployers : pc[d] = "commit" => handler'[local[d].new].phase = "up"
    BY <1>1, Distinct DEF AInv, Knows
  <2>16. AInv'
    BY <1>1, <2>3, <2>12, <2>13, <2>14, <2>15, KnowsKept
  <2> QED BY <2>10, <2>16
<1> QED BY <1>4, <1>5

LEMMA DeleteDestroyServes ==
  ASSUME TypeOK, IInv, HInv, RInv, AInv, "destroy" \notin Faults, NEW t \in Deleters,
         DeleteDestroy(t)
  PROVE  SeenSame /\ AInv'
<1>1. /\ pc[t] = "deleteDestroy" /\ UNCHANGED <<functionHandlers, autoscaler, mux>>
      /\ DestroyHandler(local[t].h, t, "deleteRoute", local[t], "deleteFailed", local[t])
  BY DEF DeleteDestroy, At
<1>2. /\ t \in Threads /\ Leaves(local[t].fn) /\ t \notin Deployers
      /\ local[t].fn \in Functions /\ local[t].h \in Handlers
      /\ functionHandlers[local[t].fn] = local[t].h
      /\ deployed[local[t].h] = local[t].fn
  BY <1>1, HolderLeaves, Distinct DEF MuxLabels
<1>3. PICK v \in LocalType : v = local[t]
  BY <1>2, LocalTyped
<1>4. /\ UNCHANGED deployed
      /\ \A g \in Handlers : g # local[t].h => handler'[g] = handler[g]
      /\ Went(t, "deleteRoute", v)
  BY <1>1, <1>2, <1>3, DestroyHandlerWent DEF Destroyed
<1>5. \A f \in Functions : functionHandlers[f] # None /\ ~Leaves(f) =>
        handler'[functionHandlers[f]] = handler[functionHandlers[f]]
  <2>1. \A f \in Functions : functionHandlers[f] = local[t].h => f = local[t].fn
    BY <1>2, Distinct DEF RInv, Names
  <2> QED BY <1>2, <1>4, <2>1 DEF TypeOK
<1>6. \A d \in Deployers : pc[d] = "commit" =>
        handler'[local[d].new] = handler[local[d].new]
  <2>1. \A d \in Deployers : pc[d] = "commit" =>
          local[d].new \in Handlers /\ local[d].new # local[t].h
    BY <1>2, DeployerAlone
  <2> QED BY <1>4, <2>1
<1>7. Knows("deleteRoute", v)'
  BY DEF Knows, Vouches
<1>8. \A f : BeingDeployed(f)' <=> BeingDeployed(f)
  BY <1>2, <1>4, BeingKeep
<1> QED BY <1>1, <1>2, <1>3, <1>4, <1>5, <1>6, <1>7, <1>8, StepServes, RequestsKeep,
       LivesKeep DEF SeenSame

LEMMA DeleteRouteServes ==
  ASSUME TypeOK, IInv, AInv, NEW t \in Deleters, DeleteRoute(t)
  PROVE  SeenSame /\ AInv'
<1>1. /\ pc[t] = "deleteRoute" /\ t \in Threads /\ t \notin Deployers
      /\ Continue(t, "deleteFinish")
      /\ UNCHANGED <<functionHandlers, autoscaler, handler, deployed, mux>>
  BY Distinct DEF DeleteRoute, At, runtime
<1>2. PICK v \in LocalType : v = local[t]
  BY <1>1, LocalTyped
<1>3. Went(t, "deleteFinish", v)
  BY <1>1, <1>2, GotoWent DEF Continue
<1>4. Knows("deleteFinish", v)
  BY DEF Knows, Vouches
<1> QED BY <1>1, <1>2, <1>3, <1>4, BeingKeep, QuietServes

\* What was registered or listed once is not being deployed, nor will it be.
LEMMA Deployed ==
  ASSUME TypeOK, IInv, HInv, RInv, NEW f \in Functions,
         functionHandlers[f] # None \/ autoscaler[f].entry # None
  PROVE  ~BeingDeployed(f)
<1>1. PICK h \in Handlers :
        deployed[h] = f /\ (h = functionHandlers[f] \/ h = autoscaler[f].entry)
  BY EntryTyped, Distinct DEF RInv, Names, TypeOK, AS!Unregistered
<1>2. ASSUME NEW d \in Deployers, pc[d] \in Unlisting, local[d].fn = f
      PROVE  FALSE
  <2>1. d \in Threads /\ Place(d, pc[d], local[d])
    BY Distinct DEF RInv, Places
  <2>2. pc[d] # "create"
    BY <1>1, <1>2, <2>1 DEF Place
  <2>3. /\ deployed[local[d].new] = f /\ local[d].new \in Handlers
        /\ \A g \in Functions : functionHandlers[g] # local[d].new
    BY <1>2, <2>2, DeployerAlone DEF Unlisting
  <2>4. local[d].new = h
    BY <1>1, <2>3, Distinct DEF RInv, Once
  <2>5. Holding(d)
    BY <1>2, <2>2 DEF Holding, Preparing, Unlisting
  <2> QED BY <1>1, <2>3, <2>4, <2>5 DEF IInv, Fresh
<1> QED BY <1>1, <1>2 DEF BeingDeployed, Unlisting

LEMMA DeleteFinishServes ==
  ASSUME TypeOK, IInv, HInv, RInv, AInv, NEW t \in Deleters, DeleteFinish(t)
  PROVE  Seen /\ AInv'
<1>1. /\ pc[t] = "deleteFinish" /\ UNCHANGED <<handler, deployed>> /\ mux' = None
      /\ functionHandlers' = [functionHandlers EXCEPT ![local[t].fn] = None]
      /\ AS!UnregisterFunction(local[t].fn)
      /\ NextDelete(t, local[t].fn)
  BY DEF DeleteFinish, At, runtime
<1>2. /\ t \in Threads /\ t \notin Deployers /\ mux = t /\ local[t].fn \in Functions
      /\ functionHandlers[local[t].fn] # None
  BY <1>1, HolderLeaves, Distinct DEF MuxLabels
<1>3. PICK f \in Functions : f = local[t].fn
  BY <1>2
<1>4. PICK label \in {"idle", "deleteLock"} : \E v : Went(t, label, v)
  BY <1>1, <1>2, NextDeleteLeads
<1>5. PICK v : Went(t, label, v)
  BY <1>4
<1>6. /\ \A g \in Functions :
           functionHandlers'[g] = IF g = f THEN None ELSE functionHandlers[g]
      /\ \A g \in Functions : autoscaler'[g].state = "Active" =>
           autoscaler[g].state = "Active"
  BY <1>1, <1>3
  DEF TypeOK, AS!TypeOK, AS!UnregisterFunction, AS!Unregistered
<1>7. /\ \A g : ~Leaves(g)'
      /\ \A g \in Functions : Leaves(g) <=> g = f
  BY <1>1, <1>2, <1>3, Distinct DEF Leaves
<1>8. \A g : BeingDeployed(g)' <=> BeingDeployed(g)
  BY <1>1, <1>2, <1>5, BeingKeep
<1>9. \A g \in Functions : g # f => Life'[g] = Life[g]
  BY <1>1, <1>6, <1>7, <1>8, LifeKeeps
<1>10. Life[f] = "leaving"
  BY <1>2, <1>3, <1>7 DEF Life, Leaves
<1>11. Life'[f] = "gone"
  <2>1. ~BeingDeployed(f)'
    BY <1>2, <1>3, <1>8, Deployed
  <2> QED BY <1>6, <2>1 DEF Life
<1>12. UNCHANGED Requests
  BY <1>1, <1>2, <1>5, RequestsKeep
<1>13. Service!Becomes(f, {"leaving"}, "gone")
  BY <1>9, <1>10, <1>11, <1>12, TurnsBecomes DEF Turns
<1>14. Seen
  BY <1>13 DEF Seen, Service!Next, Service!Remove
<1>15. \A g \in Functions : Available(g) => Available(g)'
  BY <1>1, <1>6, <1>7 DEF Available
<1>16. AInv'
  <2>1. Knows(label, v)'
    BY DEF Knows, Vouches
  <2>2. \A g \in Functions : autoscaler'[g].state = "Active" => Available(g)'
    BY <1>6, <1>15 DEF AInv, AS!InState
  <2>3. \A u \in Threads, g \in Functions :
          Vouches(pc[u], local[u].ok) /\ local[u].fn = g => Available(g)'
    BY <1>15 DEF AInv, Knows
  <2>4. \A d \in Deployers : pc[d] = "commit" => handler'[local[d].new].phase = "up"
    BY <1>1, Distinct DEF AInv, Knows
  <2> QED BY <1>2, <1>5, <2>1, <2>2, <2>3, <2>4, KnowsKept
<1> QED BY <1>14, <1>16

LEMMA ClaimServes ==
  ASSUME TypeOK, IInv, RInv, AInv, NEW t \in Callers \cup Scalers, NEW f \in Functions,
         pc[t] \in {"idle", "coldStart"}, BeginScaleDown(t, f) \/ BeginScaleUp(t, f),
         UNCHANGED <<functionHandlers, runtime, mux>>
  PROVE  SeenSame /\ AInv'
<1> DEFINE w == [local[t] EXCEPT !.fn = f, !.entry = autoscaler[f].entry]
<1>1. t \in Threads /\ t \notin Deployers /\ t \notin Deleters
  BY Distinct
<1>2. PICK v : v = w
  OBVIOUS
<1>3. v.fn = f
  BY <1>1, <1>2, LocalTyped DEF LocalType
<1>4. PICK label \in {"downLookup", "upLookup"} :
        /\ Goto(t, label, v)
        /\ label = "downLookup" => AS!InState(f, "Active")
  BY <1>2 DEF BeginScaleDown, BeginScaleUp, Claimed, AS!ClaimScaleDown, AS!Idle
<1> HIDE DEF w
<1>5. Knows(label, v)
  BY <1>3, <1>4 DEF Knows, Vouches, AInv
<1>6. \A g \in Functions : autoscaler'[g].state = "Active" => autoscaler[g].state = "Active"
  BY ClaimDownChanges, ClaimUpChanges DEF BeginScaleDown, BeginScaleUp, Changes
<1> QED BY <1>1, <1>4, <1>5, <1>6, GotoWent, ScalerServes DEF runtime

\* A request on its way relies on nothing and is not seen.
LEMMA CallPassServes ==
  ASSUME TypeOK, IInv, RInv, AInv, NEW t \in Callers, pc[t] # "http",
         NEW label \in {"idle", "coldStart", "waitRoute", "begin"}, NEW v, Went(t, label, v),
         UNCHANGED <<functionHandlers, autoscaler, runtime, mux>>
  PROVE  SeenSame /\ AInv'
<1>1. t \in Threads /\ t \notin Deployers /\ t \notin Deleters
  BY Distinct
<1>2. Knows(label, v)
  BY DEF Knows, Vouches
<1> QED BY <1>1, <1>2, ScalerServes DEF runtime

\* What is counted in or out leaves every function as it was.
LEMMA CallCountServes ==
  ASSUME TypeOK, IInv, AInv, NEW t \in Callers,
         NEW label \in {"idle", "http"}, NEW v, Went(t, label, v),
         UNCHANGED <<functionHandlers, runtime, mux>>,
         \A f \in Functions : autoscaler'[f].state = autoscaler[f].state
  PROVE  UNCHANGED Life /\ AInv'
<1>1. t \in Threads /\ t \notin Deployers /\ mux # t
  BY Distinct DEF TypeOK
<1>2. Knows(label, v)'
  BY DEF Knows, Vouches
<1>3. \A f : BeingDeployed(f)' <=> BeingDeployed(f)
  BY <1>1, BeingKeep DEF runtime
<1> QED BY <1>1, <1>2, <1>3, StepServes, LivesKeep DEF runtime

LEMMA RequestTurns ==
  ASSUME NEW t \in Callers, NEW label, NEW v, Went(t, label, v), UNCHANGED Life
  PROVE  Requests' = [Requests EXCEPT ![t] = IF label = "http" THEN v.fn ELSE None]
<1>1. \A c \in Callers : c # t => pc'[c] = pc[c] /\ local'[c] = local[c]
  BY Distinct DEF Went
<1> QED BY <1>1 DEF Requests, Went, At

\* What the autoscaler takes for active can be served, or was deleted after the
\* request was admitted.
LEMMA CallBeginServes ==
  ASSUME TypeOK, IInv, HInv, RInv, AInv, AutoscalerEnabled, NEW t \in Callers, CallBegin(t)
  PROVE  Seen /\ AInv'
<1>1. PICK f \in Functions : pc[t] = "begin" /\ f = local[t].fn
  BY Distinct DEF CallBegin, At, IInv, Operands, Operand
<1>2. /\ t \in Threads /\ AS!StartInvocation(f)
      /\ UNCHANGED <<functionHandlers, runtime, mux>>
  BY <1>1, Distinct DEF CallBegin
<1>3. PICK ip : Goto(t, "http", [local[t] EXCEPT !.ip = ip, !.ips = {}])
  BY DEF CallBegin
<1>4. PICK v : v = [local[t] EXCEPT !.ip = ip, !.ips = {}]
  OBVIOUS
<1>5. v.fn = f /\ Went(t, "http", v)
  BY <1>1, <1>2, <1>3, <1>4, LocalTyped, GotoWent DEF LocalType
<1>6. /\ autoscaler[f].state = "Active"
      /\ \A g \in Functions : autoscaler'[g].state = autoscaler[g].state
  BY <1>2, StartChanges DEF AS!StartInvocation, AS!InState, Changes
<1>7. UNCHANGED Life /\ AInv'
  BY <1>2, <1>5, <1>6, CallCountServes
<1>8. Life[f] \in {"up", "leaving", "gone"}
  <2>1. Available(f)
    BY <1>6 DEF AInv, AS!InState
  <2>2. autoscaler[f].entry # None
    BY <1>6, EntryTyped, Distinct DEF AS!Unregistered
  <2>3. ~BeingDeployed(f)
    BY <2>2, Deployed
  <2> QED BY <2>1, <2>3 DEF Life, Available, Leaves
<1>9. Requests[t] = None /\ Requests' = [Requests EXCEPT ![t] = f]
  BY <1>1, <1>5, <1>7, RequestTurns DEF Requests, At
<1>10. Service!Begin(t, f)
  BY <1>7, <1>8, <1>9 DEF Service!Begin
<1> QED BY <1>7, <1>10 DEF Seen, Service!Next

LEMMA CallFinishServes ==
  ASSUME TypeOK, IInv, RInv, AInv, NEW t \in Callers, CallFinish(t)
  PROVE  Seen /\ AInv'
<1>1. PICK f \in Functions : pc[t] = "http" /\ f = local[t].fn
  BY Distinct DEF CallFinish, At, IInv, Operands, Operand
<1>2. /\ t \in Threads /\ UNCHANGED <<functionHandlers, runtime, mux>>
      /\ UNCHANGED autoscaler \/ AS!EndInvocation(f)
  BY <1>1, Distinct DEF CallFinish
<1>3. PICK v : v = Reset
  OBVIOUS
<1>4. Went(t, "idle", v)
  BY <1>2, <1>3, ReturnWent DEF CallFinish
<1>5. \A g \in Functions : autoscaler'[g].state = autoscaler[g].state
  BY <1>2, EndChanges DEF Changes
<1>6. UNCHANGED Life /\ AInv'
  BY <1>2, <1>4, <1>5, CallCountServes
<1>7. Requests[t] # None /\ Requests' = [Requests EXCEPT ![t] = None]
  BY <1>1, <1>4, <1>6, RequestTurns, Distinct DEF Requests, At
<1>8. Service!End(t)
  BY <1>6, <1>7 DEF Service!End
<1> QED BY <1>6, <1>8 DEF Seen, Service!Next

LEMMA CallStepServes ==
  ASSUME TypeOK, IInv, HInv, RInv, AInv, AutoscalerEnabled, NEW t \in Callers,
         CallStep(t) \/ CallFinish(t)
  PROVE  Seen /\ AInv'
<1>1. t \in Threads
  BY Distinct
<1>2. CASE CallColdStart(t)
  <2>1. local[t].fn \in Functions
    BY <1>1, <1>2 DEF CallColdStart, At, IInv, Operands, Operand
  <2> QED BY <1>2, <2>1, ClaimServes DEF CallColdStart, At, Seen, SeenSame
<1>3. CASE CallColdStarted(t) \/ CallWaitRoute(t) \/ CallRefused(t)
  <2>1. Return(t) \/ \E label \in {"waitRoute", "begin"} : \E v : Goto(t, label, v)
    BY <1>3 DEF CallColdStarted, CallWaitRoute, CallRefused, Continue
  <2>2. /\ pc[t] # "http" /\ UNCHANGED <<functionHandlers, autoscaler, runtime, mux>>
    BY <1>3 DEF CallColdStarted, CallWaitRoute, CallRefused, At
  <2>3. \E label \in {"idle", "waitRoute", "begin"} : \E v : Went(t, label, v)
    BY <1>1, <2>1, GotoWent, ReturnWent
  <2> QED BY <2>2, <2>3, CallPassServes DEF Seen, SeenSame
<1> QED BY <1>2, <1>3, CallBeginServes, CallFinishServes DEF CallStep

LEMMA RequestServes ==
  ASSUME TypeOK, IInv, RInv, AInv, ~Redeploy, Request
  PROVE  SeenSame /\ AInv'
<1>1. ASSUME NEW f \in Functions, NEW t \in Callers, CallSnapshot(t, f)
      PROVE  SeenSame /\ AInv'
  <2>1. /\ \E label \in {"begin", "coldStart"} : \E v : Goto(t, label, v)
        /\ pc[t] = "idle" /\ t \in Threads
        /\ UNCHANGED <<functionHandlers, autoscaler, runtime, mux>>
    BY <1>1, Distinct DEF CallSnapshot, At
  <2>2. \E label \in {"begin", "coldStart"} : \E v : Went(t, label, v)
    BY <2>1, GotoWent
  <2> QED BY <2>1, <2>2, CallPassServes
<1>2. ASSUME NEW f \in Functions, NEW t \in Scalers, IdleScaleDown(t, f) \/ Prewarm(t, f)
      PROVE  SeenSame /\ AInv'
  BY <1>2, ClaimServes DEF IdleScaleDown, Prewarm, At
<1> QED BY <1>1, <1>2, DeployLookupServes DEF Request

LEMMA ScaleStepServes ==
  ASSUME TypeOK, IInv, RInv, SInv, VInv, AInv, "stop" \notin Faults,
         NEW t \in Deployers \cup Callers \cup Scalers, ScaleStep(t)
  PROVE  Seen /\ AInv'
<1>1. t \in Threads
  BY Distinct
<1>2. ~DownRestore(t)
  BY <1>1 DEF DownRestore, At, VInv, Scales
<1> QED BY <1>1, <1>2, LookupServes, IPsServe, DownUpdateServes, DownStopServes,
       UpRestartServes, UpAddServes, ScaleDoneServes DEF ScaleStep, Seen, SeenSame

LEMMA DeployStepServes ==
  ASSUME TypeOK, IInv, HInv, RInv, VInv, AInv, Alone, "destroy" \notin Faults,
         NEW t \in Deployers, DeployStep(t)
  PROVE  Seen /\ AInv'
  BY NoReplacement, DeployCreateServes, DeployStartServes, DeployAddServes,
     DeployCommitServes, DeployRegisterServes, DeployAbortServes
  DEF DeployStep, Seen, SeenSame

LEMMA DeleteStepServes ==
  ASSUME TypeOK, IInv, HInv, RInv, AInv, "destroy" \notin Faults, NEW t \in Deleters,
         DeleteRequest(t) \/ DeleteStep(t)
  PROVE  Seen /\ AInv'
<1>1. ~DeleteFailed(t)
  BY DEF DeleteFailed, At, HInv, Locked
<1> QED BY <1>1, DeleteRequestServes, DeleteLockServes, DeleteDestroyServes,
       DeleteRouteServes, DeleteFinishServes DEF DeleteStep, Seen, SeenSame

LEMMA NextServes ==
  ASSUME TypeOK, IInv, HInv, RInv, SInv, VInv, AInv, Alone, ~Redeploy, AutoscalerEnabled,
         "stop" \notin Faults, "destroy" \notin Faults, [Next]_vars
  PROVE  Seen /\ AInv'
<1>1. CASE UNCHANGED vars
  <2>1. UNCHANGED <<functionHandlers, autoscaler, handler, deployed, mux, pc, local>>
    BY <1>1 DEF vars, runtime
  <2>2. AInv'
    BY <2>1 DEF AInv, Knows, Available, Leaves, AS!InState
  <2>3. SeenSame
    BY <2>1 DEF SeenSame, Life, Requests, BeingDeployed, At
  <2> QED BY <2>2, <2>3 DEF Seen, SeenSame
<1>2. CASE Request
  BY <1>2, RequestServes DEF Seen, SeenSame
<1> QED BY <1>1, <1>2, ScaleStepServes, DeployStepServes, DeleteStepServes, CallStepServes
    DEF Next

LEMMA InitServes == Init => AInv /\ Service!Init
<1> SUFFICES ASSUME Init PROVE AInv /\ Service!Init
  OBVIOUS
<1>1. \A t \in Threads : pc[t] = "idle"
  BY DEF Init
<1>2. \A f \in Functions :
        /\ functionHandlers[f] = None /\ autoscaler[f].state = "Unregistered"
        /\ BeingDeployed(f)
  BY Distinct DEF Init, AS!Init, AS!Unregistered, BeingDeployed
<1>3. AInv
  BY <1>1, <1>2 DEF AInv, Knows, Vouches, AS!InState
<1>4. Service!Init
  BY <1>1, <1>2, Distinct DEF Service!Init, Life, Requests, At
<1> QED BY <1>3, <1>4

\* Deployments, scaling operations, deletes and wipes, with all their steps and in
\* any order, are to the clients of functions that are deployed once a function
\* that comes up, is stopped only while it serves nobody, serves only while it is
\* not stopped and never comes back once deleted (FunctionService), for any number
\* of functions and requests, as long as stopping and removing a handler work.
THEOREM ServerImplementsService ==
  ASSUME ~Redeploy, AutoscalerEnabled, "stop" \notin Faults, "destroy" \notin Faults
  PROVE  Spec /\ []Alone => ServesFunctions
<1> DEFINE Inv == TypeOK /\ IInv /\ HInv /\ RInv /\ SInv /\ VInv /\ AInv
<1>1. Init => Inv /\ Service!Init
  BY InitInv, InitKeeps, InitRoutes, InitUnserved, InitLeads, InitServes
<1>2. Inv /\ Alone /\ [Next]_vars => Inv' /\ [Service!Next]_<<Life, Requests>>
  BY StepInv, StepKeeps, StepRoutes, StepUnserved, StepLeads, NextServes DEF Seen
<1> QED BY <1>1, <1>2, PTL DEF Spec, ServesFunctions, Service!Spec
=============================================================================
