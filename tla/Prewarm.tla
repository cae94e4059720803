------------------------------- MODULE Prewarm ------------------------------
(***************************************************************************)
(* Speculative scale-ups (pkg/server/server.go, "Prewarming").             *)
(*                                                                         *)
(* An invocation asks the call graph which functions its callee will call, *)
(* and has each of them warmed: at once, or by a timer.  A prewarm is      *)
(* admitted by a mark of its target (prewarmInFlight) and a slot of the    *)
(* budget (prewarmSem), and competes with cold starts, the idle check and  *)
(* deletes.  What those do to handlers and addresses is in module Server;  *)
(* here a deployment or a delete is one step and a route is a flag.  The   *)
(* autoscaler and the call graph are enabled for every function.           *)
(***************************************************************************)
EXTENDS Integers, FiniteSets

CONSTANTS
  Functions, None,
  Entries,      \* the functions clients call; the others are called by them
  Removable,    \* the functions that may be deleted
  Handlers,     \* deployments
  Targets,      \* GetPrewarmTargets answers any set of these
  Margin,       \* prewarmSafetyMargin
  Budget,       \* maxConcurrentPrewarms()
  Scouts,       \* goroutines in prewarmDownstream or prewarmDownstreamEager
  Prewarmers,   \* timers and goroutines for one target each
  Callers,      \* goroutines in invoke
  Scalers       \* the autoscaler's idle check

VARIABLES
  route,             \* function -> "active", "inactive", or "none"
  autoscaler,
  prewarmInFlight,   \* the marked functions
  prewarmSem,        \* slots of the budget in use
  unrecorded,        \* scale-ups performed less RecordScaleUp calls made
  pc, local          \* every goroutine's next step and variables

shared == <<route, autoscaler>>
admission == <<prewarmInFlight, prewarmSem>>
vars == <<shared, admission, unrecorded, pc, local>>

Threads == Scouts \cup Prewarmers \cup Callers \cup Scalers

Kinds == {"sync", "async", "unknown"}

Modes == {"cold", "prewarm"}

ASSUME TargetsAssumption ==
  /\ Targets \subseteq [fn : Functions, kind : Kinds, leadTime : Nat,
                        coldStart : Nat, callerColdStart : Nat]
  /\ Margin \in Nat
  /\ Entries \subseteq Functions /\ Removable \subseteq Functions

ASSUME BudgetAssumption ==
  Budget \in Nat \ {0}     \* other settings fall back to the default

ASSUME ThreadsAssumption ==
  /\ None \notin Functions \cup Handlers
  /\ Scouts \cap (Prewarmers \cup Callers \cup Scalers) = {}
  /\ Prewarmers \cap (Callers \cup Scalers) = {} /\ Callers \cap Scalers = {}

AS == INSTANCE Autoscaler

Reset == [fn |-> None, entry |-> None, ok |-> FALSE, todo |-> {}]

Init ==
  /\ route = [f \in Functions |-> "none"]
  /\ AS!Init
  /\ prewarmInFlight = {} /\ prewarmSem = 0
  /\ unrecorded = [f \in Functions |-> [m \in Modes |-> 0]]
  /\ pc = [t \in Threads |-> "idle"]
  /\ local = [t \in Threads |-> Reset]
-----------------------------------------------------------------------------
At(t, label) == pc[t] = label

Goto(t, label, vars_t) ==
  /\ pc' = [pc EXCEPT ![t] = label]
  /\ local' = [local EXCEPT ![t] = vars_t]

Continue(t, label) == Goto(t, label, local[t])

Return(t) == Goto(t, "idle", Reset)

\* t goes on as Goto says, and the goroutine u is started.
GotoAndGo(t, label, vars_t, u, label_u, vars_u) ==
  /\ At(u, "idle")
  /\ pc' = [pc EXCEPT ![t] = label, ![u] = label_u]
  /\ local' = [local EXCEPT ![t] = vars_t, ![u] = vars_u]

SetRoute(f, r) == route' = [route EXCEPT ![f] = r]

IsScaledDown(f) == route[f] = "inactive"
-----------------------------------------------------------------------------
(* A scale-up, in the prewarmer or caller that claimed the function. *)

BeginScaleUp(t, f) ==
  /\ AS!ClaimScaleUp(f)
  /\ Goto(t, "upRestart", [local[t] EXCEPT !.fn = f, !.entry = autoscaler[f].entry])
  /\ UNCHANGED <<route, admission, unrecorded>>

\* The handler is restarted and its route added, or one of both fails.
UpRestart(t) ==
  /\ At(t, "upRestart")
  /\ \/ SetRoute(local[t].fn, "active") /\ Goto(t, "upDone", [local[t] EXCEPT !.ok = TRUE])
     \/ Continue(t, "upDone") /\ UNCHANGED route
  /\ UNCHANGED <<autoscaler, admission, unrecorded>>

Mode(t) == IF t \in Callers THEN "cold" ELSE "prewarm"

\* The scale-up is over for t, which goes on with its function.
Settled(t) == [Reset EXCEPT !.fn = local[t].fn]

\* What follows a scale-up that was not performed, or was performed and recorded.
AfterScaleUp(t, ok) ==
  CASE t \in Prewarmers -> Goto(t, "release", Settled(t))
    [] t \in Callers    -> IF ok THEN Goto(t, "waitRoute", Settled(t)) ELSE Return(t)

UpDone(t) ==
  LET f == local[t].fn
  IN /\ At(t, "upDone")
     /\ AS!Settle(f, local[t].entry, local[t].ok)
     /\ IF local[t].ok
          THEN /\ Goto(t, "record", Settled(t))
               /\ unrecorded' = [unrecorded EXCEPT ![f][Mode(t)] = @ + 1]
          ELSE AfterScaleUp(t, FALSE) /\ UNCHANGED unrecorded
     /\ UNCHANGED <<route, admission>>

\* recordScaleUp, after the function has become active for everyone.
Record(t) ==
  /\ At(t, "record")
  /\ unrecorded' = [unrecorded EXCEPT ![local[t].fn][Mode(t)] = @ - 1]
  /\ AfterScaleUp(t, TRUE)
  /\ UNCHANGED <<shared, admission>>

ScaleUpStep(t) == UpRestart(t) \/ UpDone(t) \/ Record(t)
-----------------------------------------------------------------------------
(* executePrewarm. *)

\* A timer looks at the route again when it fires.
Fire(p) ==
  /\ At(p, "timer")
  /\ IF IsScaledDown(local[p].fn) THEN Continue(p, "mark") ELSE Return(p)
  /\ UNCHANGED <<shared, admission, unrecorded>>

IgnoresMark(p) ==
  /\ At(p, "mark")
  /\ prewarmInFlight' = prewarmInFlight \cup {local[p].fn}
  /\ Continue(p, "slot")
  /\ UNCHANGED <<shared, prewarmSem, unrecorded>>

\* LoadOrStore: a target that is marked already is skipped.
Mark(p) ==
  /\ At(p, "mark")
  /\ IF local[p].fn \in prewarmInFlight
       THEN Return(p) /\ UNCHANGED prewarmInFlight
       ELSE /\ prewarmInFlight' = prewarmInFlight \cup {local[p].fn}
            /\ Continue(p, "slot")
  /\ UNCHANGED <<shared, prewarmSem, unrecorded>>

LeavesMark(p) ==
  /\ At(p, "slot")
  /\ IF prewarmSem < Budget
       THEN prewarmSem' = prewarmSem + 1 /\ Continue(p, "try")
       ELSE Return(p) /\ UNCHANGED prewarmSem
  /\ UNCHANGED <<shared, prewarmInFlight, unrecorded>>

TakesOneTooMany(p) ==
  /\ At(p, "slot")
  /\ IF prewarmSem <= Budget
       THEN prewarmSem' = prewarmSem + 1 /\ Continue(p, "try")
       ELSE Continue(p, "unmark") /\ UNCHANGED prewarmSem
  /\ UNCHANGED <<shared, prewarmInFlight, unrecorded>>

\* A prewarm that finds the budget used up is skipped, not queued.
TakeSlot(p) ==
  /\ At(p, "slot")
  /\ IF prewarmSem < Budget
       THEN prewarmSem' = prewarmSem + 1 /\ Continue(p, "try")
       ELSE Continue(p, "unmark") /\ UNCHANGED prewarmSem
  /\ UNCHANGED <<shared, prewarmInFlight, unrecorded>>

ScalesRegardless(p) ==
  LET f == local[p].fn
  IN  /\ At(p, "try")
      /\ \/ BeginScaleUp(p, f)
         \/ /\ ~AS!InState(f, "ScaledDown")
            /\ IF AS!InState(f, "ScalingUp")
                 THEN Goto(p, "upRestart", [local[p] EXCEPT !.entry = autoscaler[f].entry])
                 ELSE Continue(p, "release")
            /\ UNCHANGED <<shared, admission, unrecorded>>

RecordsForOthers(p) ==
  LET f == local[p].fn
  IN  /\ At(p, "try")
      /\ \/ BeginScaleUp(p, f)
         \/ /\ ~AS!InState(f, "ScaledDown")
            /\ Continue(p, IF AS!InState(f, "Active") THEN "record" ELSE "release")
            /\ UNCHANGED <<shared, admission, unrecorded>>

\* TryScaleUp: a function that is active, gone, or being scaled by somebody
\* else is left alone.
TryScaleUp(p) ==
  LET f == local[p].fn
  IN  /\ At(p, "try")
      /\ \/ BeginScaleUp(p, f)
         \/ /\ ~AS!InState(f, "ScaledDown")
            /\ Continue(p, "release")
            /\ UNCHANGED <<shared, admission, unrecorded>>

KeepsSlot(p) ==
  /\ At(p, "release")
  /\ Continue(p, "unmark")
  /\ UNCHANGED <<shared, admission, unrecorded>>

\* The deferred calls, the last one first: the slot, then the mark.
Release(p) ==
  /\ At(p, "release")
  /\ prewarmSem' = prewarmSem - 1
  /\ Continue(p, "unmark")
  /\ UNCHANGED <<shared, prewarmInFlight, unrecorded>>

Unmark(p) ==
  /\ At(p, "unmark")
  /\ prewarmInFlight' = prewarmInFlight \ {local[p].fn}
  /\ Return(p)
  /\ UNCHANGED <<shared, prewarmSem, unrecorded>>

PrewarmStep(p) ==
  \/ Fire(p) \/ Mark(p) \/ TakeSlot(p) \/ TryScaleUp(p) \/ ScaleUpStep(p)
  \/ Release(p) \/ Unmark(p)
-----------------------------------------------------------------------------
(* Choosing what to warm: the predictions are gone through one by one, each *)
(* with the route it has by then.                                           *)

\* Callees the caller waits for come first, then those needed soonest.
Before(a, b) ==
  \/ a.kind = "sync" /\ b.kind # "sync"
  \/ (a.kind = "sync" <=> b.kind = "sync") /\ a.leadTime < b.leadTime

EagerDelay(target) ==
  target.callerColdStart + target.leadTime - target.coldStart - Margin

\* Without statistics of the target its cold start counts as zero.
ScheduledDelay(target, hasStats) ==
  target.leadTime - (IF hasStats THEN target.coldStart ELSE 0) - Margin

\* The scout is done with target, and a goroutine or timer is started, or not.
Skip(s, target) == Goto(s, pc[s], [local[s] EXCEPT !.todo = @ \ {target}])

StartPrewarm(s, target, label) ==
  \E p \in Prewarmers :
    GotoAndGo(s, pc[s], [local[s] EXCEPT !.todo = @ \ {target}],
              p, label, [Reset EXCEPT !.fn = target.fn])

\* prewarmDownstreamEager leaves out callees nobody waits for.
EagerTarget(s) ==
  /\ At(s, "eager")
  /\ \E target \in local[s].todo :
       /\ \A other \in local[s].todo : ~Before(other, target)
       /\ IF target.kind = "async" \/ ~IsScaledDown(target.fn)
            THEN Skip(s, target)
            ELSE StartPrewarm(s, target, IF EagerDelay(target) <= 0 THEN "mark" ELSE "timer")
  /\ UNCHANGED <<shared, admission, unrecorded>>

\* schedulePrewarm leaves out callees it could not have ready in time.
ScheduleTarget(s) ==
  /\ At(s, "schedule")
  /\ \E target \in local[s].todo, hasStats \in BOOLEAN :
       IF ~IsScaledDown(target.fn) \/ ScheduledDelay(target, hasStats) <= 0
         THEN Skip(s, target)
         ELSE StartPrewarm(s, target, "timer")
  /\ UNCHANGED <<shared, admission, unrecorded>>

ScoutDone(s) ==
  /\ pc[s] \in {"eager", "schedule"} /\ local[s].todo = {}
  /\ Return(s)
  /\ UNCHANGED <<shared, admission, unrecorded>>
-----------------------------------------------------------------------------
(* Invocations, as far as they start prewarms and compete with them. *)

\* The caller goes on; with prewarming enabled a scout starts beside it.
GotoAndScout(c, label, vars_c, work) ==
  \/ Goto(c, label, vars_c)
  \/ \E s \in Scouts, targets \in SUBSET Targets :
       GotoAndGo(c, label, vars_c, s, work, [Reset EXCEPT !.todo = targets])

Call(c, f) ==
  /\ At(c, "idle")
  /\ \/ route[f] = "active" /\ Goto(c, "begin", [Reset EXCEPT !.fn = f])
     \/ route[f] = "inactive" /\ GotoAndScout(c, "coldStart", [Reset EXCEPT !.fn = f], "eager")
  /\ UNCHANGED <<shared, admission, unrecorded>>

\* ScaleUpWhenReady waits while the function is being scaled.
ColdStart(c) ==
  /\ At(c, "coldStart")
  /\ \/ BeginScaleUp(c, local[c].fn)
     \/ /\ \/ AS!InState(local[c].fn, "Active") /\ Continue(c, "waitRoute")
           \/ AS!InState(local[c].fn, "Unregistered") /\ Return(c)
        /\ UNCHANGED <<shared, admission, unrecorded>>

WaitRoute(c) ==
  /\ At(c, "waitRoute")
  /\ IF route[local[c].fn] = "active" THEN Continue(c, "begin") ELSE Return(c)
  /\ UNCHANGED <<shared, admission, unrecorded>>

Begin(c) ==
  /\ At(c, "begin")
  /\ \/ AS!StartInvocation(local[c].fn) /\ GotoAndScout(c, "http", local[c], "schedule")
     \/ ~AS!InState(local[c].fn, "Active") /\ Return(c) /\ UNCHANGED autoscaler
  /\ UNCHANGED <<route, admission, unrecorded>>

Finish(c) ==
  /\ At(c, "http")
  /\ AS!EndInvocation(local[c].fn)
  /\ Return(c)
  /\ UNCHANGED <<route, admission, unrecorded>>

CallStep(c) == ColdStart(c) \/ ScaleUpStep(c) \/ WaitRoute(c) \/ Begin(c) \/ Finish(c)
-----------------------------------------------------------------------------
(* The idle check, deployments and deletes. *)

BeginScaleDown(s, f) ==
  /\ At(s, "idle")
  /\ AS!ClaimScaleDown(f)
  /\ Goto(s, "downUpdate", [Reset EXCEPT !.fn = f, !.entry = autoscaler[f].entry])
  /\ UNCHANGED <<route, admission, unrecorded>>

DownUpdate(s) ==
  /\ At(s, "downUpdate")
  /\ IF route[local[s].fn] = "none" THEN UNCHANGED route ELSE SetRoute(local[s].fn, "inactive")
  /\ Continue(s, "downStop")
  /\ UNCHANGED <<autoscaler, admission, unrecorded>>

\* A failed stop restores the route and leaves the function active.
DownStop(s) ==
  /\ At(s, "downStop")
  /\ \E stopped \in BOOLEAN :
       /\ IF stopped THEN UNCHANGED route ELSE SetRoute(local[s].fn, "active")
       /\ AS!Settle(local[s].fn, local[s].entry, ~stopped)
  /\ Return(s)
  /\ UNCHANGED <<admission, unrecorded>>

ScaleDownStep(s) == DownUpdate(s) \/ DownStop(s)

Unused(h) ==
  /\ \A f \in Functions : autoscaler[f].entry # h
  /\ \A t \in Threads : local[t].entry # h

\* createFunction and Delete, each as one step.
Deploy(f) ==
  /\ AS!InState(f, "Unregistered")
  /\ \E h \in Handlers : Unused(h) /\ AS!RegisterFunction(f, h)
  /\ SetRoute(f, "active")
  /\ UNCHANGED <<admission, unrecorded, pc, local>>

Delete(f) ==
  /\ f \in Removable
  /\ ~AS!InState(f, "Unregistered")
  /\ SetRoute(f, "none")
  /\ AS!UnregisterFunction(f)
  /\ UNCHANGED <<admission, unrecorded, pc, local>>
-----------------------------------------------------------------------------
Next ==
  \/ \E f \in Functions :
       \/ Deploy(f) \/ Delete(f)
       \/ \E c \in Callers : f \in Entries /\ Call(c, f)
       \/ \E s \in Scalers : BeginScaleDown(s, f)
  \/ \E c \in Callers : CallStep(c)
  \/ \E s \in Scalers : ScaleDownStep(s)
  \/ \E s \in Scouts : EagerTarget(s) \/ ScheduleTarget(s) \/ ScoutDone(s)
  \/ \E p \in Prewarmers : PrewarmStep(p)

Spec == Init /\ [][Next]_vars

\* Timers fire, and a prewarm goes on: it waits for nobody.
FairSpec == Spec /\ \A p \in Prewarmers : WF_vars(PrewarmStep(p))
-----------------------------------------------------------------------------
ScaleUpLabels == {"upRestart", "upDone"}

SlotLabels == {"try", "record", "release"} \cup ScaleUpLabels

MarkLabels == {"slot", "unmark"} \cup SlotLabels

PcLabels ==
  {"idle", "timer", "mark"} \cup MarkLabels
    \cup {"eager", "schedule", "coldStart", "waitRoute", "begin", "http",
          "downUpdate", "downStop"}

TypeOK ==
  /\ route \in [Functions -> {"active", "inactive", "none"}]
  /\ AS!TypeOK
  /\ prewarmInFlight \subseteq Functions
  /\ prewarmSem \in 0..Budget
  /\ unrecorded \in [Functions -> [Modes -> Nat]]
  /\ pc \in [Threads -> PcLabels]
  /\ local \in [Threads -> [fn : Functions \cup {None}, entry : Handlers \cup {None},
                            ok : BOOLEAN, todo : SUBSET Targets]]

Holders == {p \in Prewarmers : pc[p] \in SlotLabels}

Admitted(f) == {p \in Prewarmers : pc[p] \in MarkLabels /\ local[p].fn = f}

\* On every path out of executePrewarm the slot and the mark are given back:
\* those in use are those of prewarms under way, so no target is shut out by a
\* prewarm that is over.
AdmissionBalanced ==
  /\ prewarmSem = Cardinality(Holders)
  /\ prewarmInFlight = {f \in Functions : Admitted(f) # {}}

\* "if a prewarm for this function is already in flight, skip" (server.go:714):
\* a target has one prewarm at a time between its mark and its return, whatever
\* goroutines and timers eager and scheduled passes started for it.
OnePrewarmPerTarget ==
  \A f \in Functions : \A p, q \in Admitted(f) : p = q

\* "it never occupies a prewarm slot waiting on work it did not initiate"
\* (scaleop.go:100): a scale-up belongs to the goroutine that claimed it, and
\* to no other, be it a prewarm or a cold start.
ScaleUpOwned ==
  /\ \A f \in Functions : AS!InState(f, "ScalingUp") =>
       \E t \in Threads : pc[t] \in ScaleUpLabels /\ local[t].fn = f
                          /\ local[t].entry = autoscaler[f].entry
  /\ \A t, u \in Threads :
       pc[t] \in ScaleUpLabels /\ pc[u] \in ScaleUpLabels
         /\ local[t].entry = local[u].entry => t = u

\* "Only the caller that performed the transition records the scale-up, with
\* its own mode" (scaleop.go:101-102): what has not been recorded yet is about to
\* be, by the goroutine that did it.
RecordedOnce ==
  \A f \in Functions, m \in Modes :
    unrecorded[f][m] =
      Cardinality({t \in Threads : At(t, "record") /\ local[t].fn = f /\ Mode(t) = m})

\* A prewarm ends, whatever fails or is deleted meanwhile: no target stays marked,
\* and with its mark the slot is free again (AdmissionBalanced).
MarksReturn == \A f \in Functions : f \in prewarmInFlight ~> f \notin prewarmInFlight
=============================================================================
