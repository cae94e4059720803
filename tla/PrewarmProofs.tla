---------------------------- MODULE PrewarmProofs ----------------------------
(***************************************************************************)
(* Theorems about Prewarm, for any number of functions, predictions,       *)
(* deployments and goroutines of each kind, and any budget.                *)
(***************************************************************************)
EXTENDS Prewarm, FiniteSetTheorems, TLAPS

DownLabels == {"downUpdate", "downStop"}

Operations == ScaleUpLabels \cup DownLabels

LocalType ==
  [fn : Functions \cup {None}, entry : Handlers \cup {None}, ok : BOOLEAN,
   todo : SUBSET Targets]

\* Which goroutine may be where.
Role(t, label) ==
  /\ t \in Scouts => label \in {"idle", "eager", "schedule"}
  /\ t \in Prewarmers => label \in {"idle", "timer", "mark"} \cup MarkLabels
  /\ t \in Callers =>
       label \in {"idle", "coldStart", "record", "waitRoute", "begin", "http"}
                   \cup ScaleUpLabels
  /\ t \in Scalers => label \in {"idle"} \cup DownLabels

\* Which of its variables a goroutine has set.
Operand(label, v) ==
  /\ label \notin {"idle", "eager", "schedule"} => v.fn \in Functions
  /\ IF label \in Operations THEN v.entry \in Handlers ELSE v.entry = None

Placed == \A t \in Threads : Role(t, pc[t]) /\ Operand(pc[t], local[t])

\* A deployment belongs to one function, for the autoscaler and for whoever
\* began an operation under its registration.
Lineage ==
  /\ \A f, g \in Functions :
       autoscaler[f].entry # None /\ autoscaler[f].entry = autoscaler[g].entry => f = g
  /\ \A t \in Threads, f \in Functions :
       local[t].entry # None /\ autoscaler[f].entry = local[t].entry => local[t].fn = f

\* t has an operation under way that still concerns f.
Owns(t, f) == local[t].fn = f /\ local[t].entry = autoscaler[f].entry

\* A claim has one owner, and what is not claimed has none.
Claims ==
  /\ \A f \in Functions :
       /\ AS!InState(f, "ScalingUp") =>
            \E t \in Threads : pc[t] \in ScaleUpLabels /\ Owns(t, f)
       /\ AS!InState(f, "ScalingDown") =>
            \E t \in Threads : pc[t] \in DownLabels /\ Owns(t, f)
  /\ \A t \in Threads, f \in Functions : Owns(t, f) =>
       /\ pc[t] \in ScaleUpLabels => AS!InState(f, "ScalingUp")
       /\ pc[t] \in DownLabels => AS!InState(f, "ScalingDown")
  /\ \A t, u \in Threads :
       pc[t] \in Operations /\ pc[u] \in Operations /\ local[t].entry = local[u].entry
         => t = u

Admission ==
  /\ IsFiniteSet(Holders)
  /\ AdmissionBalanced
  /\ OnePrewarmPerTarget

Recording(f, m) == {t \in Threads : At(t, "record") /\ local[t].fn = f /\ Mode(t) = m}

Records ==
  \A f \in Functions, m \in Modes :
    IsFiniteSet(Recording(f, m)) /\ unrecorded[f][m] = Cardinality(Recording(f, m))

\* Prewarms of one target exclude each other by its mark, and scaling operations
\* of one function by the autoscaler's claim, which an operation outlives when
\* the function is deleted: hence Lineage.
IInv == Placed /\ Lineage /\ Claims /\ Admission /\ Records

\* Only the goroutines of S move.
Moved(S) ==
  /\ pc' \in [Threads -> PcLabels] /\ local' \in [Threads -> LocalType]
  /\ \A t \in Threads \ S : pc'[t] = pc[t] /\ local'[t] = local[t]

\* A move of t that begins and ends no scaling operation,
ScalesOn(t) ==
  /\ pc'[t] \in ScaleUpLabels <=> pc[t] \in ScaleUpLabels
  /\ pc'[t] \in DownLabels <=> pc[t] \in DownLabels
  /\ pc[t] \in Operations =>
       local'[t].fn = local[t].fn /\ local'[t].entry = local[t].entry

\* that takes and gives back neither mark nor slot,
AdmittedOn(t) ==
  t \in Prewarmers =>
    /\ pc'[t] \in MarkLabels <=> pc[t] \in MarkLabels
    /\ pc'[t] \in SlotLabels <=> pc[t] \in SlotLabels
    /\ pc[t] \in MarkLabels => local'[t].fn = local[t].fn

\* and that owes no record more and none less.
RecordsOn(t) ==
  /\ pc'[t] = "record" <=> pc[t] = "record"
  /\ pc[t] = "record" => local'[t].fn = local[t].fn

PlacedAt(t) == Role(t, pc'[t]) /\ Operand(pc'[t], local'[t])

Aside(t) == PlacedAt(t) /\ ScalesOn(t) /\ AdmittedOn(t) /\ RecordsOn(t)
-----------------------------------------------------------------------------
(* Facts about the constants and about Goto. *)

LEMMA Distinct ==
  /\ None \notin Handlers
  /\ None \notin Functions
  /\ \A t \in Scouts : t \notin Prewarmers /\ t \notin Callers /\ t \notin Scalers
  /\ \A t \in Prewarmers : t \notin Callers /\ t \notin Scalers
  /\ \A t \in Callers : t \notin Scalers
  /\ \A t \in Scouts \cup Prewarmers \cup Callers \cup Scalers : t \in Threads
  BY ThreadsAssumption DEF Threads

LEMMA LocalTyped ==
  ASSUME TypeOK, NEW t \in Threads
  PROVE  local[t] \in LocalType
  BY DEF TypeOK, LocalType

LEMMA GotoMoves ==
  ASSUME TypeOK, NEW t \in Threads, NEW label \in PcLabels, NEW v \in LocalType,
         Goto(t, label, v)
  PROVE  Moved({t}) /\ pc'[t] = label /\ local'[t] = v
  BY DEF TypeOK, Goto, Moved, LocalType

LEMMA ContinueMoves ==
  ASSUME TypeOK, NEW t \in Threads, NEW label \in PcLabels, Continue(t, label)
  PROVE  Moved({t}) /\ pc'[t] = label /\ local'[t] = local[t]
  BY GotoMoves, LocalTyped DEF Continue

LEMMA ResetTyped ==
  /\ Reset \in LocalType /\ Reset.entry = None
  /\ \A f \in Functions : [Reset EXCEPT !.fn = f] \in LocalType
                          /\ [Reset EXCEPT !.fn = f].fn = f
                          /\ [Reset EXCEPT !.fn = f].entry = None
  BY DEF Reset, LocalType

LEMMA ReturnMoves ==
  ASSUME TypeOK, NEW t \in Threads, Return(t)
  PROVE  Moved({t}) /\ pc'[t] = "idle" /\ local'[t] = Reset
<1>1. "idle" \in PcLabels
  BY DEF PcLabels
<1> QED BY <1>1, ResetTyped, GotoMoves DEF Return

LEMMA GotoAndGoMoves ==
  ASSUME TypeOK, NEW t \in Threads, NEW u \in Threads, t # u,
         NEW label \in PcLabels, NEW v \in LocalType,
         NEW label_u \in PcLabels, NEW v_u \in LocalType,
         GotoAndGo(t, label, v, u, label_u, v_u)
  PROVE  /\ Moved({t, u}) /\ At(u, "idle")
         /\ pc'[t] = label /\ local'[t] = v
         /\ pc'[u] = label_u /\ local'[u] = v_u
  BY DEF TypeOK, GotoAndGo, Moved, LocalType

-----------------------------------------------------------------------------
(* The autoscaler's operations, entry by entry. *)

LEMMA EntryTyped ==
  ASSUME TypeOK, NEW f \in Functions
  PROVE  /\ autoscaler[f].inFlight \in Nat /\ autoscaler[f].entry \in Handlers \cup {None}
         /\ autoscaler[f].entry # None =>
              autoscaler[f] \in [state : AS!ScalingState, inFlight : Nat, entry : Handlers]
         /\ autoscaler[f].entry = None => autoscaler[f] = AS!Unregistered
  BY Distinct DEF TypeOK, AS!TypeOK, AS!Unregistered

\* One entry of the autoscaler's changes, the others do not.
Changes(f) ==
  /\ AS!TypeOK'
  /\ \A g \in Functions : g # f => autoscaler'[g] = autoscaler[g]

LEMMA ClaimDownChanges ==
  ASSUME TypeOK, NEW f \in Functions, AS!ClaimScaleDown(f)
  PROVE  /\ Changes(f) /\ autoscaler[f].state = "Active" /\ autoscaler'[f].state = "ScalingDown"
         /\ autoscaler'[f].entry = autoscaler[f].entry
         /\ autoscaler[f].entry \in Handlers
         /\ autoscaler'[f].inFlight = autoscaler[f].inFlight
         /\ autoscaler[f].inFlight = 0
<1>1. autoscaler[f] \in [state : AS!ScalingState, inFlight : Nat, entry : Handlers]
  BY DEF TypeOK, AS!TypeOK, AS!Unregistered, AS!ClaimScaleDown, AS!Idle, AS!InState
<1>2. autoscaler[f].state = "Active" /\ autoscaler[f].inFlight = 0
      /\ autoscaler' = [autoscaler EXCEPT ![f].state = "ScalingDown"]
  BY DEF AS!ClaimScaleDown, AS!Idle, AS!InState
<1> QED BY <1>1, <1>2 DEF Changes, TypeOK, AS!TypeOK, AS!ScalingState

LEMMA ClaimUpChanges ==
  ASSUME TypeOK, NEW f \in Functions, AS!ClaimScaleUp(f)
  PROVE  /\ Changes(f) /\ autoscaler[f].state = "ScaledDown" /\ autoscaler'[f].state = "ScalingUp"
         /\ autoscaler'[f].entry = autoscaler[f].entry
         /\ autoscaler[f].entry \in Handlers
         /\ autoscaler'[f].inFlight = autoscaler[f].inFlight
<1>1. autoscaler[f] \in [state : AS!ScalingState, inFlight : Nat, entry : Handlers]
  BY DEF TypeOK, AS!TypeOK, AS!Unregistered, AS!ClaimScaleUp, AS!InState
<1>2. autoscaler[f].state = "ScaledDown"
      /\ autoscaler' = [autoscaler EXCEPT ![f].state = "ScalingUp"]
  BY DEF AS!ClaimScaleUp, AS!InState
<1> QED BY <1>1, <1>2 DEF Changes, TypeOK, AS!TypeOK, AS!ScalingState

LEMMA SettleChanges ==
  ASSUME TypeOK, NEW f \in Functions, NEW entry \in Handlers, NEW active \in BOOLEAN,
         AS!Settle(f, entry, active)
  PROVE  /\ Changes(f)
         /\ autoscaler[f].entry = entry =>
              autoscaler'[f].state \in {"Active", "ScaledDown"}
         /\ autoscaler[f].entry # entry => autoscaler'[f] = autoscaler[f]
         /\ autoscaler'[f].entry = autoscaler[f].entry
         /\ autoscaler'[f].inFlight = autoscaler[f].inFlight
<1>1. CASE autoscaler[f].entry = entry
  <2>1. autoscaler[f] \in [state : AS!ScalingState, inFlight : Nat, entry : Handlers]
    BY <1>1, EntryTyped, Distinct
  <2>2. PICK s \in {"Active", "ScaledDown"} : autoscaler' = [autoscaler EXCEPT ![f].state = s]
    BY <1>1 DEF AS!Settle
  <2> QED BY <1>1, <2>1, <2>2 DEF Changes, TypeOK, AS!TypeOK, AS!ScalingState
<1>2. CASE autoscaler[f].entry # entry
  BY <1>2 DEF AS!Settle, Changes, TypeOK, AS!TypeOK
<1> QED BY <1>1, <1>2

LEMMA RegisterChanges ==
  ASSUME TypeOK, NEW f \in Functions, NEW entry \in Handlers, AS!RegisterFunction(f, entry)
  PROVE  /\ Changes(f) /\ autoscaler'[f].state = "Active"
         /\ autoscaler'[f].entry = entry /\ autoscaler'[f].inFlight = 0
  BY DEF AS!RegisterFunction, Changes, TypeOK, AS!TypeOK, AS!ScalingState

LEMMA UnregisterChanges ==
  ASSUME TypeOK, NEW f \in Functions, AS!UnregisterFunction(f)
  PROVE  /\ Changes(f) /\ autoscaler'[f].state = "Unregistered"
         /\ autoscaler'[f].entry = None /\ autoscaler'[f].inFlight = 0
  BY DEF AS!UnregisterFunction, AS!Unregistered, Changes, TypeOK, AS!TypeOK

LEMMA StartChanges ==
  ASSUME TypeOK, NEW f \in Functions, AS!StartInvocation(f)
  PROVE  /\ Changes(f) /\ autoscaler'[f].state = autoscaler[f].state
         /\ autoscaler'[f].entry = autoscaler[f].entry
         /\ autoscaler'[f].inFlight = autoscaler[f].inFlight + 1
<1>1. autoscaler[f] \in [state : AS!ScalingState, inFlight : Nat, entry : Handlers]
  BY DEF TypeOK, AS!TypeOK, AS!Unregistered, AS!StartInvocation, AS!InState
<1>2. autoscaler' = [autoscaler EXCEPT ![f].inFlight = autoscaler[f].inFlight + 1]
  BY DEF AS!StartInvocation
<1>3. autoscaler[f].inFlight + 1 \in Nat
  BY <1>1
<1> QED BY <1>1, <1>2, <1>3 DEF Changes, TypeOK, AS!TypeOK

LEMMA EndChanges ==
  ASSUME TypeOK, NEW f \in Functions, AS!EndInvocation(f)
  PROVE  /\ Changes(f) /\ autoscaler'[f].state = autoscaler[f].state
         /\ autoscaler'[f].entry = autoscaler[f].entry
         /\ autoscaler'[f].inFlight =
              IF autoscaler[f].inFlight > 0 THEN autoscaler[f].inFlight - 1 ELSE 0
<1> DEFINE n == IF autoscaler[f].inFlight > 0 THEN autoscaler[f].inFlight - 1 ELSE 0
<1>1. n \in Nat
  BY EntryTyped
<1>2. autoscaler' = [autoscaler EXCEPT ![f].inFlight = n]
  BY DEF AS!EndInvocation
<1>3. CASE autoscaler[f] \in [state : AS!ScalingState, inFlight : Nat, entry : Handlers]
  <2> HIDE DEF n
  <2>1. /\ Changes(f) /\ autoscaler'[f].state = autoscaler[f].state
        /\ autoscaler'[f].entry = autoscaler[f].entry /\ autoscaler'[f].inFlight = n
    BY <1>1, <1>2, <1>3 DEF Changes, TypeOK, AS!TypeOK
  <2> QED BY <2>1 DEF n
<1>4. CASE autoscaler[f] = AS!Unregistered
  <2>1. n = 0
    BY <1>4 DEF AS!Unregistered
  <2> HIDE DEF n
  <2>2. /\ Changes(f) /\ autoscaler'[f].state = autoscaler[f].state
        /\ autoscaler'[f].entry = autoscaler[f].entry /\ autoscaler'[f].inFlight = n
    BY <1>2, <1>4, <2>1 DEF Changes, TypeOK, AS!TypeOK, AS!Unregistered
  <2> QED BY <2>2 DEF n
<1> QED BY <1>3, <1>4 DEF TypeOK, AS!TypeOK

-----------------------------------------------------------------------------
(* Parts of the invariant that a step does not disturb. *)

LEMMA PlacedKept ==
  ASSUME IInv, NEW S, Moved(S), \A t \in S : PlacedAt(t)
  PROVE  Placed'
  BY DEF IInv, Placed, Moved, PlacedAt

LEMMA ClaimsKept ==
  ASSUME IInv, Placed', NEW S, Moved(S), \A t \in S : ScalesOn(t),
         \A f \in Functions : /\ autoscaler'[f].state = autoscaler[f].state
                              /\ autoscaler'[f].entry = autoscaler[f].entry
  PROVE  Lineage' /\ Claims'
<1>1. \A t \in Threads : ScalesOn(t)
  BY DEF Moved, ScalesOn
<1>2. \A t \in Threads : /\ pc[t] \in Operations <=> local[t].entry # None
                         /\ pc'[t] \in Operations <=> local'[t].entry # None
  BY Distinct DEF IInv, Placed, Operand
<1>3. Lineage'
  BY <1>1, <1>2 DEF IInv, Lineage, ScalesOn, Operations
<1>4. \A t \in Threads, f \in Functions :
        pc[t] \in Operations => (Owns(t, f)' <=> Owns(t, f))
  BY <1>1 DEF Owns, ScalesOn
<1>5. Claims'
  BY <1>1, <1>4 DEF IInv, Claims, AS!InState, ScalesOn, Operations
<1> QED BY <1>3, <1>5

LEMMA AdmissionKept ==
  ASSUME IInv, NEW S, Moved(S), \A t \in S : AdmittedOn(t), UNCHANGED admission
  PROVE  Admission'
<1>1. \A t \in Prewarmers : AdmittedOn(t)
  BY Distinct DEF Moved, AdmittedOn
<1>2. Holders' = Holders
  BY <1>1 DEF Holders, AdmittedOn
<1>3. ASSUME NEW f \in Functions PROVE Admitted(f)' = Admitted(f)
  BY <1>1 DEF Admitted, AdmittedOn
<1> QED BY <1>2, <1>3 DEF IInv, Admission, AdmissionBalanced, OnePrewarmPerTarget,
   admission

LEMMA RecordsKept ==
  ASSUME IInv, NEW S, Moved(S), \A t \in S : RecordsOn(t), UNCHANGED unrecorded
  PROVE  Records'
<1>1. \A t \in Threads : RecordsOn(t)
  BY DEF Moved, RecordsOn
<1>2. ASSUME NEW f \in Functions, NEW m \in Modes
      PROVE  Recording(f, m)' = Recording(f, m)
  BY <1>1 DEF Recording, RecordsOn, At, Mode
<1> QED BY <1>2 DEF IInv, Records

LEMMA AsideInv ==
  ASSUME TypeOK, IInv, NEW S, Moved(S), \A t \in S : Aside(t),
         UNCHANGED <<admission, unrecorded>>,
         route' \in [Functions -> {"active", "inactive", "none"}], AS!TypeOK',
         \A f \in Functions : /\ autoscaler'[f].state = autoscaler[f].state
                              /\ autoscaler'[f].entry = autoscaler[f].entry
  PROVE  TypeOK' /\ IInv'
<1>1. TypeOK'
  BY DEF TypeOK, Moved, LocalType, admission
<1>2. Placed'
  BY PlacedKept DEF Aside
<1>3. Lineage' /\ Claims'
  BY <1>2, ClaimsKept DEF Aside
<1>4. Admission' /\ Records'
  BY AdmissionKept, RecordsKept DEF Aside
<1> QED BY <1>1, <1>2, <1>3, <1>4 DEF IInv

\* The usual case: nothing shared changes but perhaps the route.
LEMMA QuietInv ==
  ASSUME TypeOK, IInv, NEW S, Moved(S), \A t \in S : Aside(t),
         UNCHANGED <<autoscaler, admission, unrecorded>>,
         \/ UNCHANGED route
         \/ \E f \in Functions, r \in {"active", "inactive", "none"} : SetRoute(f, r)
  PROVE  TypeOK' /\ IInv'
<1>1. route' \in [Functions -> {"active", "inactive", "none"}] /\ AS!TypeOK'
  BY DEF TypeOK, SetRoute, AS!TypeOK
<1> QED BY <1>1, AsideInv

-----------------------------------------------------------------------------
(* Steps that only their goroutine, and perhaps a route, sees. *)

LEMMA FireInv ==
  ASSUME TypeOK, IInv, NEW p \in Prewarmers, Fire(p)
  PROVE  TypeOK' /\ IInv'
<1>1. /\ At(p, "timer")
      /\ p \in Threads
      /\ UNCHANGED <<route, autoscaler, admission, unrecorded>>
  BY Distinct DEF Fire, shared
<1>2. /\ Moved({p})
      /\ \/ pc'[p] = "mark" /\ local'[p] = local[p]
         \/ pc'[p] = "idle" /\ local'[p] = Reset
  BY <1>1, ContinueMoves, ReturnMoves DEF Fire, PcLabels
<1>3. Aside(p)
  BY <1>1, <1>2, ResetTyped, Distinct DEF Aside, PlacedAt, Role, Operand, ScalesOn,
     AdmittedOn, RecordsOn, IInv, Placed, At, MarkLabels, SlotLabels, ScaleUpLabels,
     DownLabels, Operations
<1> QED BY <1>1, <1>2, <1>3, QuietInv

LEMMA UpRestartInv ==
  ASSUME TypeOK, IInv, NEW t \in Prewarmers \cup Callers, UpRestart(t)
  PROVE  TypeOK' /\ IInv'
<1>1. /\ At(t, "upRestart")
      /\ t \in Threads
      /\ UNCHANGED <<autoscaler, admission, unrecorded>>
      /\ local[t].fn \in Functions
  BY Distinct DEF UpRestart, IInv, Placed, Operand, At
<1>2. SetRoute(local[t].fn, "active") \/ UNCHANGED route
  BY DEF UpRestart
<1> DEFINE v == [local[t] EXCEPT !.ok = TRUE]
<1>3. /\ v \in LocalType /\ local[t] \in LocalType
      /\ v.fn = local[t].fn /\ v.entry = local[t].entry
  BY <1>1, LocalTyped DEF LocalType
<1>4. Goto(t, "upDone", v) \/ Continue(t, "upDone")
  BY DEF UpRestart
<1> HIDE DEF v
<1>5. "upDone" \in PcLabels
  BY DEF PcLabels, MarkLabels, SlotLabels, ScaleUpLabels
<1>6. /\ Moved({t}) /\ pc'[t] = "upDone"
      /\ local'[t].fn = local[t].fn /\ local'[t].entry = local[t].entry
  <2>1. CASE Goto(t, "upDone", v)
    BY <1>1, <1>3, <1>5, <2>1, GotoMoves
  <2>2. CASE Continue(t, "upDone")
    BY <1>1, <1>5, <2>2, ContinueMoves
  <2> QED BY <1>4, <2>1, <2>2
<1>7. Aside(t)
  BY <1>1, <1>6, Distinct DEF Aside, PlacedAt, Role, Operand, ScalesOn, AdmittedOn,
     RecordsOn, IInv, Placed, At, MarkLabels, SlotLabels, ScaleUpLabels, DownLabels,
     Operations
<1> QED BY <1>1, <1>2, <1>6, <1>7, QuietInv

LEMMA SkipMoves ==
  ASSUME TypeOK, NEW s \in Scouts, NEW target, Skip(s, target), pc[s] \in {"eager", "schedule"}
  PROVE  Moved({s}) /\ pc'[s] = pc[s] /\ local'[s].entry = local[s].entry
<1> DEFINE v == [local[s] EXCEPT !.todo = @ \ {target}]
<1>1. v \in LocalType /\ v.entry = local[s].entry /\ s \in Threads
  BY LocalTyped, Distinct DEF LocalType
<1>2. Goto(s, pc[s], v) /\ pc[s] \in PcLabels
  BY DEF Skip, PcLabels
<1> HIDE DEF v
<1> QED BY <1>1, <1>2, GotoMoves

LEMMA StartPrewarmMoves ==
  ASSUME TypeOK, NEW s \in Scouts, NEW target \in Targets, NEW label \in {"mark", "timer"},
         StartPrewarm(s, target, label), pc[s] \in {"eager", "schedule"}
  PROVE  \E p \in Prewarmers :
           /\ Moved({s, p}) /\ At(p, "idle")
           /\ pc'[s] = pc[s] /\ local'[s].entry = local[s].entry
           /\ pc'[p] = label /\ local'[p].fn \in Functions /\ local'[p].entry = None
<1> DEFINE v == [local[s] EXCEPT !.todo = @ \ {target}]
           w == [Reset EXCEPT !.fn = target.fn]
<1>1. PICK p \in Prewarmers : GotoAndGo(s, pc[s], v, p, label, w)
  BY DEF StartPrewarm
<1>2. v \in LocalType /\ v.entry = local[s].entry /\ s \in Threads
  BY LocalTyped, Distinct DEF LocalType
<1>3. target.fn \in Functions
  BY TargetsAssumption
<1>4. w \in LocalType /\ w.fn \in Functions /\ w.entry = None
  BY <1>3, ResetTyped
<1>5. p \in Threads /\ s # p /\ pc[s] \in PcLabels /\ label \in PcLabels
  BY Distinct DEF PcLabels
<1> HIDE DEF v, w
<1>6. /\ Moved({s, p}) /\ At(p, "idle") /\ pc'[s] = pc[s] /\ local'[s] = v
      /\ pc'[p] = label /\ local'[p] = w
  BY <1>1, <1>2, <1>4, <1>5, GotoAndGoMoves
<1> QED BY <1>2, <1>4, <1>6

\* A scout's step over one prediction: it is skipped, or a prewarm starts.
LEMMA PredictionInv ==
  ASSUME TypeOK, IInv, NEW s \in Scouts, NEW target \in Targets,
         NEW label \in {"mark", "timer"},
         Skip(s, target) \/ StartPrewarm(s, target, label),
         pc[s] \in {"eager", "schedule"}, UNCHANGED <<shared, admission, unrecorded>>
  PROVE  TypeOK' /\ IInv'
<1>1. UNCHANGED <<route, autoscaler, admission, unrecorded>> /\ s \in Threads
  BY Distinct DEF shared
<1>2. CASE Skip(s, target)
  <2>1. Moved({s}) /\ pc'[s] = pc[s] /\ local'[s].entry = local[s].entry
    BY <1>2, SkipMoves
  <2>2. Aside(s)
    BY <1>1, <2>1, Distinct DEF Aside, PlacedAt, Role, Operand, ScalesOn,
       AdmittedOn, RecordsOn, IInv, Placed, At, MarkLabels, SlotLabels,
       ScaleUpLabels, DownLabels, Operations
  <2> QED BY <1>1, <2>1, <2>2, QuietInv
<1>3. CASE StartPrewarm(s, target, label)
  <2>1. PICK p \in Prewarmers :
           /\ Moved({s, p}) /\ At(p, "idle")
           /\ pc'[s] = pc[s] /\ local'[s].entry = local[s].entry
           /\ pc'[p] = label /\ local'[p].fn \in Functions /\ local'[p].entry = None
    BY <1>3, StartPrewarmMoves
  <2>2. Aside(s)
    BY <1>1, <2>1, Distinct DEF Aside, PlacedAt, Role, Operand, ScalesOn,
       AdmittedOn, RecordsOn, IInv, Placed, At, MarkLabels, SlotLabels,
       ScaleUpLabels, DownLabels, Operations
  <2>3. Aside(p)
    BY <2>1, Distinct DEF Aside, PlacedAt, Role, Operand, ScalesOn, AdmittedOn,
       RecordsOn, IInv, Placed, At, MarkLabels, SlotLabels, ScaleUpLabels,
       DownLabels, Operations
  <2> QED BY <1>1, <2>1, <2>2, <2>3, QuietInv
<1> QED BY <1>2, <1>3

LEMMA EagerTargetInv ==
  ASSUME TypeOK, IInv, NEW s \in Scouts, EagerTarget(s)
  PROVE  TypeOK' /\ IInv'
<1>1. local[s].todo \subseteq Targets
  BY LocalTyped, Distinct DEF LocalType
<1>2. PICK target \in local[s].todo, label \in {"mark", "timer"} :
        Skip(s, target) \/ StartPrewarm(s, target, label)
  BY DEF EagerTarget
<1>3. pc[s] \in {"eager", "schedule"} /\ UNCHANGED <<shared, admission, unrecorded>>
  BY DEF EagerTarget, At
<1> QED BY <1>1, <1>2, <1>3, PredictionInv

LEMMA ScheduleTargetInv ==
  ASSUME TypeOK, IInv, NEW s \in Scouts, ScheduleTarget(s)
  PROVE  TypeOK' /\ IInv'
<1>1. local[s].todo \subseteq Targets
  BY LocalTyped, Distinct DEF LocalType
<1>2. PICK target \in local[s].todo :
        Skip(s, target) \/ StartPrewarm(s, target, "timer")
  BY DEF ScheduleTarget
<1>3. pc[s] \in {"eager", "schedule"} /\ UNCHANGED <<shared, admission, unrecorded>>
  BY DEF ScheduleTarget, At
<1> QED BY <1>1, <1>2, <1>3, PredictionInv

LEMMA ScoutDoneInv ==
  ASSUME TypeOK, IInv, NEW s \in Scouts, ScoutDone(s)
  PROVE  TypeOK' /\ IInv'
<1>1. /\ pc[s] \in {"eager", "schedule"} /\ s \in Threads
      /\ UNCHANGED <<route, autoscaler, admission, unrecorded>>
  BY Distinct DEF ScoutDone, shared
<1>2. Moved({s}) /\ pc'[s] = "idle" /\ local'[s] = Reset
  BY <1>1, ReturnMoves DEF ScoutDone
<1>3. Aside(s)
  BY <1>1, <1>2, ResetTyped, Distinct DEF Aside, PlacedAt, Role, Operand, ScalesOn,
     AdmittedOn, RecordsOn, IInv, Placed, At, MarkLabels, SlotLabels, ScaleUpLabels,
     DownLabels, Operations
<1> QED BY <1>1, <1>2, <1>3, QuietInv

\* An invocation goes on, perhaps with a scout beside it.
LEMMA GotoAndScoutMoves ==
  ASSUME TypeOK, NEW c \in Callers, NEW label \in PcLabels, NEW v \in LocalType,
         NEW work \in {"eager", "schedule"}, GotoAndScout(c, label, v, work)
  PROVE  /\ pc'[c] = label /\ local'[c] = v
         /\ \/ Moved({c})
            \/ \E s \in Scouts : /\ Moved({c, s}) /\ At(s, "idle")
                                 /\ pc'[s] = work /\ local'[s].entry = None
<1>1. CASE Goto(c, label, v)
  BY <1>1, GotoMoves, Distinct
<1>2. ASSUME NEW s \in Scouts, NEW targets \in SUBSET Targets,
             GotoAndGo(c, label, v, s, work, [Reset EXCEPT !.todo = targets])
      PROVE  /\ pc'[c] = label /\ local'[c] = v
             /\ Moved({c, s})
             /\ At(s, "idle")
             /\ pc'[s] = work
             /\ local'[s].entry = None
  <2> DEFINE w == [Reset EXCEPT !.todo = targets]
  <2>1. w \in LocalType /\ w.entry = None
    BY DEF Reset, LocalType
  <2>2. work \in PcLabels /\ c # s /\ c \in Threads /\ s \in Threads
    BY Distinct DEF PcLabels
  <2>3. GotoAndGo(c, label, v, s, work, w)
    BY <1>2
  <2> HIDE DEF w
  <2> QED BY <2>1, <2>2, <2>3, GotoAndGoMoves
<1> QED BY <1>1, <1>2 DEF GotoAndScout

LEMMA CallInv ==
  ASSUME TypeOK, IInv, NEW c \in Callers, NEW f \in Functions, Call(c, f)
  PROVE  TypeOK' /\ IInv'
<1>1. /\ At(c, "idle")
      /\ UNCHANGED <<route, autoscaler, admission, unrecorded>>
      /\ c \in Threads
  BY Distinct DEF Call, shared
<1> DEFINE v == [Reset EXCEPT !.fn = f]
<1>2. v \in LocalType /\ v.fn = f /\ v.entry = None
  BY ResetTyped
<1>3. /\ Goto(c, "begin", v) \/ GotoAndScout(c, "coldStart", v, "eager")
      /\ "begin" \in PcLabels /\ "coldStart" \in PcLabels
  BY DEF Call, PcLabels
<1> HIDE DEF v
<1>4. /\ pc'[c] \in {"begin", "coldStart"} /\ local'[c] = v
      /\ \/ Moved({c})
         \/ \E s \in Scouts : /\ Moved({c, s}) /\ At(s, "idle")
                              /\ pc'[s] = "eager" /\ local'[s].entry = None
  <2>1. CASE Goto(c, "begin", v)
    BY <1>1, <1>2, <1>3, <2>1, GotoMoves
  <2>2. CASE GotoAndScout(c, "coldStart", v, "eager")
    <3>1. /\ pc'[c] = "coldStart" /\ local'[c] = v
          /\ \/ Moved({c})
             \/ \E s \in Scouts : /\ Moved({c, s}) /\ At(s, "idle")
                                  /\ pc'[s] = "eager" /\ local'[s].entry = None
      BY <1>2, <1>3, <2>2, GotoAndScoutMoves
    <3> QED BY <3>1
  <2> QED BY <1>3, <2>1, <2>2
<1>5. Aside(c)
  BY <1>1, <1>2, <1>4, Distinct DEF Aside, PlacedAt, Role, Operand, ScalesOn,
     AdmittedOn, RecordsOn, IInv, Placed, At, MarkLabels, SlotLabels, ScaleUpLabels,
     DownLabels, Operations
<1>6. ASSUME NEW s \in Scouts, At(s, "idle"), pc'[s] = "eager", local'[s].entry = None
      PROVE  Aside(s)
  BY <1>6, Distinct DEF Aside, PlacedAt, Role, Operand, ScalesOn, AdmittedOn,
     RecordsOn, IInv, Placed, At, MarkLabels, SlotLabels, ScaleUpLabels, DownLabels,
     Operations
<1> QED BY <1>1, <1>4, <1>5, <1>6, QuietInv

LEMMA WaitRouteInv ==
  ASSUME TypeOK, IInv, NEW c \in Callers, WaitRoute(c)
  PROVE  TypeOK' /\ IInv'
<1>1. /\ At(c, "waitRoute") /\ UNCHANGED <<route, autoscaler, admission, unrecorded>>
      /\ c \in Threads
  BY Distinct DEF WaitRoute, shared
<1>2. /\ Moved({c})
      /\ \/ pc'[c] = "begin" /\ local'[c] = local[c]
         \/ pc'[c] = "idle" /\ local'[c] = Reset
  BY <1>1, ContinueMoves, ReturnMoves DEF WaitRoute, PcLabels
<1>3. Aside(c)
  BY <1>1, <1>2, ResetTyped, Distinct DEF Aside, PlacedAt, Role, Operand, ScalesOn,
     AdmittedOn, RecordsOn, IInv, Placed, At, MarkLabels, SlotLabels, ScaleUpLabels,
     DownLabels, Operations
<1> QED BY <1>1, <1>2, <1>3, QuietInv

LEMMA BeginInv ==
  ASSUME TypeOK, IInv, NEW c \in Callers, Begin(c)
  PROVE  TypeOK' /\ IInv'
<1>1. /\ At(c, "begin") /\ UNCHANGED <<route, admission, unrecorded>>
      /\ c \in Threads /\ local[c].fn \in Functions /\ local[c] \in LocalType
  BY Distinct, LocalTyped DEF Begin, IInv, Placed, Operand, At, MarkLabels,
     SlotLabels, ScaleUpLabels, DownLabels, Operations
<1>2. CASE AS!StartInvocation(local[c].fn) /\ GotoAndScout(c, "http", local[c], "schedule")
  <2>1. /\ AS!TypeOK'
        /\ \A f \in Functions : /\ autoscaler'[f].state = autoscaler[f].state
                                /\ autoscaler'[f].entry = autoscaler[f].entry
    BY <1>1, <1>2, StartChanges DEF Changes
  <2>2. "http" \in PcLabels
    BY DEF PcLabels
  <2>3. /\ pc'[c] = "http" /\ local'[c] = local[c]
        /\ \/ Moved({c})
           \/ \E s \in Scouts : /\ Moved({c, s}) /\ At(s, "idle")
                                /\ pc'[s] = "schedule" /\ local'[s].entry = None
    BY <1>1, <1>2, <2>2, GotoAndScoutMoves
  <2>4. Aside(c)
    BY <1>1, <2>3, Distinct DEF Aside, PlacedAt, Role, Operand, ScalesOn,
       AdmittedOn, RecordsOn, IInv, Placed, At, MarkLabels, SlotLabels,
       ScaleUpLabels, DownLabels, Operations
  <2>5. ASSUME NEW s \in Scouts, At(s, "idle"), pc'[s] = "schedule", local'[s].entry = None
        PROVE  Aside(s)
    BY <2>5, Distinct DEF Aside, PlacedAt, Role, Operand, ScalesOn, AdmittedOn,
       RecordsOn, IInv, Placed, At, MarkLabels, SlotLabels, ScaleUpLabels,
       DownLabels, Operations
  <2>6. route' \in [Functions -> {"active", "inactive", "none"}]
    BY <1>1 DEF TypeOK
  <2> QED BY <1>1, <2>1, <2>3, <2>4, <2>5, <2>6, AsideInv
<1>3. CASE Return(c) /\ UNCHANGED autoscaler
  <2>1. Moved({c}) /\ pc'[c] = "idle" /\ local'[c] = Reset
    BY <1>1, <1>3, ReturnMoves
  <2>2. Aside(c)
    BY <1>1, <2>1, ResetTyped, Distinct DEF Aside, PlacedAt, Role, Operand,
       ScalesOn, AdmittedOn, RecordsOn, IInv, Placed, At, MarkLabels, SlotLabels,
       ScaleUpLabels, DownLabels, Operations
  <2> QED BY <1>1, <1>3, <2>1, <2>2, QuietInv
<1> QED BY <1>2, <1>3 DEF Begin

LEMMA FinishInv ==
  ASSUME TypeOK, IInv, NEW c \in Callers, Finish(c)
  PROVE  TypeOK' /\ IInv'
<1>1. /\ At(c, "http") /\ UNCHANGED <<route, admission, unrecorded>>
      /\ c \in Threads /\ local[c].fn \in Functions
  BY Distinct DEF Finish, IInv, Placed, Operand, At
<1>2. /\ AS!TypeOK'
      /\ \A f \in Functions : /\ autoscaler'[f].state = autoscaler[f].state
                              /\ autoscaler'[f].entry = autoscaler[f].entry
  BY <1>1, EndChanges DEF Changes, Finish
<1>3. Moved({c}) /\ pc'[c] = "idle" /\ local'[c] = Reset
  BY <1>1, ReturnMoves DEF Finish
<1>4. Aside(c)
  BY <1>1, <1>3, ResetTyped, Distinct DEF Aside, PlacedAt, Role, Operand, ScalesOn,
     AdmittedOn, RecordsOn, IInv, Placed, At, MarkLabels, SlotLabels, ScaleUpLabels,
     DownLabels, Operations
<1>5. route' \in [Functions -> {"active", "inactive", "none"}]
  BY <1>1 DEF TypeOK
<1> QED BY <1>1, <1>2, <1>3, <1>4, <1>5, AsideInv

LEMMA DownUpdateInv ==
  ASSUME TypeOK, IInv, NEW s \in Scalers, DownUpdate(s)
  PROVE  TypeOK' /\ IInv'
<1>1. /\ At(s, "downUpdate") /\ UNCHANGED <<autoscaler, admission, unrecorded>>
      /\ s \in Threads /\ local[s].fn \in Functions
  BY Distinct DEF DownUpdate, IInv, Placed, Operand, At
<1>2. UNCHANGED route \/ SetRoute(local[s].fn, "inactive")
  BY DEF DownUpdate
<1>3. Moved({s}) /\ pc'[s] = "downStop" /\ local'[s] = local[s]
  BY <1>1, ContinueMoves DEF DownUpdate, PcLabels
<1>4. Aside(s)
  BY <1>1, <1>3, Distinct DEF Aside, PlacedAt, Role, Operand, ScalesOn, AdmittedOn,
     RecordsOn, IInv, Placed, At, MarkLabels, SlotLabels, ScaleUpLabels, DownLabels,
     Operations
<1> QED BY <1>1, <1>2, <1>3, <1>4, QuietInv

-----------------------------------------------------------------------------
(* Scaling operations: a claim, what follows it, and its settlement. *)

LEMMA BeginScaleUpInv ==
  ASSUME TypeOK, IInv, NEW t \in Prewarmers \cup Callers, NEW f \in Functions,
         f = local[t].fn, BeginScaleUp(t, f), pc[t] \in {"try", "coldStart"},
         At(t, "coldStart") => t \in Callers, At(t, "try") => t \in Prewarmers
  PROVE  TypeOK' /\ IInv'
<1>1. /\ AS!ClaimScaleUp(f)
      /\ UNCHANGED <<route, admission, unrecorded>>
      /\ t \in Threads
      /\ "upRestart" \in PcLabels
  BY Distinct DEF BeginScaleUp, PcLabels, MarkLabels, SlotLabels, ScaleUpLabels,
     DownLabels, Operations
<1> DEFINE v == [local[t] EXCEPT !.fn = f, !.entry = autoscaler[f].entry]
<1>2. /\ Changes(f)
      /\ autoscaler[f].state = "ScaledDown"
      /\ autoscaler'[f].state = "ScalingUp"
      /\ autoscaler'[f].entry = autoscaler[f].entry
      /\ autoscaler[f].entry \in Handlers
  BY <1>1, ClaimUpChanges
<1>3. v \in LocalType /\ v.fn = f /\ v.entry = autoscaler[f].entry
  BY <1>1, <1>2, LocalTyped DEF LocalType
<1>4. Goto(t, "upRestart", v)
  BY DEF BeginScaleUp
<1> HIDE DEF v
<1>5. Moved({t}) /\ pc'[t] = "upRestart" /\ local'[t] = v
  BY <1>1, <1>3, <1>4, GotoMoves
<1>6. TypeOK'
  BY <1>1, <1>2, <1>5 DEF TypeOK, Moved, LocalType, Changes, admission
<1>7. PlacedAt(t) /\ AdmittedOn(t) /\ RecordsOn(t)
  BY <1>2, <1>3, <1>5, Distinct DEF Aside, PlacedAt, Role, Operand, ScalesOn,
     AdmittedOn, RecordsOn, IInv, Placed, At, MarkLabels, SlotLabels, ScaleUpLabels,
     DownLabels, Operations
<1>8. Placed' /\ Admission' /\ Records'
  BY <1>1, <1>5, <1>7, PlacedKept, AdmissionKept, RecordsKept
<1>9. Lineage'
  BY <1>2, <1>3, <1>5, Distinct DEF IInv, Lineage, Moved, Changes
<1>10. pc[t] \notin Operations
  BY DEF Operations, ScaleUpLabels, DownLabels
<1>11. \A u \in Threads : pc[u] \in Operations => local[u].entry # autoscaler[f].entry
  BY <1>2, Distinct DEF IInv, Lineage, Claims, Owns, AS!InState, Operations
<1>12. Claims'
  <2>1. pc'[t] \in ScaleUpLabels /\ pc'[t] \notin DownLabels /\ pc'[t] \in Operations
    BY <1>5 DEF ScaleUpLabels, DownLabels, Operations
  <2>2. ASSUME NEW g \in Functions
        PROVE  /\ AS!InState(g, "ScalingUp")' =>
                    \E u \in Threads : pc'[u] \in ScaleUpLabels /\ Owns(u, g)'
               /\ AS!InState(g, "ScalingDown")' =>
                    \E u \in Threads : pc'[u] \in DownLabels /\ Owns(u, g)'
    <3>1. CASE g = f
      BY <1>1, <1>2, <1>3, <1>5, <2>1, <3>1 DEF AS!InState, Owns
    <3>2. CASE g # f
      BY <1>2, <1>5, <1>10, <3>2 DEF IInv, Claims, AS!InState, Owns, Moved,
         Changes, Operations
    <3> QED BY <3>1, <3>2
  <2>3. ASSUME NEW u \in Threads, NEW g \in Functions, Owns(u, g)'
        PROVE  /\ pc'[u] \in ScaleUpLabels => AS!InState(g, "ScalingUp")'
               /\ pc'[u] \in DownLabels => AS!InState(g, "ScalingDown")'
    BY <1>2, <1>3, <1>5, <1>11, <2>1, <2>3
       DEF IInv, Claims, AS!InState, Owns, Moved, Changes, Operations
  <2>4. \A u, w \in Threads :
          pc'[u] \in Operations /\ pc'[w] \in Operations /\ local'[u].entry = local'[w].entry
            => u = w
    BY <1>2, <1>3, <1>5, <1>11 DEF IInv, Claims, Moved
  <2> QED BY <2>2, <2>3, <2>4 DEF Claims
<1> QED BY <1>6, <1>8, <1>9, <1>12 DEF IInv

\* Whoever settles is no owner any more, and leaves no claim behind.
LEMMA SettleClaims ==
  ASSUME TypeOK, IInv, NEW t \in Threads, Moved({t}), NEW active \in BOOLEAN,
         pc[t] \in Operations, pc'[t] \notin Operations, local'[t].entry = None,
         AS!Settle(local[t].fn, local[t].entry, active)
  PROVE  Lineage' /\ Claims' /\ AS!TypeOK'
<1> DEFINE f == local[t].fn
           e == local[t].entry
<1>1. f \in Functions /\ e \in Handlers
  BY DEF IInv, Placed, Operand, Operations, ScaleUpLabels, DownLabels
<1>2. /\ Changes(f)
      /\ autoscaler[f].entry = e => autoscaler'[f].state \in {"Active", "ScaledDown"}
      /\ autoscaler[f].entry # e => autoscaler'[f] = autoscaler[f]
      /\ autoscaler'[f].entry = autoscaler[f].entry
  BY <1>1, SettleChanges
<1>3. \A g \in Functions : autoscaler'[g].entry = autoscaler[g].entry
  BY <1>2 DEF Changes
<1>4. Lineage'
  BY <1>3 DEF IInv, Lineage, Moved
<1>5. \A u \in Threads, g \in Functions : u # t => (Owns(u, g)' <=> Owns(u, g))
  BY <1>3 DEF Owns, Moved
<1>6. Claims'
  <2>1. ASSUME NEW g \in Functions, NEW u \in Threads, Owns(u, g), pc[u] \in Operations,
               autoscaler'[g].state \in {"ScalingUp", "ScalingDown"}
        PROVE  u # t
    BY <1>2, <2>1 DEF Owns, Changes
  <2>2. ASSUME NEW g \in Functions, autoscaler'[g].state \in {"ScalingUp", "ScalingDown"}
        PROVE  autoscaler'[g].state = autoscaler[g].state
    BY <1>2, <2>2 DEF Changes
  <2>3. \A g \in Functions :
          /\ AS!InState(g, "ScalingUp")' =>
               \E u \in Threads : pc'[u] \in ScaleUpLabels /\ Owns(u, g)'
          /\ AS!InState(g, "ScalingDown")' =>
               \E u \in Threads : pc'[u] \in DownLabels /\ Owns(u, g)'
    BY <1>5, <2>1, <2>2 DEF IInv, Claims, AS!InState, Operations, Moved
  <2>4. ASSUME NEW u \in Threads, NEW g \in Functions, Owns(u, g)', pc'[u] \in Operations
        PROVE  /\ pc'[u] \in ScaleUpLabels => AS!InState(g, "ScalingUp")'
               /\ pc'[u] \in DownLabels => AS!InState(g, "ScalingDown")'
    <3>1. u # t /\ Owns(u, g) /\ pc'[u] = pc[u]
      BY <1>5, <2>4 DEF Moved
    <3>2. autoscaler'[g].state = autoscaler[g].state
      <4>1. CASE g = f
        <5>1. local[u].entry # e
          BY <2>4, <3>1 DEF IInv, Claims
        <5> QED BY <1>2, <3>1, <4>1, <5>1 DEF Owns
      <4>2. CASE g # f
        BY <1>2, <4>2 DEF Changes
      <4> QED BY <4>1, <4>2
    <3> QED BY <3>1, <3>2 DEF IInv, Claims, AS!InState
  <2>5. \A u, w \in Threads :
          pc'[u] \in Operations /\ pc'[w] \in Operations /\ local'[u].entry = local'[w].entry
            => u = w
    BY DEF IInv, Claims, Moved
  <2> QED BY <2>3, <2>4, <2>5 DEF Claims, Operations
<1> QED BY <1>2, <1>4, <1>6 DEF Changes

\* unrecorded and the goroutines that owe a record go up together, and down.
LEMMA RecordDue ==
  ASSUME TypeOK, IInv, NEW t \in Threads, Moved({t}), NEW f \in Functions, NEW m \in Modes,
         m = Mode(t), ~At(t, "record"), pc'[t] = "record", local'[t].fn = f,
         unrecorded' = [unrecorded EXCEPT ![f][m] = @ + 1]
  PROVE  Records' /\ unrecorded' \in [Functions -> [Modes -> Nat]]
<1>1. Recording(f, m)' = Recording(f, m) \cup {t} /\ t \notin Recording(f, m)
  BY DEF Recording, At, Mode, Moved
<1>2. \A g \in Functions, n \in Modes :
        g # f \/ n # m => Recording(g, n)' = Recording(g, n)
  BY DEF Recording, At, Mode, Moved
<1>3. IsFiniteSet(Recording(f, m)) /\ unrecorded[f][m] = Cardinality(Recording(f, m))
  BY DEF IInv, Records
<1>4. /\ IsFiniteSet(Recording(f, m)')
      /\ Cardinality(Recording(f, m)') = unrecorded[f][m] + 1
  BY <1>1, <1>3, FS_AddElement
<1>5. /\ unrecorded'[f][m] = unrecorded[f][m] + 1
      /\ unrecorded' \in [Functions -> [Modes -> Nat]]
      /\ \A g \in Functions, n \in Modes :
           g # f \/ n # m => unrecorded'[g][n] = unrecorded[g][n]
  BY DEF TypeOK
<1> QED BY <1>2, <1>4, <1>5 DEF IInv, Records

LEMMA RecordMade ==
  ASSUME TypeOK, IInv, NEW t \in Threads, Moved({t}), NEW f \in Functions, NEW m \in Modes,
         m = Mode(t), At(t, "record"), pc'[t] # "record", local[t].fn = f,
         unrecorded' = [unrecorded EXCEPT ![f][m] = @ - 1]
  PROVE  Records' /\ unrecorded' \in [Functions -> [Modes -> Nat]]
<1>1. Recording(f, m)' = Recording(f, m) \ {t} /\ t \in Recording(f, m)
  BY DEF Recording, At, Mode, Moved
<1>2. \A g \in Functions, n \in Modes :
        g # f \/ n # m => Recording(g, n)' = Recording(g, n)
  BY DEF Recording, At, Mode, Moved
<1>3. IsFiniteSet(Recording(f, m)) /\ unrecorded[f][m] = Cardinality(Recording(f, m))
  BY DEF IInv, Records
<1>4. /\ IsFiniteSet(Recording(f, m) \ {t})
      /\ Cardinality(Recording(f, m) \ {t}) = Cardinality(Recording(f, m)) - 1
  BY <1>1, <1>3, FS_RemoveElement
<1>5. unrecorded[f][m] - 1 \in Nat
  BY <1>3, <1>4, FS_CardinalityType
<1>6. /\ unrecorded'[f][m] = unrecorded[f][m] - 1
      /\ unrecorded' \in [Functions -> [Modes -> Nat]]
      /\ \A g \in Functions, n \in Modes :
           g # f \/ n # m => unrecorded'[g][n] = unrecorded[g][n]
  BY <1>5 DEF TypeOK
<1>7. /\ IsFiniteSet(Recording(f, m)')
      /\ unrecorded'[f][m] = Cardinality(Recording(f, m)')
  BY <1>1, <1>3, <1>4, <1>6
<1> QED BY <1>2, <1>6, <1>7 DEF IInv, Records

LEMMA SettledTyped ==
  ASSUME TypeOK, NEW t \in Threads
  PROVE  Settled(t) \in LocalType /\ Settled(t).fn = local[t].fn /\ Settled(t).entry = None
  BY LocalTyped DEF Settled, Reset, LocalType

LEMMA AfterScaleUpMoves ==
  ASSUME TypeOK, NEW t \in Prewarmers \cup Callers, NEW ok \in BOOLEAN, AfterScaleUp(t, ok)
  PROVE  /\ Moved({t}) /\ local'[t].entry = None
         /\ pc'[t] \in {"release", "waitRoute", "idle"}
         /\ t \in Prewarmers <=> pc'[t] = "release"
         /\ pc'[t] # "idle" => local'[t].fn = local[t].fn
<1>1. t \in Threads /\ {"release", "waitRoute"} \subseteq PcLabels
  BY Distinct DEF PcLabels, MarkLabels, SlotLabels, ScaleUpLabels, DownLabels,
     Operations
<1>2. CASE t \in Prewarmers
  <2>1. Goto(t, "release", Settled(t))
    BY <1>2, Distinct DEF AfterScaleUp
  <2>2. Moved({t}) /\ pc'[t] = "release" /\ local'[t] = Settled(t)
    BY <1>1, <2>1, SettledTyped, GotoMoves
  <2> QED BY <1>1, <1>2, <2>2, SettledTyped
<1>3. CASE t \in Callers /\ ok
  <2>1. Goto(t, "waitRoute", Settled(t))
    BY <1>3, Distinct DEF AfterScaleUp
  <2>2. Moved({t}) /\ pc'[t] = "waitRoute" /\ local'[t] = Settled(t)
    BY <1>1, <2>1, SettledTyped, GotoMoves
  <2> QED BY <1>1, <1>3, <2>2, SettledTyped, Distinct
<1>4. CASE t \in Callers /\ ~ok
  <2>1. Return(t)
    BY <1>4, Distinct DEF AfterScaleUp
  <2>2. Moved({t}) /\ pc'[t] = "idle" /\ local'[t] = Reset
    BY <1>1, <2>1, ReturnMoves
  <2> QED BY <1>4, <2>2, ResetTyped, Distinct
<1> QED BY <1>2, <1>3, <1>4

LEMMA UpDoneInv ==
  ASSUME TypeOK, IInv, NEW t \in Prewarmers \cup Callers, UpDone(t)
  PROVE  TypeOK' /\ IInv'
<1>1. /\ At(t, "upDone") /\ t \in Threads /\ UNCHANGED <<route, admission>>
      /\ local[t].fn \in Functions /\ local[t].ok \in BOOLEAN
      /\ AS!Settle(local[t].fn, local[t].entry, local[t].ok)
      /\ "record" \in PcLabels
  BY Distinct, LocalTyped DEF UpDone, IInv, Placed, Operand, At, LocalType, PcLabels,
     MarkLabels, SlotLabels, ScaleUpLabels, DownLabels, Operations
<1>2. Mode(t) \in Modes
  BY DEF Mode, Modes
<1>3. /\ Moved({t}) /\ pc'[t] \in {"record", "release", "idle"}
      /\ local'[t].entry = None
      /\ pc'[t] # "idle" => local'[t].fn = local[t].fn
      /\ t \in Prewarmers => pc'[t] # "idle"
      /\ t \in Callers => pc'[t] # "release"
      /\ Records' /\ unrecorded' \in [Functions -> [Modes -> Nat]]
  <2>1. CASE local[t].ok
    <3>1. /\ Goto(t, "record", Settled(t))
          /\ unrecorded' = [unrecorded EXCEPT ![local[t].fn][Mode(t)] = @ + 1]
      BY <2>1 DEF UpDone
    <3>2. /\ Moved({t}) /\ pc'[t] = "record" /\ local'[t] = Settled(t)
          /\ ~At(t, "record")
      BY <1>1, <3>1, SettledTyped, GotoMoves DEF At
    <3>3. Records' /\ unrecorded' \in [Functions -> [Modes -> Nat]]
      BY <1>1, <1>2, <3>1, <3>2, SettledTyped, RecordDue
    <3> QED BY <1>1, <3>2, <3>3, SettledTyped
  <2>2. CASE ~local[t].ok
    <3>1. AfterScaleUp(t, FALSE) /\ UNCHANGED unrecorded
      BY <2>2 DEF UpDone
    <3>2. /\ Moved({t}) /\ local'[t].entry = None
          /\ pc'[t] \in {"release", "waitRoute", "idle"}
          /\ t \in Prewarmers <=> pc'[t] = "release"
          /\ pc'[t] # "idle" => local'[t].fn = local[t].fn
      BY <3>1, AfterScaleUpMoves
    <3>3. pc'[t] # "waitRoute"
      <4>1. CASE t \in Callers
        BY <1>1, <3>1, <4>1, Distinct, ReturnMoves DEF AfterScaleUp
      <4> QED BY <3>2, <4>1
    <3>4. RecordsOn(t)
      BY <1>1, <3>2 DEF RecordsOn, At
    <3>5. Records'
      BY <3>1, <3>2, <3>4, RecordsKept
    <3> QED BY <3>1, <3>2, <3>3, <3>5, Distinct DEF TypeOK
  <2> QED BY <2>1, <2>2
<1>4. PlacedAt(t) /\ AdmittedOn(t)
  BY <1>1, <1>3, Distinct DEF Aside, PlacedAt, Role, Operand, ScalesOn, AdmittedOn,
     RecordsOn, IInv, Placed, At, MarkLabels, SlotLabels, ScaleUpLabels, DownLabels,
     Operations
<1>5. Placed' /\ Admission'
  BY <1>1, <1>3, <1>4, PlacedKept, AdmissionKept
<1>6. pc[t] \in Operations /\ pc'[t] \notin Operations
  BY <1>1, <1>3 DEF Operations, ScaleUpLabels, DownLabels, At
<1>7. Lineage' /\ Claims' /\ AS!TypeOK'
  BY <1>1, <1>3, <1>6, SettleClaims
<1>8. TypeOK'
  BY <1>1, <1>3, <1>7 DEF TypeOK, Moved, LocalType, admission
<1> QED BY <1>3, <1>5, <1>7, <1>8 DEF IInv

LEMMA RecordInv ==
  ASSUME TypeOK, IInv, NEW t \in Prewarmers \cup Callers, Record(t)
  PROVE  TypeOK' /\ IInv'
<1>1. /\ At(t, "record") /\ t \in Threads /\ UNCHANGED <<route, autoscaler, admission>>
      /\ local[t].fn \in Functions
      /\ unrecorded' = [unrecorded EXCEPT ![local[t].fn][Mode(t)] = @ - 1]
  BY Distinct DEF Record, IInv, Placed, Operand, At, shared
<1>2. Mode(t) \in Modes
  BY DEF Mode, Modes
<1>3. /\ Moved({t}) /\ local'[t].entry = None
      /\ pc'[t] \in {"release", "waitRoute", "idle"}
      /\ t \in Prewarmers <=> pc'[t] = "release"
      /\ pc'[t] # "idle" => local'[t].fn = local[t].fn
  BY AfterScaleUpMoves DEF Record
<1>4. Records' /\ unrecorded' \in [Functions -> [Modes -> Nat]]
  BY <1>1, <1>2, <1>3, RecordMade
<1>5. PlacedAt(t) /\ AdmittedOn(t) /\ ScalesOn(t)
  BY <1>1, <1>3, Distinct DEF Aside, PlacedAt, Role, Operand, ScalesOn, AdmittedOn,
     RecordsOn, IInv, Placed, At, MarkLabels, SlotLabels, ScaleUpLabels, DownLabels,
     Operations
<1>6. Placed' /\ Admission'
  BY <1>1, <1>3, <1>5, PlacedKept, AdmissionKept
<1>7. Lineage' /\ Claims'
  BY <1>1, <1>3, <1>5, <1>6, ClaimsKept
<1>8. TypeOK'
  BY <1>1, <1>3, <1>4 DEF TypeOK, Moved, LocalType, admission, AS!TypeOK
<1> QED BY <1>4, <1>6, <1>7, <1>8 DEF IInv

LEMMA ColdStartInv ==
  ASSUME TypeOK, IInv, NEW c \in Callers, ColdStart(c)
  PROVE  TypeOK' /\ IInv'
<1>1. /\ At(c, "coldStart") /\ c \in Threads /\ local[c].fn \in Functions
      /\ "waitRoute" \in PcLabels
  BY Distinct DEF ColdStart, IInv, Placed, Operand, At, PcLabels, MarkLabels,
     SlotLabels, ScaleUpLabels, DownLabels, Operations
<1>2. CASE BeginScaleUp(c, local[c].fn)
  <2>1. pc[c] \in {"try", "coldStart"} /\ ~At(c, "try")
    BY <1>1 DEF At
  <2> QED BY <1>1, <1>2, <2>1, BeginScaleUpInv
<1>3. CASE /\ Continue(c, "waitRoute") \/ Return(c)
           /\ UNCHANGED <<shared, admission, unrecorded>>
  <2>1. UNCHANGED <<route, autoscaler, admission, unrecorded>>
    BY <1>3 DEF shared
  <2>2. /\ Moved({c})
        /\ \/ pc'[c] = "waitRoute" /\ local'[c] = local[c]
           \/ pc'[c] = "idle" /\ local'[c] = Reset
    BY <1>1, <1>3, ContinueMoves, ReturnMoves
  <2>3. Aside(c)
    BY <1>1, <2>2, ResetTyped, Distinct DEF Aside, PlacedAt, Role, Operand,
       ScalesOn, AdmittedOn, RecordsOn, IInv, Placed, At, MarkLabels, SlotLabels,
       ScaleUpLabels, DownLabels, Operations
  <2> QED BY <2>1, <2>2, <2>3, QuietInv
<1> QED BY <1>2, <1>3 DEF ColdStart

LEMMA TryScaleUpInv ==
  ASSUME TypeOK, IInv, NEW p \in Prewarmers, TryScaleUp(p)
  PROVE  TypeOK' /\ IInv'
<1>1. /\ At(p, "try") /\ p \in Threads /\ local[p].fn \in Functions
      /\ "release" \in PcLabels
  BY Distinct DEF TryScaleUp, IInv, Placed, Operand, At, PcLabels, MarkLabels,
     SlotLabels, ScaleUpLabels, DownLabels, Operations
<1>2. CASE BeginScaleUp(p, local[p].fn)
  <2>1. pc[p] \in {"try", "coldStart"} /\ ~At(p, "coldStart")
    BY <1>1 DEF At
  <2> QED BY <1>1, <1>2, <2>1, BeginScaleUpInv
<1>3. CASE Continue(p, "release") /\ UNCHANGED <<shared, admission, unrecorded>>
  <2>1. UNCHANGED <<route, autoscaler, admission, unrecorded>>
    BY <1>3 DEF shared
  <2>2. Moved({p}) /\ pc'[p] = "release" /\ local'[p] = local[p]
    BY <1>1, <1>3, ContinueMoves
  <2>3. Aside(p)
    BY <1>1, <2>2, Distinct DEF Aside, PlacedAt, Role, Operand, ScalesOn,
       AdmittedOn, RecordsOn, IInv, Placed, At, MarkLabels, SlotLabels,
       ScaleUpLabels, DownLabels, Operations
  <2> QED BY <2>1, <2>2, <2>3, QuietInv
<1> QED BY <1>2, <1>3 DEF TryScaleUp

\* The mirror image of BeginScaleUpInv.
LEMMA BeginScaleDownInv ==
  ASSUME TypeOK, IInv, NEW s \in Scalers, NEW f \in Functions, BeginScaleDown(s, f)
  PROVE  TypeOK' /\ IInv'
<1>1. /\ At(s, "idle")
      /\ AS!ClaimScaleDown(f)
      /\ UNCHANGED <<route, admission, unrecorded>>
      /\ s \in Threads /\ "downUpdate" \in PcLabels
  BY Distinct DEF BeginScaleDown, PcLabels
<1> DEFINE v == [Reset EXCEPT !.fn = f, !.entry = autoscaler[f].entry]
<1>2. /\ Changes(f)
      /\ autoscaler[f].state = "Active"
      /\ autoscaler'[f].state = "ScalingDown"
      /\ autoscaler'[f].entry = autoscaler[f].entry
      /\ autoscaler[f].entry \in Handlers
  BY <1>1, ClaimDownChanges
<1>3. v \in LocalType /\ v.fn = f /\ v.entry = autoscaler[f].entry
  BY <1>2 DEF Reset, LocalType
<1>4. Goto(s, "downUpdate", v)
  BY DEF BeginScaleDown
<1> HIDE DEF v
<1>5. Moved({s}) /\ pc'[s] = "downUpdate" /\ local'[s] = v
  BY <1>1, <1>3, <1>4, GotoMoves
<1>6. TypeOK'
  BY <1>1, <1>2, <1>5 DEF TypeOK, Moved, LocalType, Changes, admission
<1>7. PlacedAt(s) /\ AdmittedOn(s) /\ RecordsOn(s)
  BY <1>1, <1>2, <1>3, <1>5, Distinct DEF Aside, PlacedAt, Role, Operand, ScalesOn,
     AdmittedOn, RecordsOn, IInv, Placed, At, MarkLabels, SlotLabels, ScaleUpLabels,
     DownLabels, Operations
<1>8. Placed' /\ Admission' /\ Records'
  BY <1>1, <1>5, <1>7, PlacedKept, AdmissionKept, RecordsKept
<1>9. Lineage'
  BY <1>2, <1>3, <1>5, Distinct DEF IInv, Lineage, Moved, Changes
<1>10. pc[s] \notin Operations
  BY <1>1 DEF Operations, ScaleUpLabels, DownLabels, At
<1>11. \A u \in Threads : pc[u] \in Operations => local[u].entry # autoscaler[f].entry
  BY <1>2, Distinct DEF IInv, Lineage, Claims, Owns, AS!InState, Operations
<1>12. Claims'
  <2>1. pc'[s] \in DownLabels /\ pc'[s] \notin ScaleUpLabels /\ pc'[s] \in Operations
    BY <1>5 DEF ScaleUpLabels, DownLabels, Operations
  <2>2. ASSUME NEW g \in Functions
        PROVE  /\ AS!InState(g, "ScalingUp")' =>
                    \E u \in Threads : pc'[u] \in ScaleUpLabels /\ Owns(u, g)'
               /\ AS!InState(g, "ScalingDown")' =>
                    \E u \in Threads : pc'[u] \in DownLabels /\ Owns(u, g)'
    <3>1. CASE g = f
      BY <1>1, <1>2, <1>3, <1>5, <2>1, <3>1 DEF AS!InState, Owns
    <3>2. CASE g # f
      BY <1>2, <1>5, <1>10, <3>2 DEF IInv, Claims, AS!InState, Owns, Moved,
         Changes, Operations
    <3> QED BY <3>1, <3>2
  <2>3. ASSUME NEW u \in Threads, NEW g \in Functions, Owns(u, g)'
        PROVE  /\ pc'[u] \in ScaleUpLabels => AS!InState(g, "ScalingUp")'
               /\ pc'[u] \in DownLabels => AS!InState(g, "ScalingDown")'
    BY <1>2, <1>3, <1>5, <1>11, <2>1, <2>3
       DEF IInv, Claims, AS!InState, Owns, Moved, Changes, Operations
  <2>4. \A u, w \in Threads :
          pc'[u] \in Operations /\ pc'[w] \in Operations /\ local'[u].entry = local'[w].entry
            => u = w
    BY <1>2, <1>3, <1>5, <1>11 DEF IInv, Claims, Moved
  <2> QED BY <2>2, <2>3, <2>4 DEF Claims
<1> QED BY <1>6, <1>8, <1>9, <1>12 DEF IInv

LEMMA DownStopInv ==
  ASSUME TypeOK, IInv, NEW s \in Scalers, DownStop(s)
  PROVE  TypeOK' /\ IInv'
<1>1. /\ At(s, "downStop") /\ UNCHANGED <<admission, unrecorded>>
      /\ s \in Threads /\ local[s].fn \in Functions
  BY Distinct DEF DownStop, IInv, Placed, Operand, At
<1>2. PICK stopped \in BOOLEAN :
        /\ UNCHANGED route \/ SetRoute(local[s].fn, "active")
        /\ AS!Settle(local[s].fn, local[s].entry, ~stopped)
  BY DEF DownStop
<1>3. Moved({s}) /\ pc'[s] = "idle" /\ local'[s] = Reset
  BY <1>1, ReturnMoves DEF DownStop
<1>4. PlacedAt(s) /\ AdmittedOn(s) /\ RecordsOn(s)
  BY <1>1, <1>3, ResetTyped, Distinct DEF Aside, PlacedAt, Role, Operand, ScalesOn,
     AdmittedOn, RecordsOn, IInv, Placed, At, MarkLabels, SlotLabels, ScaleUpLabels,
     DownLabels, Operations
<1>5. Placed' /\ Admission' /\ Records'
  BY <1>1, <1>3, <1>4, PlacedKept, AdmissionKept, RecordsKept
<1>6. pc[s] \in Operations /\ pc'[s] \notin Operations
  BY <1>1, <1>3 DEF Operations, ScaleUpLabels, DownLabels, At
<1>7. Lineage' /\ Claims' /\ AS!TypeOK'
  BY <1>1, <1>2, <1>3, <1>6, ResetTyped, SettleClaims
<1>8. TypeOK'
  BY <1>1, <1>2, <1>3, <1>7 DEF TypeOK, Moved, LocalType, admission, SetRoute
<1> QED BY <1>5, <1>7, <1>8 DEF IInv

-----------------------------------------------------------------------------
(* Deployments and deletes. *)

LEMMA DeployInv ==
  ASSUME TypeOK, IInv, NEW f \in Functions, Deploy(f)
  PROVE  TypeOK' /\ IInv'
<1>1. /\ autoscaler[f].state = "Unregistered"
      /\ SetRoute(f, "active")
      /\ UNCHANGED <<admission, unrecorded, pc, local>>
  BY DEF Deploy, AS!InState
<1>2. PICK h \in Handlers : Unused(h) /\ AS!RegisterFunction(f, h)
  BY DEF Deploy
<1>3. /\ Changes(f) /\ autoscaler'[f].state = "Active" /\ autoscaler'[f].entry = h
  BY <1>2, RegisterChanges
<1>4. TypeOK'
  BY <1>1, <1>3 DEF TypeOK, SetRoute, Changes, admission
<1>5. Placed' /\ Admission' /\ Records'
  BY <1>1 DEF IInv, Placed, Admission, Records, Recording, AdmissionBalanced,
     OnePrewarmPerTarget, Holders, Admitted, At, admission
<1>6. Lineage'
  BY <1>1, <1>2, <1>3 DEF IInv, Lineage, Changes, Unused
<1>7. \A t \in Threads, g \in Functions :
        Owns(t, g)' => g # f /\ Owns(t, g)
  BY <1>1, <1>2, <1>3 DEF Owns, Unused, Changes
<1>8. \A t \in Threads, g \in Functions : Owns(t, g) /\ g # f => Owns(t, g)'
  BY <1>1, <1>3 DEF Owns, Changes
<1>9. Claims'
  BY <1>1, <1>3, <1>7, <1>8 DEF IInv, Claims, AS!InState, Changes
<1> QED BY <1>4, <1>5, <1>6, <1>9 DEF IInv

LEMMA DeleteInv ==
  ASSUME TypeOK, IInv, NEW f \in Functions, Delete(f)
  PROVE  TypeOK' /\ IInv'
<1>1. SetRoute(f, "none") /\ UNCHANGED <<admission, unrecorded, pc, local>>
  BY DEF Delete
<1>2. Changes(f) /\ autoscaler'[f].state = "Unregistered" /\ autoscaler'[f].entry = None
  BY UnregisterChanges DEF Delete
<1>3. TypeOK'
  BY <1>1, <1>2 DEF TypeOK, SetRoute, Changes, admission
<1>4. Placed' /\ Admission' /\ Records'
  BY <1>1 DEF IInv, Placed, Admission, Records, Recording, AdmissionBalanced,
     OnePrewarmPerTarget, Holders, Admitted, At, admission
<1>5. Lineage'
  BY <1>1, <1>2 DEF IInv, Lineage, Changes
<1>6. \A t \in Threads : pc[t] \in Operations => local[t].entry # None
  BY Distinct DEF IInv, Placed, Operand
<1>7. \A t \in Threads, g \in Functions :
        pc[t] \in Operations => (Owns(t, g)' <=> g # f /\ Owns(t, g))
  BY <1>1, <1>2, <1>6 DEF Owns, Changes
<1>8. Claims'
  BY <1>1, <1>2, <1>7 DEF IInv, Claims, AS!InState, Changes, Operations
<1> QED BY <1>3, <1>4, <1>5, <1>8 DEF IInv

-----------------------------------------------------------------------------
(* Marks and slots. *)

\* The rest of the invariant when a prewarmer takes or gives back one of them.
LEMMA AdmissionStep ==
  ASSUME TypeOK, IInv, NEW p \in Prewarmers, Moved({p}), Admission',
         PlacedAt(p), ScalesOn(p), RecordsOn(p),
         UNCHANGED <<route, autoscaler, unrecorded>>,
         prewarmInFlight' \subseteq Functions, prewarmSem' \in 0..Budget
  PROVE  TypeOK' /\ IInv'
<1>1. TypeOK'
  BY DEF TypeOK, Moved, LocalType, AS!TypeOK
<1>2. Placed' /\ Records'
  BY PlacedKept, RecordsKept
<1>3. Lineage' /\ Claims'
  BY <1>2, ClaimsKept
<1> QED BY <1>1, <1>2, <1>3 DEF IInv

LEMMA MarkInv ==
  ASSUME TypeOK, IInv, NEW p \in Prewarmers, Mark(p)
  PROVE  TypeOK' /\ IInv'
<1>0. PICK f \in Functions : f = local[p].fn
  BY Distinct DEF Mark, IInv, Placed, Operand, At
<1>1. /\ At(p, "mark") /\ p \in Threads
      /\ UNCHANGED <<route, autoscaler, prewarmSem, unrecorded>>
      /\ "slot" \in PcLabels
  BY Distinct DEF Mark, shared, PcLabels, MarkLabels
<1>2. CASE f \in prewarmInFlight
  <2>1. Moved({p}) /\ pc'[p] = "idle" /\ local'[p] = Reset /\ UNCHANGED prewarmInFlight
    BY <1>0, <1>1, <1>2, ReturnMoves DEF Mark
  <2>2. Aside(p)
    BY <1>0, <1>1, <2>1, ResetTyped, Distinct DEF Aside, PlacedAt, Role, Operand,
       ScalesOn, AdmittedOn, RecordsOn, IInv, Placed, At, MarkLabels, SlotLabels,
       ScaleUpLabels, DownLabels, Operations
  <2> QED BY <1>0, <1>1, <2>1, <2>2, QuietInv DEF admission
<1>3. CASE f \notin prewarmInFlight
  <2>1. /\ Moved({p}) /\ pc'[p] = "slot" /\ local'[p] = local[p]
        /\ prewarmInFlight' = prewarmInFlight \cup {f}
    BY <1>0, <1>1, <1>3, ContinueMoves DEF Mark
  <2>2. PlacedAt(p) /\ ScalesOn(p) /\ RecordsOn(p)
    BY <1>0, <1>1, <2>1, Distinct DEF Aside, PlacedAt, Role, Operand, ScalesOn,
       AdmittedOn, RecordsOn, IInv, Placed, At, MarkLabels, SlotLabels,
       ScaleUpLabels, DownLabels, Operations
  <2>3. Holders' = Holders
    BY <1>0, <1>1, <2>1, Distinct DEF Moved, Holders, At, SlotLabels, ScaleUpLabels
  <2>4. Admitted(f) = {} /\ Admitted(f)' = {p}
    <3>1. Admitted(f) = {}
      BY <1>0, <1>1, <1>3 DEF IInv, Admission, AdmissionBalanced
    <3> QED BY <1>0, <1>1, <2>1, <3>1, Distinct DEF Moved, Admitted, At, MarkLabels
  <2>5. \A g \in Functions : g # f => Admitted(g)' = Admitted(g)
    BY <1>0, <1>1, <2>1, Distinct DEF Moved, Admitted, At, MarkLabels
  <2>6. Admission'
    BY <1>0, <1>1, <2>1, <2>3, <2>4, <2>5
       DEF IInv, Admission, AdmissionBalanced, OnePrewarmPerTarget
  <2>7. prewarmInFlight' \subseteq Functions /\ prewarmSem' \in 0..Budget
    BY <1>0, <1>1, <2>1 DEF TypeOK
  <2> QED BY <1>0, <1>1, <2>1, <2>2, <2>6, <2>7, AdmissionStep
<1> QED BY <1>2, <1>3

LEMMA TakeSlotInv ==
  ASSUME TypeOK, IInv, NEW p \in Prewarmers, TakeSlot(p)
  PROVE  TypeOK' /\ IInv'
<1>1. /\ At(p, "slot")
      /\ p \in Threads
      /\ UNCHANGED <<route, autoscaler, prewarmInFlight, unrecorded>>
      /\ {"try", "unmark"} \subseteq PcLabels
  BY Distinct DEF TakeSlot, At, shared, PcLabels, MarkLabels, SlotLabels,
     ScaleUpLabels, DownLabels, Operations
<1>2. CASE prewarmSem < Budget
  <2>1. /\ Moved({p}) /\ pc'[p] = "try" /\ local'[p] = local[p]
        /\ prewarmSem' = prewarmSem + 1
    BY <1>1, <1>2, ContinueMoves DEF TakeSlot
  <2>2. PlacedAt(p) /\ ScalesOn(p) /\ RecordsOn(p)
    BY <1>1, <2>1, Distinct DEF Aside, PlacedAt, Role, Operand, ScalesOn,
       AdmittedOn, RecordsOn, IInv, Placed, At, MarkLabels, SlotLabels,
       ScaleUpLabels, DownLabels, Operations
  <2>3. Holders' = Holders \cup {p} /\ p \notin Holders
    BY <1>1, <2>1, Distinct DEF Moved, Holders, At, SlotLabels, ScaleUpLabels
  <2>4. IsFiniteSet(Holders') /\ prewarmSem' = Cardinality(Holders')
    BY <2>1, <2>3, FS_AddElement DEF IInv, Admission, AdmissionBalanced
  <2>5. \A g \in Functions : Admitted(g)' = Admitted(g)
    BY <1>1, <2>1, Distinct DEF Moved, Admitted, At, MarkLabels, SlotLabels
  <2>6. Admission'
    BY <1>1, <2>4, <2>5 DEF IInv, Admission, AdmissionBalanced, OnePrewarmPerTarget
  <2>7. prewarmInFlight' \subseteq Functions /\ prewarmSem' \in 0..Budget
    BY <1>1, <1>2, <2>1, BudgetAssumption DEF TypeOK
  <2> QED BY <1>1, <2>1, <2>2, <2>6, <2>7, AdmissionStep
<1>3. CASE ~(prewarmSem < Budget)
  <2>1. Moved({p}) /\ pc'[p] = "unmark" /\ local'[p] = local[p] /\ UNCHANGED prewarmSem
    BY <1>1, <1>3, ContinueMoves DEF TakeSlot
  <2>2. Aside(p)
    BY <1>1, <2>1, Distinct DEF Aside, PlacedAt, Role, Operand, ScalesOn,
       AdmittedOn, RecordsOn, IInv, Placed, At, MarkLabels, SlotLabels,
       ScaleUpLabels, DownLabels, Operations
  <2> QED BY <1>1, <2>1, <2>2, QuietInv DEF admission
<1> QED BY <1>2, <1>3

LEMMA ReleaseInv ==
  ASSUME TypeOK, IInv, NEW p \in Prewarmers, Release(p)
  PROVE  TypeOK' /\ IInv'
<1>1. /\ At(p, "release") /\ p \in Threads
      /\ UNCHANGED <<route, autoscaler, prewarmInFlight, unrecorded>>
      /\ prewarmSem' = prewarmSem - 1
      /\ "unmark" \in PcLabels
  BY Distinct DEF Release, shared, PcLabels, MarkLabels
<1>2. Moved({p}) /\ pc'[p] = "unmark" /\ local'[p] = local[p]
  BY <1>1, ContinueMoves DEF Release
<1>3. PlacedAt(p) /\ ScalesOn(p) /\ RecordsOn(p)
  BY <1>1, <1>2, Distinct DEF Aside, PlacedAt, Role, Operand, ScalesOn, AdmittedOn,
     RecordsOn, IInv, Placed, At, MarkLabels, SlotLabels, ScaleUpLabels, DownLabels,
     Operations
<1>4. Holders' = Holders \ {p} /\ p \in Holders
  BY <1>1, <1>2, Distinct DEF Moved, Holders, At, SlotLabels, ScaleUpLabels
<1>5. IsFiniteSet(Holders) /\ prewarmSem = Cardinality(Holders)
  BY DEF IInv, Admission, AdmissionBalanced
<1>6. /\ IsFiniteSet(Holders \ {p})
      /\ Cardinality(Holders \ {p}) = Cardinality(Holders) - 1
  BY <1>4, <1>5, FS_RemoveElement
<1>7. IsFiniteSet(Holders') /\ prewarmSem' = Cardinality(Holders')
  BY <1>1, <1>4, <1>5, <1>6
<1>8. prewarmSem' \in 0..Budget
  <2>1. prewarmSem' \in Nat
    BY <1>7, FS_CardinalityType
  <2> QED BY <1>1, <2>1, BudgetAssumption DEF TypeOK
<1>9. \A g \in Functions : Admitted(g)' = Admitted(g)
  BY <1>1, <1>2, Distinct DEF Moved, Admitted, At, MarkLabels, SlotLabels
<1>10. Admission'
  BY <1>1, <1>7, <1>9 DEF IInv, Admission, AdmissionBalanced, OnePrewarmPerTarget
<1>11. prewarmInFlight' \subseteq Functions
  BY <1>1 DEF TypeOK
<1> QED BY <1>1, <1>2, <1>3, <1>8, <1>10, <1>11, AdmissionStep

LEMMA UnmarkInv ==
  ASSUME TypeOK, IInv, NEW p \in Prewarmers, Unmark(p)
  PROVE  TypeOK' /\ IInv'
<1>0. PICK f \in Functions : f = local[p].fn
  BY Distinct DEF Unmark, IInv, Placed, Operand, At
<1>1. /\ At(p, "unmark") /\ p \in Threads
      /\ UNCHANGED <<route, autoscaler, prewarmSem, unrecorded>>
      /\ prewarmInFlight' = prewarmInFlight \ {f}
  BY <1>0, Distinct DEF Unmark, shared
<1>2. Moved({p}) /\ pc'[p] = "idle" /\ local'[p] = Reset
  BY <1>1, ReturnMoves DEF Unmark
<1>3. PlacedAt(p) /\ ScalesOn(p) /\ RecordsOn(p)
  BY <1>1, <1>2, ResetTyped, Distinct DEF Aside, PlacedAt, Role, Operand, ScalesOn,
     AdmittedOn, RecordsOn, IInv, Placed, At, MarkLabels, SlotLabels, ScaleUpLabels,
     DownLabels, Operations
<1>4. Holders' = Holders
  BY <1>1, <1>2, Distinct DEF Moved, Holders, At, SlotLabels, ScaleUpLabels
<1>5. p \in Admitted(f)
  BY <1>0, <1>1 DEF Admitted, At, MarkLabels
<1>6. Admitted(f)' = {}
  BY <1>0, <1>1, <1>2, <1>5, Distinct
     DEF IInv, Admission, OnePrewarmPerTarget, Moved, Admitted, At, MarkLabels, SlotLabels,
         ScaleUpLabels
<1>7. \A g \in Functions : g # f => Admitted(g)' = Admitted(g)
  BY <1>0, <1>1, <1>2, Distinct DEF Moved, Admitted, At, MarkLabels, SlotLabels,
     ScaleUpLabels
<1>8. Admission'
  BY <1>1, <1>4, <1>6, <1>7 DEF IInv, Admission, AdmissionBalanced, OnePrewarmPerTarget
<1>9. prewarmInFlight' \subseteq Functions /\ prewarmSem' \in 0..Budget
  BY <1>1 DEF TypeOK
<1> QED BY <1>1, <1>2, <1>3, <1>8, <1>9, AdmissionStep

-----------------------------------------------------------------------------
(* The invariant. *)

LEMMA InitInv ==
  ASSUME Init
  PROVE  TypeOK /\ IInv
<1>1. \A t \in Threads : pc[t] = "idle" /\ local[t] = Reset
  BY DEF Init
<1>2. \A f \in Functions : autoscaler[f] = AS!Unregistered
  BY DEF Init, AS!Init
<1>3. TypeOK
  <2>1. pc \in [Threads -> PcLabels] /\ local \in [Threads -> LocalType]
    BY ResetTyped DEF Init, PcLabels
  <2>2. /\ prewarmInFlight \subseteq Functions /\ prewarmSem \in 0..Budget
        /\ unrecorded \in [Functions -> [Modes -> Nat]]
    BY BudgetAssumption DEF Init
  <2> QED BY <2>1, <2>2 DEF Init, AS!Init, TypeOK, AS!TypeOK, LocalType
<1>4. Placed
  BY <1>1, ResetTyped, Distinct DEF Placed, MarkLabels, SlotLabels, ScaleUpLabels,
     DownLabels, Operations, Role, Operand
<1>5. Lineage /\ Claims
  BY <1>1, <1>2, ResetTyped, Distinct
     DEF Lineage, Claims, AS!InState, AS!Unregistered, MarkLabels, SlotLabels, ScaleUpLabels, DownLabels, Operations
<1>6. Admission
  <2>1. Holders = {}
    BY <1>1, Distinct DEF Holders, SlotLabels, ScaleUpLabels
  <2>2. \A f \in Functions : Admitted(f) = {}
    BY <1>1, Distinct DEF Admitted, MarkLabels, SlotLabels, ScaleUpLabels
  <2> QED BY <2>1, <2>2, FS_EmptySet
          DEF Init, Admission, AdmissionBalanced, OnePrewarmPerTarget
<1>7. Records
  <2>1. \A f \in Functions, m \in Modes : Recording(f, m) = {}
    BY <1>1 DEF Recording, At
  <2> QED BY <2>1, FS_EmptySet DEF Init, Records
<1> QED BY <1>3, <1>4, <1>5, <1>6, <1>7 DEF IInv

LEMMA StutterInv ==
  ASSUME TypeOK, IInv, UNCHANGED vars
  PROVE  TypeOK' /\ IInv'
<1> USE DEF vars, shared, admission
<1>1. TypeOK'
  BY DEF TypeOK, AS!TypeOK
<1>2. Placed' /\ Lineage' /\ Claims'
  BY DEF IInv, Placed, Lineage, Claims, Owns, AS!InState
<1>3. Admission' /\ Records'
  BY DEF IInv, Admission, Records, Recording, AdmissionBalanced, OnePrewarmPerTarget,
     Holders, Admitted, At
<1> QED BY <1>1, <1>2, <1>3 DEF IInv

LEMMA StepInv ==
  ASSUME TypeOK, IInv, [Next]_vars
  PROVE  TypeOK' /\ IInv'
<1>1. CASE UNCHANGED vars
  BY <1>1, StutterInv
<1>2. ASSUME NEW f \in Functions,
             \/ Deploy(f) \/ Delete(f)
             \/ \E c \in Callers : Call(c, f)
             \/ \E s \in Scalers : BeginScaleDown(s, f)
      PROVE  TypeOK' /\ IInv'
  BY <1>2, DeployInv, DeleteInv, CallInv, BeginScaleDownInv
<1>3. ASSUME NEW c \in Callers, CallStep(c)
      PROVE  TypeOK' /\ IInv'
  BY <1>3, ColdStartInv, UpRestartInv, UpDoneInv, RecordInv, WaitRouteInv, BeginInv,
     FinishInv DEF CallStep, ScaleUpStep
<1>4. ASSUME NEW s \in Scalers, ScaleDownStep(s)
      PROVE  TypeOK' /\ IInv'
  BY <1>4, DownUpdateInv, DownStopInv DEF ScaleDownStep
<1>5. ASSUME NEW s \in Scouts, EagerTarget(s) \/ ScheduleTarget(s) \/ ScoutDone(s)
      PROVE  TypeOK' /\ IInv'
  BY <1>5, EagerTargetInv, ScheduleTargetInv, ScoutDoneInv
<1>6. ASSUME NEW p \in Prewarmers, PrewarmStep(p)
      PROVE  TypeOK' /\ IInv'
  BY <1>6, FireInv, MarkInv, TakeSlotInv, TryScaleUpInv, UpRestartInv, UpDoneInv,
     RecordInv,
     ReleaseInv, UnmarkInv DEF PrewarmStep, ScaleUpStep
<1> QED BY <1>1, <1>2, <1>3, <1>4, <1>5, <1>6 DEF Next

LEMMA Invariance == Spec => [](TypeOK /\ IInv)
<1>1. Init => TypeOK /\ IInv
  BY InitInv
<1>2. (TypeOK /\ IInv) /\ [Next]_vars => (TypeOK /\ IInv)'
  BY StepInv
<1> QED BY <1>1, <1>2, PTL DEF Spec
-----------------------------------------------------------------------------
(* What follows from it. *)

\* Routes, marks, slots and the variables of all goroutines keep their types; in
\* particular the budget is never exceeded and no counter drops below zero.
THEOREM TypeCorrect == Spec => []TypeOK
  BY Invariance, PTL

\* The slots of the budget in use and the marked targets are those of prewarms
\* under way, whichever way executePrewarm is left.
THEOREM AdmissionAlwaysBalanced == Spec => []AdmissionBalanced
<1>1. IInv => AdmissionBalanced
  BY DEF IInv, Admission
<1> QED BY <1>1, Invariance, PTL

\* However many goroutines and timers were started for a target, at most one of
\* them is between its mark and its return.
THEOREM NeverTwoPrewarms == Spec => []OnePrewarmPerTarget
<1>1. IInv => OnePrewarmPerTarget
  BY DEF IInv, Admission
<1> QED BY <1>1, Invariance, PTL

\* A scale-up is performed by the prewarm or the cold start that claimed it, and
\* a function is never left in the middle of one.
THEOREM ScaleUpAlwaysOwned == Spec => []ScaleUpOwned
<1>1. IInv => ScaleUpOwned
  BY DEF IInv, Claims, Owns, ScaleUpOwned, Operations
<1> QED BY <1>1, Invariance, PTL

\* Every scale-up that was performed is recorded once, under the mode of the
\* goroutine that performed it.
THEOREM AlwaysRecordedOnce == Spec => []RecordedOnce
<1>1. IInv => RecordedOnce
  BY DEF IInv, Records, Recording, RecordedOnce
<1> QED BY <1>1, Invariance, PTL
=============================================================================
