--------------------------- MODULE LockingProofs ---------------------------
(***************************************************************************)
(* Theorems about Locking, for any number of functions, handlers and       *)
(* goroutines of each kind.                                                *)
(***************************************************************************)
EXTENDS Locking, TLAPS

Operating(t) == pc[t] \in {"opLock", "op", "opDone"}

\* Which goroutine may be where, and which operation it may be in.
Roles ==
  \A t \in Threads :
    /\ t \in Readers => pc[t] \in {"idle", "readLock", "reading", "isRunning",
                                   "logsNames", "logsFunction", "logsFailed"}
    /\ t \in Deleters => pc[t] \in {"idle", "deleteLock", "opLock", "op", "opDone"}
    /\ t \in Scalers => pc[t] \in {"idle", "claim", "scaleLookup", "scaleIPs",
                                   "restartIPs", "opLock", "op", "opDone"}
    /\ t \in Deployers => pc[t] \in {"idle", "claim", "scaleLookup", "scaleIPs",
                                     "opLock", "op", "opDone", "commit", "register"}
    /\ At(t, "restartIPs") => local[t].op = "restart"
    /\ Operating(t) =>
         /\ t \in Deleters => local[t].op = "destroy"
         /\ t \in Scalers => local[t].op \in {"scale", "restart"}
         /\ t \in Deployers => local[t].op \in {"start", "scale", "destroy"}

\* Which of its variables a goroutine has set.
Operands ==
  \A t \in Threads :
    /\ pc[t] \in {"isRunning", "claim", "scaleLookup", "scaleIPs", "restartIPs",
                  "commit", "register", "deleteLock", "logsFailed"} =>
         local[t].fn \in Functions
    /\ Operating(t) /\ (t \in Deployers => local[t].op # "destroy") =>
         local[t].fn \in Functions
    /\ t \in Deleters /\ pc[t] # "idle" => local[t].fn \in Removable
    /\ pc[t] \in {"isRunning", "scaleIPs", "restartIPs", "opLock", "op"} =>
         local[t].h \in Handlers
    /\ t \in Deployers =>
         /\ pc[t] \in {"claim", "scaleLookup", "scaleIPs", "commit"} =>
              local[t].new \in Handlers
         /\ Operating(t) /\ local[t].op # "destroy" => local[t].new \in Handlers

HasMux(t) ==
  \/ t \in Readers /\ pc[t] \in {"reading", "isRunning"}
  \/ t \in Deleters /\ Operating(t)

HasClaim(t) ==
  \/ pc[t] \in {"scaleLookup", "scaleIPs", "restartIPs"}
  \/ Operating(t) /\ local[t].op \in {"scale", "restart"}

\* Where the holder of each lock is.  A claim may be gone before its goroutine
\* is done with it: deletes and deployments drop it with the registration.
Held ==
  /\ \A t \in Threads : holder[Mux] = t <=> HasMux(t)
  /\ \A h \in Handlers, t \in Threads : holder[h] = t <=> At(t, "op") /\ local[t].h = h
  /\ \A f \in Functions, t \in Threads : holder[f] = t => HasClaim(t) /\ local[t].fn = f

\* Handlers that are not listed, and belong to one deployment.
Owned ==
  /\ \A f \in Functions : functionConfigs[f] = functionHandlers[f]
  /\ \A f, g \in Functions : functionHandlers[f] = functionHandlers[g]
       /\ functionHandlers[f] # None => f = g
  /\ \A t \in Deployers : local[t].new # None =>
       /\ local[t].new \in live
       /\ \A f \in Functions : functionHandlers[f] # local[t].new
       /\ local[t].old # local[t].new
       /\ \A u \in Threads \ {t} : local[t].new \notin {local[u].new, local[u].old}
  /\ \A t \in Deployers, f \in Functions :
       local[t].old # None /\ functionHandlers[f] = local[t].old => f = local[t].fn
  /\ \A t \in Deployers : At(t, "register") =>
       /\ local[t].new = None
       /\ \A f \in Functions : functionHandlers[f] # local[t].old \/ local[t].old = None
  /\ \A t \in Deployers : pc[t] \in {"opLock", "op"} /\ local[t].op = "destroy" =>
       /\ local[t].new = None
       /\ \A f \in Functions : functionHandlers[f] # local[t].h
       /\ \A u \in Deployers : local[u].new # local[t].h

\* A listed handler is live, but while a delete destroys it with mux in hand.
ListedLive ==
  /\ \A t \in Deleters : pc[t] \in {"opLock", "op"} =>
        local[t].h = functionHandlers[local[t].fn]
  /\ \A t \in Deleters : Operating(t) => functionHandlers[local[t].fn] # None
  /\ \A f \in Functions : functionHandlers[f] # None =>
       \/ functionHandlers[f] \in live
       \/ \E t \in Deleters : /\ local[t].fn = f
                              /\ At(t, "op") \/ (At(t, "opDone") /\ local[t].ok)

\* What readers have found under mux is still so.
Found ==
  \A t \in Readers :
    /\ At(t, "reading") => local[t].todo \subseteq Listed
    /\ At(t, "isRunning") =>
         /\ local[t].todo \subseteq Listed
         /\ local[t].fn \in local[t].todo
         /\ local[t].h = functionHandlers[local[t].fn]
    /\ At(t, "logsFunction") => local[t].todo \ Removable \subseteq Listed
    /\ At(t, "logsFailed") => local[t].fn \in Removable

IInv == Roles /\ Operands /\ Held /\ Owned /\ ListedLive /\ Found

LocalType ==
  [fn : Functions \cup {None}, h : Handlers \cup {None},
   op : {None, "start", "scale", "restart", "destroy"},
   old : Handlers \cup {None}, new : Handlers \cup {None},
   todo : SUBSET Functions, ok : BOOLEAN]

\* What Goto does, goroutine by goroutine.
Moves(t, label, v) ==
  /\ pc' \in [Threads -> PcLabels] /\ local' \in [Threads -> LocalType]
  /\ pc'[t] = label /\ local'[t] = v
  /\ \A u \in Threads : u # t => pc'[u] = pc[u] /\ local'[u] = local[u]

-----------------------------------------------------------------------------
(* Facts about the constants and about Goto. *)

LEMMA Distinct ==
  /\ Mux \in Locks /\ Mux \notin Handlers /\ Mux \notin Functions
  /\ Handlers \subseteq Locks /\ Functions \subseteq Locks
  /\ \A h \in Handlers : h \notin Functions
  /\ None \notin Handlers /\ None \notin Functions /\ None \notin Threads
  /\ Removable \subseteq Functions
  /\ \A t \in Readers : t \notin Deleters /\ t \notin Deployers /\ t \notin Scalers
  /\ \A t \in Deleters : t \notin Deployers /\ t \notin Scalers
  /\ \A t \in Deployers : t \notin Scalers
  /\ \A t \in Readers \cup Deleters \cup Deployers \cup Scalers : t \in Threads
  BY LocksAssumption DEF Locks, Threads

LEMMA LocalTyped ==
  ASSUME TypeOK, NEW t \in Threads
  PROVE  local[t] \in LocalType
  BY DEF TypeOK, LocalType

LEMMA GotoMoves ==
  ASSUME TypeOK, NEW t \in Threads, NEW label \in PcLabels, NEW v \in LocalType,
         Goto(t, label, v)
  PROVE  Moves(t, label, v)
  BY DEF TypeOK, Goto, Moves, LocalType

LEMMA ContinueMoves ==
  ASSUME TypeOK, NEW t \in Threads, NEW label \in PcLabels, Continue(t, label)
  PROVE  Moves(t, label, local[t])
  BY GotoMoves DEF TypeOK, LocalType, Continue

LEMMA ReturnMoves ==
  ASSUME TypeOK, NEW t \in Threads, Return(t)
  PROVE  Moves(t, "idle", Reset)
<1>1. Reset \in LocalType /\ "idle" \in PcLabels
  BY DEF Reset, LocalType, PcLabels
<1> QED BY <1>1, GotoMoves DEF Return

LEMMA OperateMoves ==
  ASSUME TypeOK, NEW t \in Threads, NEW o \in {"start", "scale", "restart", "destroy"},
         NEW h \in Handlers, Operate(t, o, h)
  PROVE  \E v \in LocalType :
            /\ v.fn = local[t].fn /\ v.old = local[t].old /\ v.new = local[t].new
            /\ v.h = h /\ v.op = o
            /\ Moves(t, "opLock", v)
<1> DEFINE v == [local[t] EXCEPT !.op = o, !.h = h, !.ok = TRUE]
<1>1. /\ v \in LocalType
      /\ v.fn = local[t].fn /\ v.old = local[t].old /\ v.new = local[t].new
      /\ v.h = h /\ v.op = o
  BY DEF TypeOK, LocalType
<1>2. Goto(t, "opLock", v) /\ "opLock" \in PcLabels
  BY DEF Operate, PcLabels, OpMuxLabels
<1> HIDE DEF v
<1> QED BY <1>1, <1>2, GotoMoves

LEMMA DiscardMoves ==
  ASSUME TypeOK, NEW t \in Threads, NEW h \in Handlers, Discard(t, h)
  PROVE  \E v \in LocalType :
            /\ v.fn = None /\ v.old = None /\ v.new = None
            /\ v.h = h /\ v.op = "destroy"
            /\ Moves(t, "opLock", v)
<1> DEFINE v == [Reset EXCEPT !.op = "destroy", !.h = h]
<1>1. /\ v \in LocalType
      /\ v.fn = None /\ v.old = None /\ v.new = None
      /\ v.h = h /\ v.op = "destroy"
  BY DEF Reset, LocalType
<1>2. Goto(t, "opLock", v) /\ "opLock" \in PcLabels
  BY DEF Discard, PcLabels, OpMuxLabels
<1> HIDE DEF v
<1> QED BY <1>1, <1>2, GotoMoves

\* Steps that change only where one goroutine is keep the rest of TypeOK.
LEMMA TypeRest ==
  ASSUME TypeOK, pc' \in [Threads -> PcLabels], local' \in [Threads -> LocalType],
         UNCHANGED <<functionHandlers, functionConfigs, live, holder>>
  PROVE  TypeOK'
  BY DEF TypeOK, LocalType

-----------------------------------------------------------------------------
(* Every action keeps the invariant.  Each lemma first says what the action *)
(* changes, then takes the parts of the invariant in turn.                  *)

LEMMA OpLockInv ==
  ASSUME TypeOK, IInv, NEW t \in Threads, OpLock(t)
  PROVE  TypeOK' /\ IInv'
<1>1. /\ At(t, "opLock") /\ local[t].h \in Handlers /\ UNCHANGED maps
      /\ Free(local[t].h) /\ holder' = [holder EXCEPT ![local[t].h] = t]
      /\ live' = IF local[t].op = "destroy" THEN live \ {local[t].h} ELSE live
  BY DEF OpLock, Lock, IInv, Operands, At
<1>2. Moves(t, "op", local[t])
  BY ContinueMoves DEF OpLock, PcLabels
<1>3. /\ holder' \in [Locks -> Threads \cup {None}]
      /\ holder'[local[t].h] = t
      /\ \A l \in Locks : l # local[t].h => holder'[l] = holder[l]
  BY <1>1, Distinct DEF TypeOK
<1>4. \A f \in Functions : functionHandlers[f] \in Handlers \cup {None}
  BY DEF TypeOK
<1>5. CASE local[t].op # "destroy"
  <2>1. UNCHANGED live
    BY <1>1, <1>5
  <2>2. TypeOK'
    BY <1>1, <1>2, <1>3, <1>4, <1>5, <2>1, Distinct DEF TypeOK, Moves,
       LocalType, maps
  <2>3. Roles' /\ Operands'
    BY <1>1, <1>2, <1>3, <1>4, <1>5, <2>1, Distinct DEF Moves, IInv, Roles,
       Operands, Operating, At, maps, Free
  <2>4. Held'
    BY <1>1, <1>2, <1>3, <1>4, <1>5, <2>1, Distinct DEF Moves, IInv, Held,
       HasMux, HasClaim, Operating, Roles, Operands, At, maps, Free
  <2>5. Owned'
    BY <1>1, <1>2, <1>3, <1>4, <1>5, <2>1, Distinct DEF Moves, IInv, Owned,
       Roles, Operands, Operating, At, maps, Free
  <2>6. ListedLive'
    BY <1>1, <1>2, <1>3, <1>4, <1>5, <2>1, Distinct DEF Moves, IInv, ListedLive,
       Held, HasMux, Owned, Roles, Operands, Operating, At, maps, Free
  <2>7. Found'
    BY <1>1, <1>2, <1>3, <1>4, <1>5, <2>1, Distinct DEF Moves, IInv, Found,
       Held, HasMux, Roles, Operands, Operating, Listed, At, maps, Free
  <2> QED BY <2>2, <2>3, <2>4, <2>5, <2>6, <2>7 DEF IInv
<1>6. CASE local[t].op = "destroy"
  <2>1. live' = live \ {local[t].h}
    BY <1>1, <1>6
  <2>2. /\ t \in Deleters \cup Deployers
        /\ t \in Deleters => local[t].h = functionHandlers[local[t].fn] /\ local[t].fn \in Functions
        /\ t \in Deployers => \A f \in Functions : functionHandlers[f] # local[t].h
    BY <1>1, <1>6, Distinct DEF IInv, Roles, ListedLive, Owned, Operands,
       Operating, At, Threads
  <2>3. \A u \in Deployers : local[u].new # local[t].h
    BY <1>1, <1>6, <2>2, Distinct DEF IInv, Owned, At
  <2>4. TypeOK'
    BY <1>1, <1>2, <1>3, <1>4, <1>6, <2>1, <2>2, <2>3, Distinct DEF TypeOK,
       Moves, LocalType, maps
  <2>5. Roles' /\ Operands'
    BY <1>1, <1>2, <1>3, <1>4, <1>6, <2>1, <2>2, <2>3, Distinct DEF Moves, IInv,
       Roles, Operands, Operating, At, maps, Free
  <2>6. Held'
    BY <1>1, <1>2, <1>3, <1>4, <1>6, <2>1, <2>2, <2>3, Distinct DEF Moves, IInv,
       Held, HasMux, HasClaim, Operating, Roles, Operands, At, maps, Free
  <2>7. Owned'
    BY <1>1, <1>2, <1>3, <1>4, <1>6, <2>1, <2>2, <2>3, Distinct DEF Moves, IInv,
       Owned, Roles, Operands, Operating, At, maps, Free
  <2>8. ListedLive'
    BY <1>1, <1>2, <1>3, <1>4, <1>6, <2>1, <2>2, <2>3, Distinct DEF Moves, IInv,
       ListedLive, Held, HasMux, Owned, Roles, Operands, Operating, At, maps,
       Free
  <2>9. Found'
    BY <1>1, <1>2, <1>3, <1>4, <1>6, <2>1, <2>2, <2>3, Distinct DEF Moves, IInv,
       Found, Held, HasMux, Roles, Operands, Operating, Listed, At, maps, Free
  <2> QED BY <2>4, <2>5, <2>6, <2>7, <2>8, <2>9 DEF IInv
<1> QED BY <1>5, <1>6

LEMMA OpEndInv ==
  ASSUME TypeOK, IInv, NEW t \in Threads, OpEnd(t)
  PROVE  TypeOK' /\ IInv'
<1>1. /\ At(t, "op") /\ local[t].h \in Handlers /\ UNCHANGED maps
      /\ holder' = [holder EXCEPT ![local[t].h] = None]
  BY DEF OpEnd, Unlock, IInv, Operands, At
<1>2. /\ holder' \in [Locks -> Threads \cup {None}]
      /\ holder'[local[t].h] = None
      /\ \A l \in Locks : l # local[t].h => holder'[l] = holder[l]
  BY <1>1, Distinct DEF TypeOK
<1>3. PICK ok \in BOOLEAN :
        /\ live' = IF ~ok /\ \E f \in Listed : functionHandlers[f] = local[t].h
                     THEN live \cup {local[t].h}
                     ELSE live
        /\ IF local[t].op = "restart" /\ ok
             THEN Continue(t, "restartIPs")
             ELSE Goto(t, "opDone", [local[t] EXCEPT !.ok = ok, !.h = None])
  BY DEF OpEnd
<1>4. CASE local[t].op = "restart" /\ ok
  <2>1. Moves(t, "restartIPs", local[t])
    BY <1>3, <1>4, ContinueMoves DEF PcLabels, OpMuxLabels
  <2>2. TypeOK'
    BY <1>1, <1>2, <1>3, <1>4, <2>1, Distinct DEF TypeOK, Moves, LocalType, maps
  <2>3. Roles' /\ Operands'
    BY <1>1, <1>2, <1>3, <1>4, <2>1, Distinct DEF Moves, IInv, Roles, Operands,
       Operating, At, maps, Listed
  <2>4. Held'
    BY <1>1, <1>2, <1>3, <1>4, <2>1, Distinct DEF Moves, IInv, Held, HasMux,
       HasClaim, Operating, Roles, Operands, At, maps, Listed
  <2>5. Owned'
    BY <1>1, <1>2, <1>3, <1>4, <2>1, Distinct DEF Moves, IInv, Owned, Roles,
       Operands, Operating, At, maps, Listed
  <2>6. ListedLive'
    BY <1>1, <1>2, <1>3, <1>4, <2>1, Distinct DEF Moves, IInv, ListedLive, Held,
       HasMux, Owned, Roles, Operands, Operating, At, maps, Listed
  <2>7. Found'
    BY <1>1, <1>2, <1>3, <1>4, <2>1, Distinct DEF Moves, IInv, Found, Held,
       HasMux, Roles, Operands, Operating, Listed, At, maps, Listed
  <2> QED BY <2>2, <2>3, <2>4, <2>5, <2>6, <2>7 DEF IInv
<1>5. CASE ~(local[t].op = "restart" /\ ok)
  <2> DEFINE v == [local[t] EXCEPT !.ok = ok, !.h = None]
  <2>1. /\ v \in LocalType /\ v.ok = ok /\ v.h = None /\ v.fn = local[t].fn
        /\ v.op = local[t].op /\ v.old = local[t].old /\ v.new = local[t].new
    BY DEF TypeOK, LocalType
  <2>2. Goto(t, "opDone", v) /\ "opDone" \in PcLabels
    BY <1>3, <1>5 DEF PcLabels
  <2> HIDE DEF v
  <2>3. Moves(t, "opDone", v)
    BY <2>1, <2>2, GotoMoves
  <2>4. TypeOK'
    BY <1>1, <1>2, <1>3, <1>5, <2>1, <2>3, Distinct DEF TypeOK, Moves,
       LocalType, maps
  <2>5. Roles' /\ Operands'
    BY <1>1, <1>2, <1>3, <1>5, <2>1, <2>3, Distinct DEF Moves, IInv, Roles,
       Operands, Operating, At, maps, Listed
  <2>6. Held'
    BY <1>1, <1>2, <1>3, <1>5, <2>1, <2>3, Distinct DEF Moves, IInv, Held,
       HasMux, HasClaim, Operating, Roles, Operands, At, maps, Listed
  <2>7. Owned'
    BY <1>1, <1>2, <1>3, <1>5, <2>1, <2>3, Distinct DEF Moves, IInv, Owned,
       Roles, Operands, Operating, At, maps, Listed
  <2>8. ListedLive'
    BY <1>1, <1>2, <1>3, <1>5, <2>1, <2>3, Distinct DEF Moves, IInv, ListedLive,
       Held, HasMux, Owned, Roles, Operands, Operating, At, maps, Listed
  <2>9. Found'
    BY <1>1, <1>2, <1>3, <1>5, <2>1, <2>3, Distinct DEF Moves, IInv, Found,
       Held, HasMux, Roles, Operands, Operating, Listed, At, maps, Listed
  <2> QED BY <2>4, <2>5, <2>6, <2>7, <2>8, <2>9 DEF IInv
<1> QED BY <1>4, <1>5

LEMMA DeleteLockInv ==
  ASSUME TypeOK, IInv, NEW t \in Deleters, DeleteLock(t)
  PROVE  TypeOK' /\ IInv'
<1>1. /\ At(t, "deleteLock")
      /\ local[t].fn \in Removable
      /\ local[t].fn \in Functions
      /\ UNCHANGED <<functionHandlers, functionConfigs, live>> /\ t \in Threads
  BY Distinct DEF DeleteLock, IInv, Operands, At, maps
<1>2. CASE local[t].fn \in Listed
  <2>1. /\ Free(Mux) /\ holder' = [holder EXCEPT ![Mux] = t]
        /\ functionHandlers[local[t].fn] \in Handlers
        /\ Operate(t, "destroy", functionHandlers[local[t].fn])
    BY <1>1, <1>2, Distinct DEF DeleteLock, Lock, Listed, TypeOK
  <2>2. /\ holder' \in [Locks -> Threads \cup {None}]
        /\ holder'[Mux] = t /\ \A l \in Locks : l # Mux => holder'[l] = holder[l]
    BY <1>1, <2>1, Distinct DEF TypeOK
  <2>3. PICK v \in LocalType :
          /\ v.fn = local[t].fn /\ v.old = local[t].old /\ v.new = local[t].new
          /\ v.h = functionHandlers[local[t].fn] /\ v.op = "destroy"
          /\ Moves(t, "opLock", v)
    BY <1>1, <2>1, OperateMoves
  <2>4. TypeOK'
    BY <1>1, <1>2, <2>1, <2>2, <2>3, Distinct DEF TypeOK, Moves, LocalType
  <2>5. Roles' /\ Operands'
    BY <1>1, <1>2, <2>1, <2>2, <2>3, Distinct DEF Moves, IInv, Roles, Operands,
       Operating, At, Free, Listed
  <2>6. Held'
    BY <1>1, <1>2, <2>1, <2>2, <2>3, Distinct DEF Moves, IInv, Held, HasMux,
       HasClaim, Operating, Roles, Operands, At, Free, Listed
  <2>7. Owned'
    BY <1>1, <1>2, <2>1, <2>2, <2>3, Distinct DEF Moves, IInv, Owned, Roles,
       Operands, Operating, At, Free, Listed
  <2>8. ListedLive'
    BY <1>1, <1>2, <2>1, <2>2, <2>3, Distinct DEF Moves, IInv, ListedLive, Held,
       HasMux, Owned, Roles, Operands, Operating, At, Free, Listed
  <2>9. Found'
    BY <1>1, <1>2, <2>1, <2>2, <2>3, Distinct DEF Moves, IInv, Found, Held,
       HasMux, Roles, Operands, Operating, Listed, At, Free, Listed
  <2> QED BY <2>4, <2>5, <2>6, <2>7, <2>8, <2>9 DEF IInv
<1>3. CASE local[t].fn \notin Listed
  <2>1. Moves(t, "idle", Reset) /\ UNCHANGED holder
    BY <1>1, <1>3, ReturnMoves DEF DeleteLock
  <2>2. TypeOK'
    BY <1>1, <1>3, <2>1, TypeRest DEF Moves
  <2>3. Roles' /\ Operands'
    BY <1>1, <1>3, <2>1, Distinct DEF Moves, IInv, Roles, Operands, Operating,
       At, Reset
  <2>4. Held'
    BY <1>1, <1>3, <2>1, Distinct DEF Moves, IInv, Held, HasMux, HasClaim,
       Operating, Roles, Operands, At, Reset
  <2>5. Owned'
    BY <1>1, <1>3, <2>1, Distinct DEF Moves, IInv, Owned, Roles, Operands,
       Operating, At, Reset
  <2>6. ListedLive'
    BY <1>1, <1>3, <2>1, Distinct DEF Moves, IInv, ListedLive, Held, HasMux,
       Owned, Roles, Operands, Operating, At, Reset
  <2>7. Found'
    BY <1>1, <1>3, <2>1, Distinct DEF Moves, IInv, Found, Held, HasMux, Roles,
       Operands, Operating, Listed, At, Reset
  <2> QED BY <2>2, <2>3, <2>4, <2>5, <2>6, <2>7 DEF IInv
<1> QED BY <1>2, <1>3

LEMMA ReadRequestInv ==
  ASSUME TypeOK, IInv, NEW t \in Readers, ReadRequest(t)
  PROVE  TypeOK' /\ IInv'
<1>1. /\ At(t, "idle")
      /\ UNCHANGED <<functionHandlers, functionConfigs, live, holder>> /\ t \in Threads
  BY Distinct DEF ReadRequest, maps
<1>2. PICK names \in SUBSET Functions :
        Goto(t, "readLock", [Reset EXCEPT !.todo = names])
  BY DEF ReadRequest
<1> DEFINE v == [Reset EXCEPT !.todo = names]
<1>3. /\ v \in LocalType
      /\ v.fn = None /\ v.h = None /\ v.op = None
      /\ v.old = None /\ v.new = None /\ v.todo = names
  BY LocalTyped DEF LocalType, Reset
<1>4. Goto(t, "readLock", v) /\ "readLock" \in PcLabels
  BY <1>2 DEF PcLabels, MuxLabels, OpMuxLabels
<1> HIDE DEF v
<1>5. Moves(t, "readLock", v)
  BY <1>1, <1>3, <1>4, GotoMoves
<1>6. TypeOK'
  BY <1>1, <1>3, <1>5, TypeRest DEF Moves
<1>7. Roles' /\ Operands'
  BY <1>1, <1>3, <1>5, Distinct DEF Moves, IInv, Roles, Operands, Operating, At
<1>8. Held'
  BY <1>1, <1>3, <1>5, Distinct DEF Moves, IInv, Held, HasMux, HasClaim,
     Operating, Roles, Operands, At
<1>9. Owned'
  BY <1>1, <1>3, <1>5, Distinct DEF Moves, IInv, Owned, Roles, Operands,
     Operating, At
<1>10. ListedLive'
  BY <1>1, <1>3, <1>5, Distinct DEF Moves, IInv, ListedLive, Held, HasMux, Owned,
     Roles, Operands, Operating, At
<1>11. Found'
  BY <1>1, <1>3, <1>5, Distinct DEF Moves, IInv, Found, Held, HasMux, Roles,
     Operands, Operating, Listed, At
<1> QED BY <1>6, <1>7, <1>8, <1>9, <1>10, <1>11 DEF IInv

LEMMA LogsRequestInv ==
  ASSUME TypeOK, IInv, NEW t \in Readers, LogsRequest(t)
  PROVE  TypeOK' /\ IInv'
<1>1. /\ At(t, "idle")
      /\ UNCHANGED <<functionHandlers, functionConfigs, live, holder>> /\ t \in Threads
  BY Distinct DEF LogsRequest, maps
<1>2. Moves(t, "logsNames", local[t])
  BY <1>1, ContinueMoves DEF LogsRequest, PcLabels, MuxLabels, OpMuxLabels
<1>3. TypeOK'
  BY <1>1, <1>2, TypeRest DEF Moves
<1>4. Roles' /\ Operands'
  BY <1>1, <1>2, Distinct DEF Moves, IInv, Roles, Operands, Operating, At
<1>5. Held'
  BY <1>1, <1>2, Distinct DEF Moves, IInv, Held, HasMux, HasClaim, Operating,
     Roles, Operands, At
<1>6. Owned'
  BY <1>1, <1>2, Distinct DEF Moves, IInv, Owned, Roles, Operands, Operating, At
<1>7. ListedLive'
  BY <1>1, <1>2, Distinct DEF Moves, IInv, ListedLive, Held, HasMux, Owned, Roles,
     Operands, Operating, At
<1>8. Found'
  BY <1>1, <1>2, Distinct DEF Moves, IInv, Found, Held, HasMux, Roles, Operands,
     Operating, Listed, At
<1> QED BY <1>3, <1>4, <1>5, <1>6, <1>7, <1>8 DEF IInv

LEMMA ReadLockInv ==
  ASSUME TypeOK, IInv, NEW t \in Readers, ReadLock(t)
  PROVE  TypeOK' /\ IInv'
<1>1. /\ At(t, "readLock")
      /\ UNCHANGED <<functionHandlers, functionConfigs, live>>
      /\ t \in Threads
      /\ Free(Mux) /\ holder' = [holder EXCEPT ![Mux] = t]
  BY Distinct DEF ReadLock, Lock, maps
<1>2. /\ holder' \in [Locks -> Threads \cup {None}]
      /\ holder'[Mux] = t /\ \A l \in Locks : l # Mux => holder'[l] = holder[l]
  BY <1>1, Distinct DEF TypeOK
<1> DEFINE v == [local[t] EXCEPT !.todo = @ \cap Listed]
<1>3. /\ v \in LocalType
      /\ v.fn = local[t].fn /\ v.h = local[t].h /\ v.op = local[t].op
      /\ v.old = local[t].old
      /\ v.new = local[t].new
      /\ v.todo = local[t].todo \cap Listed
  BY <1>1, LocalTyped DEF LocalType, Listed
<1>4. Goto(t, "reading", v) /\ "reading" \in PcLabels
  BY DEF ReadLock, PcLabels, MuxLabels, OpMuxLabels
<1> HIDE DEF v
<1>5. Moves(t, "reading", v)
  BY <1>1, <1>3, <1>4, GotoMoves
<1>6. TypeOK'
  BY <1>1, <1>2, <1>3, <1>5, Distinct DEF TypeOK, Moves, LocalType, maps
<1>7. Roles' /\ Operands'
  BY <1>1, <1>2, <1>3, <1>5, Distinct DEF Moves, IInv, Roles, Operands, Operating,
     At, Free, Listed
<1>8. Held'
  BY <1>1, <1>2, <1>3, <1>5, Distinct DEF Moves, IInv, Held, HasMux, HasClaim,
     Operating, Roles, Operands, At, Free, Listed
<1>9. Owned'
  BY <1>1, <1>2, <1>3, <1>5, Distinct DEF Moves, IInv, Owned, Roles, Operands,
     Operating, At, Free, Listed
<1>10. ListedLive'
  BY <1>1, <1>2, <1>3, <1>5, Distinct DEF Moves, IInv, ListedLive, Held, HasMux,
     Owned, Roles, Operands, Operating, At, Free, Listed
<1>11. Found'
  BY <1>1, <1>2, <1>3, <1>5, Distinct DEF Moves, IInv, Found, Held, HasMux, Roles,
     Operands, Operating, Listed, At, Free, Listed
<1> QED BY <1>6, <1>7, <1>8, <1>9, <1>10, <1>11 DEF IInv

LEMMA ReadNextInv ==
  ASSUME TypeOK, IInv, NEW t \in Readers, ReadNext(t)
  PROVE  TypeOK' /\ IInv'
<1>1. /\ At(t, "reading")
      /\ UNCHANGED <<functionHandlers, functionConfigs, live, holder>> /\ t \in Threads
  BY Distinct DEF ReadNext, maps
<1>2. PICK f \in local[t].todo :
        Goto(t, "isRunning", [local[t] EXCEPT !.fn = f, !.h = functionHandlers[f]])
  BY DEF ReadNext
<1>3. f \in Functions /\ functionHandlers[f] \in Handlers /\ f \in Listed /\ local[t].todo \subseteq Listed
  BY <1>1, <1>2 DEF At, IInv, Found, Listed, TypeOK
<1> DEFINE v == [local[t] EXCEPT !.fn = f, !.h = functionHandlers[f]]
<1>4. /\ v \in LocalType
      /\ v.fn = f /\ v.h = functionHandlers[f] /\ v.op = local[t].op
      /\ v.old = local[t].old /\ v.new = local[t].new /\ v.todo = local[t].todo
  BY <1>1, <1>3, LocalTyped DEF LocalType
<1>5. Goto(t, "isRunning", v) /\ "isRunning" \in PcLabels
  BY <1>2 DEF PcLabels, MuxLabels, OpMuxLabels
<1> HIDE DEF v
<1>6. Moves(t, "isRunning", v)
  BY <1>1, <1>4, <1>5, GotoMoves
<1>7. TypeOK'
  BY <1>1, <1>2, <1>3, <1>4, <1>6, TypeRest DEF Moves
<1>8. Roles' /\ Operands'
  BY <1>1, <1>2, <1>3, <1>4, <1>6, Distinct DEF Moves, IInv, Roles, Operands,
     Operating, At
<1>9. Held'
  BY <1>1, <1>2, <1>3, <1>4, <1>6, Distinct DEF Moves, IInv, Held, HasMux,
     HasClaim, Operating, Roles, Operands, At
<1>10. Owned'
  BY <1>1, <1>2, <1>3, <1>4, <1>6, Distinct DEF Moves, IInv, Owned, Roles,
     Operands, Operating, At
<1>11. ListedLive'
  BY <1>1, <1>2, <1>3, <1>4, <1>6, Distinct DEF Moves, IInv, ListedLive, Held,
     HasMux, Owned, Roles, Operands, Operating, At
<1>12. Found'
  BY <1>1, <1>2, <1>3, <1>4, <1>6, Distinct DEF Moves, IInv, Found, Held, HasMux,
     Roles, Operands, Operating, Listed, At
<1> QED BY <1>7, <1>8, <1>9, <1>10, <1>11, <1>12 DEF IInv

LEMMA IsRunningInv ==
  ASSUME TypeOK, IInv, NEW t \in Readers, IsRunning(t)
  PROVE  TypeOK' /\ IInv'
<1>1. /\ At(t, "isRunning")
      /\ UNCHANGED <<functionHandlers, functionConfigs, live, holder>> /\ t \in Threads
  BY Distinct DEF IsRunning, maps
<1> DEFINE v == [Reset EXCEPT !.todo = local[t].todo \ {local[t].fn}]
<1>2. /\ v \in LocalType
      /\ v.fn = None /\ v.h = None /\ v.op = None
      /\ v.old = None /\ v.new = None /\ v.todo = local[t].todo \ {local[t].fn}
  BY <1>1, LocalTyped DEF LocalType, Reset
<1>3. Goto(t, "reading", v) /\ "reading" \in PcLabels
  BY DEF IsRunning, PcLabels, MuxLabels, OpMuxLabels
<1> HIDE DEF v
<1>4. Moves(t, "reading", v)
  BY <1>1, <1>2, <1>3, GotoMoves
<1>5. TypeOK'
  BY <1>1, <1>2, <1>4, TypeRest DEF Moves
<1>6. Roles' /\ Operands'
  BY <1>1, <1>2, <1>4, Distinct DEF Moves, IInv, Roles, Operands, Operating, At
<1>7. Held'
  BY <1>1, <1>2, <1>4, Distinct DEF Moves, IInv, Held, HasMux, HasClaim,
     Operating, Roles, Operands, At
<1>8. Owned'
  BY <1>1, <1>2, <1>4, Distinct DEF Moves, IInv, Owned, Roles, Operands,
     Operating, At
<1>9. ListedLive'
  BY <1>1, <1>2, <1>4, Distinct DEF Moves, IInv, ListedLive, Held, HasMux, Owned,
     Roles, Operands, Operating, At
<1>10. Found'
  BY <1>1, <1>2, <1>4, Distinct DEF Moves, IInv, Found, Held, HasMux, Roles,
     Operands, Operating, Listed, At
<1> QED BY <1>5, <1>6, <1>7, <1>8, <1>9, <1>10 DEF IInv

LEMMA ReadDoneInv ==
  ASSUME TypeOK, IInv, NEW t \in Readers, ReadDone(t)
  PROVE  TypeOK' /\ IInv'
<1>1. /\ At(t, "reading")
      /\ UNCHANGED <<functionHandlers, functionConfigs, live>>
      /\ t \in Threads
      /\ holder' = [holder EXCEPT ![Mux] = None]
  BY Distinct DEF ReadDone, Unlock, maps
<1>2. /\ holder' \in [Locks -> Threads \cup {None}]
      /\ holder'[Mux] = None /\ \A l \in Locks : l # Mux => holder'[l] = holder[l]
  BY <1>1, Distinct DEF TypeOK
<1>3. Moves(t, "idle", Reset)
  BY <1>1, ReturnMoves DEF ReadDone
<1>4. TypeOK'
  BY <1>1, <1>2, <1>3, Distinct DEF TypeOK, Moves, LocalType, maps
<1>5. Roles' /\ Operands'
  BY <1>1, <1>2, <1>3, Distinct DEF Moves, IInv, Roles, Operands, Operating, At,
     Reset
<1>6. Held'
  BY <1>1, <1>2, <1>3, Distinct DEF Moves, IInv, Held, HasMux, HasClaim,
     Operating, Roles, Operands, At, Reset
<1>7. Owned'
  BY <1>1, <1>2, <1>3, Distinct DEF Moves, IInv, Owned, Roles, Operands,
     Operating, At, Reset
<1>8. ListedLive'
  BY <1>1, <1>2, <1>3, Distinct DEF Moves, IInv, ListedLive, Held, HasMux, Owned,
     Roles, Operands, Operating, At, Reset
<1>9. Found'
  BY <1>1, <1>2, <1>3, Distinct DEF Moves, IInv, Found, Held, HasMux, Roles,
     Operands, Operating, Listed, At, Reset
<1> QED BY <1>4, <1>5, <1>6, <1>7, <1>8, <1>9 DEF IInv

LEMMA LogsNamesInv ==
  ASSUME TypeOK, IInv, NEW t \in Readers, LogsNames(t)
  PROVE  TypeOK' /\ IInv'
<1>1. /\ At(t, "logsNames")
      /\ UNCHANGED <<functionHandlers, functionConfigs, live, holder>> /\ t \in Threads
  BY Distinct DEF LogsNames, maps
<1>2. CASE Listed = {}
  <2>1. Moves(t, "idle", Reset)
    BY <1>1, <1>2, ReturnMoves DEF LogsNames
  <2>2. TypeOK'
    BY <1>1, <2>1, TypeRest DEF Moves
  <2>3. Roles' /\ Operands'
    BY <1>1, <2>1, Distinct DEF Moves, IInv, Roles, Operands, Operating, At, Reset
  <2>4. Held'
    BY <1>1, <2>1, Distinct DEF Moves, IInv, Held, HasMux, HasClaim, Operating,
       Roles, Operands, At, Reset
  <2>5. Owned'
    BY <1>1, <2>1, Distinct DEF Moves, IInv, Owned, Roles, Operands, Operating,
       At, Reset
  <2>6. ListedLive'
    BY <1>1, <2>1, Distinct DEF Moves, IInv, ListedLive, Held, HasMux, Owned,
       Roles, Operands, Operating, At, Reset
  <2>7. Found'
    BY <1>1, <2>1, Distinct DEF Moves, IInv, Found, Held, HasMux, Roles,
       Operands, Operating, Listed, At, Reset
  <2> QED BY <2>2, <2>3, <2>4, <2>5, <2>6, <2>7 DEF IInv
<1>3. CASE Listed # {}
  <2> DEFINE v == [Reset EXCEPT !.todo = Listed]
  <2>1. /\ v \in LocalType
        /\ v.fn = None /\ v.h = None /\ v.op = None
        /\ v.old = None /\ v.new = None /\ v.todo = Listed
    BY <1>1, LocalTyped DEF LocalType, Reset, Listed
  <2>2. Goto(t, "logsFunction", v) /\ "logsFunction" \in PcLabels
    BY <1>3 DEF LogsNames, PcLabels, MuxLabels, OpMuxLabels
  <2> HIDE DEF v
  <2>3. Moves(t, "logsFunction", v)
    BY <1>1, <2>1, <2>2, GotoMoves
  <2>4. TypeOK'
    BY <1>1, <2>1, <2>3, TypeRest DEF Moves
  <2>5. Roles' /\ Operands'
    BY <1>1, <2>1, <2>3, Distinct DEF Moves, IInv, Roles, Operands, Operating,
       At, Listed
  <2>6. Held'
    BY <1>1, <2>1, <2>3, Distinct DEF Moves, IInv, Held, HasMux, HasClaim,
       Operating, Roles, Operands, At, Listed
  <2>7. Owned'
    BY <1>1, <2>1, <2>3, Distinct DEF Moves, IInv, Owned, Roles, Operands,
       Operating, At, Listed
  <2>8. ListedLive'
    BY <1>1, <2>1, <2>3, Distinct DEF Moves, IInv, ListedLive, Held, HasMux,
       Owned, Roles, Operands, Operating, At, Listed
  <2>9. Found'
    BY <1>1, <2>1, <2>3, Distinct DEF Moves, IInv, Found, Held, HasMux, Roles,
       Operands, Operating, Listed, At, Listed
  <2> QED BY <2>4, <2>5, <2>6, <2>7, <2>8, <2>9 DEF IInv
<1> QED BY <1>2, <1>3

LEMMA LogsFunctionInv ==
  ASSUME TypeOK, IInv, NEW t \in Readers, LogsFunction(t)
  PROVE  TypeOK' /\ IInv'
<1>1. /\ At(t, "logsFunction")
      /\ UNCHANGED <<functionHandlers, functionConfigs, live, holder>> /\ t \in Threads
  BY Distinct DEF LogsFunction, maps
<1>2. PICK f \in local[t].todo :
        \/ f \notin Listed /\ Goto(t, "logsFailed", [Reset EXCEPT !.fn = f])
        \/ f \in Listed /\ local[t].todo \ {f} = {} /\ Return(t)
        \/ /\ f \in Listed /\ local[t].todo \ {f} # {}
           /\ Goto(t, "logsFunction", [Reset EXCEPT !.todo = local[t].todo \ {f}])
  BY DEF LogsFunction
<1>3. f \in Functions /\ local[t].todo \subseteq Functions
  BY <1>1, <1>2 DEF TypeOK
<1>4. CASE f \notin Listed
  <2>0. f \in Removable
    BY <1>1, <1>2, <1>4 DEF IInv, Found
  <2> DEFINE v == [Reset EXCEPT !.fn = f]
  <2>1. /\ v \in LocalType
        /\ v.fn = f /\ v.h = None /\ v.op = None
        /\ v.old = None /\ v.new = None /\ v.todo = {}
    BY <1>3, LocalTyped DEF LocalType, Reset
  <2>2. Goto(t, "logsFailed", v) /\ "logsFailed" \in PcLabels
    BY <1>2, <1>4 DEF PcLabels, MuxLabels, OpMuxLabels
  <2> HIDE DEF v
  <2>3. Moves(t, "logsFailed", v)
    BY <1>1, <2>1, <2>2, GotoMoves
  <2>4. TypeOK'
    BY <1>1, <1>3, <2>0, <2>1, <2>3, TypeRest DEF Moves
  <2>5. Roles' /\ Operands'
    BY <1>1, <1>3, <2>0, <2>1, <2>3, Distinct DEF Moves, IInv, Roles, Operands,
       Operating, At
  <2>6. Held'
    BY <1>1, <1>3, <2>0, <2>1, <2>3, Distinct DEF Moves, IInv, Held, HasMux,
       HasClaim, Operating, Roles, Operands, At
  <2>7. Owned'
    BY <1>1, <1>3, <2>0, <2>1, <2>3, Distinct DEF Moves, IInv, Owned, Roles,
       Operands, Operating, At
  <2>8. ListedLive'
    BY <1>1, <1>3, <2>0, <2>1, <2>3, Distinct DEF Moves, IInv, ListedLive, Held,
       HasMux, Owned, Roles, Operands, Operating, At
  <2>9. Found'
    BY <1>1, <1>3, <2>0, <2>1, <2>3, Distinct DEF Moves, IInv, Found, Held,
       HasMux, Roles, Operands, Operating, Listed, At
  <2> QED BY <2>4, <2>5, <2>6, <2>7, <2>8, <2>9 DEF IInv
<1>5. CASE f \in Listed /\ local[t].todo \ {f} = {}
  <2>1. Moves(t, "idle", Reset)
    BY <1>1, <1>2, <1>5, ReturnMoves
  <2>2. TypeOK'
    BY <1>1, <2>1, TypeRest DEF Moves
  <2>3. Roles' /\ Operands'
    BY <1>1, <2>1, Distinct DEF Moves, IInv, Roles, Operands, Operating, At, Reset
  <2>4. Held'
    BY <1>1, <2>1, Distinct DEF Moves, IInv, Held, HasMux, HasClaim, Operating,
       Roles, Operands, At, Reset
  <2>5. Owned'
    BY <1>1, <2>1, Distinct DEF Moves, IInv, Owned, Roles, Operands, Operating,
       At, Reset
  <2>6. ListedLive'
    BY <1>1, <2>1, Distinct DEF Moves, IInv, ListedLive, Held, HasMux, Owned,
       Roles, Operands, Operating, At, Reset
  <2>7. Found'
    BY <1>1, <2>1, Distinct DEF Moves, IInv, Found, Held, HasMux, Roles,
       Operands, Operating, Listed, At, Reset
  <2> QED BY <2>2, <2>3, <2>4, <2>5, <2>6, <2>7 DEF IInv
<1>6. CASE f \in Listed /\ local[t].todo \ {f} # {}
  <2> DEFINE v == [Reset EXCEPT !.todo = local[t].todo \ {f}]
  <2>1. /\ v \in LocalType
        /\ v.fn = None /\ v.h = None /\ v.op = None
        /\ v.old = None /\ v.new = None /\ v.todo = local[t].todo \ {f}
    BY <1>1, <1>3, LocalTyped DEF LocalType, Reset
  <2>2. Goto(t, "logsFunction", v) /\ "logsFunction" \in PcLabels
    BY <1>2, <1>6 DEF PcLabels, MuxLabels, OpMuxLabels
  <2> HIDE DEF v
  <2>3. Moves(t, "logsFunction", v)
    BY <1>1, <2>1, <2>2, GotoMoves
  <2>4. TypeOK'
    BY <1>1, <2>1, <2>3, TypeRest DEF Moves
  <2>5. Roles' /\ Operands'
    BY <1>1, <2>1, <2>3, Distinct DEF Moves, IInv, Roles, Operands, Operating, At
  <2>6. Held'
    BY <1>1, <2>1, <2>3, Distinct DEF Moves, IInv, Held, HasMux, HasClaim,
       Operating, Roles, Operands, At
  <2>7. Owned'
    BY <1>1, <2>1, <2>3, Distinct DEF Moves, IInv, Owned, Roles, Operands,
       Operating, At
  <2>8. ListedLive'
    BY <1>1, <2>1, <2>3, Distinct DEF Moves, IInv, ListedLive, Held, HasMux,
       Owned, Roles, Operands, Operating, At
  <2>9. Found'
    BY <1>1, <2>1, <2>3, Distinct DEF Moves, IInv, Found, Held, HasMux, Roles,
       Operands, Operating, Listed, At
  <2> QED BY <2>4, <2>5, <2>6, <2>7, <2>8, <2>9 DEF IInv
<1> QED BY <1>4, <1>5, <1>6

LEMMA LogsFailedInv ==
  ASSUME TypeOK, IInv, NEW t \in Readers, LogsFailed(t)
  PROVE  TypeOK' /\ IInv'
<1>1. /\ At(t, "logsFailed")
      /\ UNCHANGED <<functionHandlers, functionConfigs, live, holder>> /\ t \in Threads
  BY Distinct DEF LogsFailed, maps
<1>2. Moves(t, "idle", Reset)
  BY <1>1, ReturnMoves DEF LogsFailed
<1>3. TypeOK'
  BY <1>1, <1>2, TypeRest DEF Moves
<1>4. Roles' /\ Operands'
  BY <1>1, <1>2, Distinct DEF Moves, IInv, Roles, Operands, Operating, At, Reset
<1>5. Held'
  BY <1>1, <1>2, Distinct DEF Moves, IInv, Held, HasMux, HasClaim, Operating,
     Roles, Operands, At, Reset
<1>6. Owned'
  BY <1>1, <1>2, Distinct DEF Moves, IInv, Owned, Roles, Operands, Operating, At,
     Reset
<1>7. ListedLive'
  BY <1>1, <1>2, Distinct DEF Moves, IInv, ListedLive, Held, HasMux, Owned, Roles,
     Operands, Operating, At, Reset
<1>8. Found'
  BY <1>1, <1>2, Distinct DEF Moves, IInv, Found, Held, HasMux, Roles, Operands,
     Operating, Listed, At, Reset
<1> QED BY <1>3, <1>4, <1>5, <1>6, <1>7, <1>8 DEF IInv

LEMMA DeleteRequestInv ==
  ASSUME TypeOK, IInv, NEW t \in Deleters, NEW f \in Removable, DeleteRequest(t, f)
  PROVE  TypeOK' /\ IInv'
<1>1. /\ At(t, "idle")
      /\ UNCHANGED <<functionHandlers, functionConfigs, live, holder>> /\ t \in Threads /\ f \in Functions
  BY Distinct DEF DeleteRequest, maps
<1> DEFINE v == [Reset EXCEPT !.fn = f]
<1>2. /\ v \in LocalType
      /\ v.fn = f /\ v.h = None /\ v.op = None
      /\ v.old = None /\ v.new = None /\ v.todo = {}
  BY <1>1, LocalTyped DEF LocalType, Reset
<1>3. Goto(t, "deleteLock", v) /\ "deleteLock" \in PcLabels
  BY DEF DeleteRequest, PcLabels, MuxLabels, OpMuxLabels
<1> HIDE DEF v
<1>4. Moves(t, "deleteLock", v)
  BY <1>1, <1>2, <1>3, GotoMoves
<1>5. TypeOK'
  BY <1>1, <1>2, <1>4, TypeRest DEF Moves
<1>6. Roles' /\ Operands'
  BY <1>1, <1>2, <1>4, Distinct DEF Moves, IInv, Roles, Operands, Operating, At
<1>7. Held'
  BY <1>1, <1>2, <1>4, Distinct DEF Moves, IInv, Held, HasMux, HasClaim,
     Operating, Roles, Operands, At
<1>8. Owned'
  BY <1>1, <1>2, <1>4, Distinct DEF Moves, IInv, Owned, Roles, Operands,
     Operating, At
<1>9. ListedLive'
  BY <1>1, <1>2, <1>4, Distinct DEF Moves, IInv, ListedLive, Held, HasMux, Owned,
     Roles, Operands, Operating, At
<1>10. Found'
  BY <1>1, <1>2, <1>4, Distinct DEF Moves, IInv, Found, Held, HasMux, Roles,
     Operands, Operating, Listed, At
<1> QED BY <1>5, <1>6, <1>7, <1>8, <1>9, <1>10 DEF IInv

LEMMA DeleteFailedInv ==
  ASSUME TypeOK, IInv, NEW t \in Deleters, DeleteFailed(t)
  PROVE  TypeOK' /\ IInv'
<1>1. /\ At(t, "opDone")
      /\ ~local[t].ok
      /\ UNCHANGED <<functionHandlers, functionConfigs, live>>
      /\ t \in Threads
      /\ holder' = [holder EXCEPT ![Mux] = None]
  BY Distinct DEF DeleteFailed, Unlock, maps
<1>2. /\ holder' \in [Locks -> Threads \cup {None}]
      /\ holder'[Mux] = None /\ \A l \in Locks : l # Mux => holder'[l] = holder[l]
  BY <1>1, Distinct DEF TypeOK
<1>3. Moves(t, "idle", Reset)
  BY <1>1, ReturnMoves DEF DeleteFailed
<1>4. TypeOK'
  BY <1>1, <1>2, <1>3, Distinct DEF TypeOK, Moves, LocalType, maps
<1>5. Roles' /\ Operands'
  BY <1>1, <1>2, <1>3, Distinct DEF Moves, IInv, Roles, Operands, Operating, At,
     Reset
<1>6. Held'
  BY <1>1, <1>2, <1>3, Distinct DEF Moves, IInv, Held, HasMux, HasClaim,
     Operating, Roles, Operands, At, Reset
<1>7. Owned'
  BY <1>1, <1>2, <1>3, Distinct DEF Moves, IInv, Owned, Roles, Operands,
     Operating, At, Reset
<1>8. ListedLive'
  BY <1>1, <1>2, <1>3, Distinct DEF Moves, IInv, ListedLive, Held, HasMux, Owned,
     Roles, Operands, Operating, At, Reset
<1>9. Found'
  BY <1>1, <1>2, <1>3, Distinct DEF Moves, IInv, Found, Held, HasMux, Roles,
     Operands, Operating, Listed, At, Reset
<1> QED BY <1>4, <1>5, <1>6, <1>7, <1>8, <1>9 DEF IInv

LEMMA DeleteFinishInv ==
  ASSUME TypeOK, IInv, NEW t \in Deleters, DeleteFinish(t)
  PROVE  TypeOK' /\ IInv'
<1> DEFINE f == local[t].fn
<1>1. /\ At(t, "opDone")
      /\ local[t].ok
      /\ t \in Threads
      /\ f \in Functions
      /\ f \in Removable
      /\ UNCHANGED live /\ HasMux(t)
  BY Distinct DEF DeleteFinish, IInv, Operands, At, HasMux, Operating
<1>2. /\ functionHandlers' \in [Functions -> Handlers \cup {None}]
      /\ functionHandlers'[f] = None
      /\ functionConfigs' \in [Functions -> Handlers \cup {None}]
      /\ functionConfigs'[f] = None
      /\ \A g \in Functions : g # f =>
           functionHandlers'[g] = functionHandlers[g] /\ functionConfigs'[g] = functionConfigs[g]
  BY <1>1 DEF DeleteFinish, TypeOK
<1>3. /\ holder' \in [Locks -> Threads \cup {None}]
      /\ holder'[f] = None /\ holder'[Mux] = None
      /\ \A l \in Locks : l # f /\ l # Mux => holder'[l] = holder[l]
  BY <1>1, Distinct DEF DeleteFinish, TypeOK
<1>4. Moves(t, "idle", Reset)
  BY <1>1, ReturnMoves DEF DeleteFinish
<1> HIDE DEF f
<1>5. f = local[t].fn
  BY DEF f
<1>6. TypeOK'
  BY <1>1, <1>2, <1>3, <1>4, <1>5, Distinct DEF TypeOK, Moves, LocalType, maps
<1>7. Roles' /\ Operands'
  BY <1>1, <1>2, <1>3, <1>4, <1>5, Distinct DEF Moves, IInv, Roles, Operands,
     Operating, At, Reset, Listed, HasMux
<1>8. Held'
  BY <1>1, <1>2, <1>3, <1>4, <1>5, Distinct DEF Moves, IInv, Held, HasMux,
     HasClaim, Operating, Roles, Operands, At, Reset, Listed, HasMux
<1>9. Owned'
  BY <1>1, <1>2, <1>3, <1>4, <1>5, Distinct DEF Moves, IInv, Owned, Roles,
     Operands, Operating, At, Reset, Listed, HasMux
<1>10. ListedLive'
  BY <1>1, <1>2, <1>3, <1>4, <1>5, Distinct DEF Moves, IInv, ListedLive, Held,
     HasMux, Owned, Roles, Operands, Operating, At, Reset, Listed, HasMux
<1>11. Found'
  BY <1>1, <1>2, <1>3, <1>4, <1>5, Distinct DEF Moves, IInv, Found, Held, HasMux,
     Roles, Operands, Operating, Listed, At, Reset, Listed, HasMux
<1> QED BY <1>6, <1>7, <1>8, <1>9, <1>10, <1>11 DEF IInv

LEMMA TryScaleInv ==
  ASSUME TypeOK, IInv, NEW t \in Scalers, NEW f \in Functions, TryScale(t, f)
  PROVE  TypeOK' /\ IInv'
<1>1. /\ At(t, "idle")
      /\ UNCHANGED <<functionHandlers, functionConfigs, live>>
      /\ t \in Threads
      /\ Free(f) /\ holder' = [holder EXCEPT ![f] = t]
  BY Distinct DEF TryScale, Lock, maps
<1>2. /\ holder' \in [Locks -> Threads \cup {None}]
      /\ holder'[f] = t /\ \A l \in Locks : l # f => holder'[l] = holder[l]
  BY <1>1, Distinct DEF TypeOK
<1> DEFINE v == [Reset EXCEPT !.fn = f]
<1>3. /\ v \in LocalType
      /\ v.fn = f /\ v.h = None /\ v.op = None
      /\ v.old = None /\ v.new = None /\ v.todo = {}
  BY LocalTyped DEF LocalType, Reset
<1>4. Goto(t, "scaleLookup", v) /\ "scaleLookup" \in PcLabels
  BY DEF TryScale, PcLabels, MuxLabels, OpMuxLabels
<1> HIDE DEF v
<1>5. Moves(t, "scaleLookup", v)
  BY <1>1, <1>3, <1>4, GotoMoves
<1>6. TypeOK'
  BY <1>1, <1>2, <1>3, <1>5, Distinct DEF TypeOK, Moves, LocalType, maps
<1>7. Roles' /\ Operands'
  BY <1>1, <1>2, <1>3, <1>5, Distinct DEF Moves, IInv, Roles, Operands, Operating,
     At, Free
<1>8. Held'
  BY <1>1, <1>2, <1>3, <1>5, Distinct DEF Moves, IInv, Held, HasMux, HasClaim,
     Operating, Roles, Operands, At, Free
<1>9. Owned'
  BY <1>1, <1>2, <1>3, <1>5, Distinct DEF Moves, IInv, Owned, Roles, Operands,
     Operating, At, Free
<1>10. ListedLive'
  BY <1>1, <1>2, <1>3, <1>5, Distinct DEF Moves, IInv, ListedLive, Held, HasMux,
     Owned, Roles, Operands, Operating, At, Free
<1>11. Found'
  BY <1>1, <1>2, <1>3, <1>5, Distinct DEF Moves, IInv, Found, Held, HasMux, Roles,
     Operands, Operating, Listed, At, Free
<1> QED BY <1>6, <1>7, <1>8, <1>9, <1>10, <1>11 DEF IInv

LEMMA ColdStartInv ==
  ASSUME TypeOK, IInv, NEW t \in Scalers, NEW f \in Functions, ColdStart(t, f)
  PROVE  TypeOK' /\ IInv'
<1>1. /\ At(t, "idle")
      /\ UNCHANGED <<functionHandlers, functionConfigs, live, holder>> /\ t \in Threads
  BY Distinct DEF ColdStart, maps
<1> DEFINE v == [Reset EXCEPT !.fn = f]
<1>2. /\ v \in LocalType
      /\ v.fn = f /\ v.h = None /\ v.op = None
      /\ v.old = None /\ v.new = None /\ v.todo = {}
  BY LocalTyped DEF LocalType, Reset
<1>3. Goto(t, "claim", v) /\ "claim" \in PcLabels
  BY DEF ColdStart, PcLabels, MuxLabels, OpMuxLabels
<1> HIDE DEF v
<1>4. Moves(t, "claim", v)
  BY <1>1, <1>2, <1>3, GotoMoves
<1>5. TypeOK'
  BY <1>1, <1>2, <1>4, TypeRest DEF Moves
<1>6. Roles' /\ Operands'
  BY <1>1, <1>2, <1>4, Distinct DEF Moves, IInv, Roles, Operands, Operating, At
<1>7. Held'
  BY <1>1, <1>2, <1>4, Distinct DEF Moves, IInv, Held, HasMux, HasClaim,
     Operating, Roles, Operands, At
<1>8. Owned'
  BY <1>1, <1>2, <1>4, Distinct DEF Moves, IInv, Owned, Roles, Operands,
     Operating, At
<1>9. ListedLive'
  BY <1>1, <1>2, <1>4, Distinct DEF Moves, IInv, ListedLive, Held, HasMux, Owned,
     Roles, Operands, Operating, At
<1>10. Found'
  BY <1>1, <1>2, <1>4, Distinct DEF Moves, IInv, Found, Held, HasMux, Roles,
     Operands, Operating, Listed, At
<1> QED BY <1>5, <1>6, <1>7, <1>8, <1>9, <1>10 DEF IInv

LEMMA ClaimInv ==
  ASSUME TypeOK, IInv, NEW t \in Scalers \cup Deployers, Claim(t)
  PROVE  TypeOK' /\ IInv'
<1>1. /\ At(t, "claim")
      /\ UNCHANGED <<functionHandlers, functionConfigs, live>>
      /\ t \in Threads
      /\ local[t].fn \in Functions /\ Free(local[t].fn)
  BY Distinct DEF Claim, maps, IInv, Operands, At
<1>2. CASE Lock(t, local[t].fn) /\ Continue(t, "scaleLookup")
  <2>1. Moves(t, "scaleLookup", local[t])
    BY <1>1, <1>2, ContinueMoves DEF PcLabels, MuxLabels, OpMuxLabels
  <2>2. /\ holder' \in [Locks -> Threads \cup {None}]
        /\ holder'[local[t].fn] = t
        /\ \A l \in Locks : l # local[t].fn => holder'[l] = holder[l]
    BY <1>1, <1>2, Distinct DEF Lock, TypeOK
  <2>3. TypeOK'
    BY <1>1, <2>1, <2>2, Distinct DEF TypeOK, Moves, LocalType, maps
  <2>4. Roles' /\ Operands'
    BY <1>1, <2>1, <2>2, Distinct DEF Moves, IInv, Roles, Operands, Operating,
       At, Free
  <2>5. Held'
    BY <1>1, <2>1, <2>2, Distinct DEF Moves, IInv, Held, HasMux, HasClaim,
       Operating, Roles, Operands, At, Free
  <2>6. Owned'
    BY <1>1, <2>1, <2>2, Distinct DEF Moves, IInv, Owned, Roles, Operands,
       Operating, At, Free
  <2>7. ListedLive'
    BY <1>1, <2>1, <2>2, Distinct DEF Moves, IInv, ListedLive, Held, HasMux,
       Owned, Roles, Operands, Operating, At, Free
  <2>8. Found'
    BY <1>1, <2>1, <2>2, Distinct DEF Moves, IInv, Found, Held, HasMux, Roles,
       Operands, Operating, Listed, At, Free
  <2> QED BY <2>3, <2>4, <2>5, <2>6, <2>7, <2>8 DEF IInv
<1>3. CASE (\E ok \in BOOLEAN : Resume(t, ok)) /\ UNCHANGED holder
  <2>1. PICK ok \in BOOLEAN : Resume(t, ok)
    BY <1>3
  <2>2. CASE t \in Scalers
    <3>1. Moves(t, "idle", Reset)
      BY <1>1, <2>1, <2>2, Distinct, ReturnMoves DEF Resume
    <3>2. TypeOK'
      BY <1>1, <1>3, <2>2, <3>1, Distinct DEF TypeOK, Moves, LocalType, maps
    <3>3. Roles' /\ Operands'
      BY <1>1, <1>3, <2>2, <3>1, Distinct DEF Moves, IInv, Roles, Operands,
         Operating, At, Reset
    <3>4. Held'
      BY <1>1, <1>3, <2>2, <3>1, Distinct DEF Moves, IInv, Held, HasMux,
         HasClaim, Operating, Roles, Operands, At, Reset
    <3>5. Owned'
      BY <1>1, <1>3, <2>2, <3>1, Distinct DEF Moves, IInv, Owned, Roles,
         Operands, Operating, At, Reset
    <3>6. ListedLive'
      BY <1>1, <1>3, <2>2, <3>1, Distinct DEF Moves, IInv, ListedLive, Held,
         HasMux, Owned, Roles, Operands, Operating, At, Reset
    <3>7. Found'
      BY <1>1, <1>3, <2>2, <3>1, Distinct DEF Moves, IInv, Found, Held,
         HasMux, Roles, Operands, Operating, Listed, At, Reset
    <3> QED BY <3>2, <3>3, <3>4, <3>5, <3>6, <3>7 DEF IInv
  <2>3. CASE t \in Deployers /\ ok
    <3>1. Operate(t, "start", local[t].new) /\ local[t].new \in Handlers
      BY <1>1, <2>1, <2>3, Distinct DEF Resume, IInv, Operands, Operating, At
    <3>2. PICK v \in LocalType :
          /\ v.fn = local[t].fn /\ v.old = local[t].old /\ v.new = local[t].new
          /\ v.h = local[t].new /\ v.op = "start"
          /\ Moves(t, "opLock", v)
      BY <3>1, <1>1, OperateMoves
    <3>3. TypeOK'
      BY <1>1, <1>3, <2>3, <3>1, <3>2, Distinct DEF TypeOK, Moves, LocalType, maps
    <3>4. Roles' /\ Operands'
      BY <1>1, <1>3, <2>3, <3>1, <3>2, Distinct DEF Moves, IInv, Roles,
         Operands, Operating, At
    <3>5. Held'
      BY <1>1, <1>3, <2>3, <3>1, <3>2, Distinct DEF Moves, IInv, Held, HasMux,
         HasClaim, Operating, Roles, Operands, At
    <3>6. Owned'
      BY <1>1, <1>3, <2>3, <3>1, <3>2, Distinct DEF Moves, IInv, Owned, Roles,
         Operands, Operating, At
    <3>7. ListedLive'
      BY <1>1, <1>3, <2>3, <3>1, <3>2, Distinct DEF Moves, IInv, ListedLive,
         Held, HasMux, Owned, Roles, Operands, Operating, At
    <3>8. Found'
      BY <1>1, <1>3, <2>3, <3>1, <3>2, Distinct DEF Moves, IInv, Found, Held,
         HasMux, Roles, Operands, Operating, Listed, At
    <3> QED BY <3>3, <3>4, <3>5, <3>6, <3>7, <3>8 DEF IInv
  <2>4. CASE t \in Deployers /\ ~ok
    <3>1. Discard(t, local[t].new) /\ local[t].new \in Handlers
      BY <1>1, <2>1, <2>4, Distinct DEF Resume, IInv, Operands, Operating, At
    <3>2. PICK v \in LocalType :
          /\ v.fn = None /\ v.old = None /\ v.new = None
          /\ v.h = local[t].new /\ v.op = "destroy"
          /\ Moves(t, "opLock", v)
      BY <3>1, <1>1, DiscardMoves
    <3>3. TypeOK'
      BY <1>1, <1>3, <2>4, <3>1, <3>2, Distinct DEF TypeOK, Moves, LocalType, maps
    <3>4. Roles' /\ Operands'
      BY <1>1, <1>3, <2>4, <3>1, <3>2, Distinct DEF Moves, IInv, Roles,
         Operands, Operating, At
    <3>5. Held'
      BY <1>1, <1>3, <2>4, <3>1, <3>2, Distinct DEF Moves, IInv, Held, HasMux,
         HasClaim, Operating, Roles, Operands, At
    <3>6. Owned'
      BY <1>1, <1>3, <2>4, <3>1, <3>2, Distinct DEF Moves, IInv, Owned, Roles,
         Operands, Operating, At
    <3>7. ListedLive'
      BY <1>1, <1>3, <2>4, <3>1, <3>2, Distinct DEF Moves, IInv, ListedLive,
         Held, HasMux, Owned, Roles, Operands, Operating, At
    <3>8. Found'
      BY <1>1, <1>3, <2>4, <3>1, <3>2, Distinct DEF Moves, IInv, Found, Held,
         HasMux, Roles, Operands, Operating, Listed, At
    <3> QED BY <3>3, <3>4, <3>5, <3>6, <3>7, <3>8 DEF IInv
  <2> QED BY <2>2, <2>3, <2>4
<1> QED BY <1>2, <1>3 DEF Claim

LEMMA ScaleLookupInv ==
  ASSUME TypeOK, IInv, NEW t \in Scalers \cup Deployers, ScaleLookup(t)
  PROVE  TypeOK' /\ IInv'
<1>1. /\ At(t, "scaleLookup")
      /\ UNCHANGED <<functionHandlers, functionConfigs, live, holder>>
      /\ t \in Threads
      /\ local[t].fn \in Functions
  BY Distinct DEF ScaleLookup, maps, IInv, Operands, At
<1> DEFINE h == functionHandlers[local[t].fn]
<1>2. local[t].fn \in Listed => h \in Handlers
  BY <1>1 DEF Listed, TypeOK
<1>3. CASE /\ local[t].fn \in Listed
           /\ Goto(t, "scaleIPs", [local[t] EXCEPT !.h = h])
  <2> DEFINE v == [local[t] EXCEPT !.h = h]
  <2>1. /\ v \in LocalType
        /\ v.fn = local[t].fn /\ v.h = h /\ v.op = local[t].op
        /\ v.old = local[t].old /\ v.new = local[t].new /\ v.todo = local[t].todo
    BY <1>1, <1>2, <1>3, LocalTyped DEF LocalType
  <2>2. Goto(t, "scaleIPs", v) /\ "scaleIPs" \in PcLabels
    BY <1>3 DEF PcLabels, MuxLabels, OpMuxLabels
  <2> HIDE DEF v
  <2>3. Moves(t, "scaleIPs", v)
    BY <1>1, <2>1, <2>2, GotoMoves
  <2>4. TypeOK'
    BY <1>1, <1>2, <1>3, <2>1, <2>3, TypeRest DEF Moves
  <2>5. Roles' /\ Operands'
    BY <1>1, <1>2, <1>3, <2>1, <2>3, Distinct DEF Moves, IInv, Roles, Operands,
       Operating, At
  <2>6. Held'
    BY <1>1, <1>2, <1>3, <2>1, <2>3, Distinct DEF Moves, IInv, Held, HasMux,
       HasClaim, Operating, Roles, Operands, At
  <2>7. Owned'
    BY <1>1, <1>2, <1>3, <2>1, <2>3, Distinct DEF Moves, IInv, Owned, Roles,
       Operands, Operating, At
  <2>8. ListedLive'
    BY <1>1, <1>2, <1>3, <2>1, <2>3, Distinct DEF Moves, IInv, ListedLive, Held,
       HasMux, Owned, Roles, Operands, Operating, At
  <2>9. Found'
    BY <1>1, <1>2, <1>3, <2>1, <2>3, Distinct DEF Moves, IInv, Found, Held,
       HasMux, Roles, Operands, Operating, Listed, At
  <2> QED BY <2>4, <2>5, <2>6, <2>7, <2>8, <2>9 DEF IInv
<1>4. CASE /\ local[t].fn \in Listed /\ t \in Scalers
           /\ Operate(t, "restart", h)
  <2>1. PICK v \in LocalType :
        /\ v.fn = local[t].fn /\ v.old = local[t].old /\ v.new = local[t].new
        /\ v.h = h /\ v.op = "restart"
        /\ Moves(t, "opLock", v)
    BY <1>1, <1>2, <1>4, OperateMoves
  <2>2. TypeOK'
    BY <1>1, <1>2, <1>4, <2>1, TypeRest DEF Moves
  <2>3. Roles' /\ Operands'
    BY <1>1, <1>2, <1>4, <2>1, Distinct DEF Moves, IInv, Roles, Operands,
       Operating, At
  <2>4. Held'
    BY <1>1, <1>2, <1>4, <2>1, Distinct DEF Moves, IInv, Held, HasMux, HasClaim,
       Operating, Roles, Operands, At
  <2>5. Owned'
    BY <1>1, <1>2, <1>4, <2>1, Distinct DEF Moves, IInv, Owned, Roles, Operands,
       Operating, At
  <2>6. ListedLive'
    BY <1>1, <1>2, <1>4, <2>1, Distinct DEF Moves, IInv, ListedLive, Held,
       HasMux, Owned, Roles, Operands, Operating, At
  <2>7. Found'
    BY <1>1, <1>2, <1>4, <2>1, Distinct DEF Moves, IInv, Found, Held, HasMux,
       Roles, Operands, Operating, Listed, At
  <2> QED BY <2>2, <2>3, <2>4, <2>5, <2>6, <2>7 DEF IInv
<1>5. CASE /\ local[t].fn \notin Listed
           /\ Goto(t, "opDone", [local[t] EXCEPT !.op = "scale", !.ok = FALSE])
  <2> DEFINE v == [local[t] EXCEPT !.op = "scale", !.ok = FALSE]
  <2>1. /\ v \in LocalType
        /\ v.fn = local[t].fn /\ v.h = local[t].h /\ v.op = "scale"
        /\ v.old = local[t].old /\ v.new = local[t].new /\ v.todo = local[t].todo
        /\ v.ok = FALSE
    BY <1>1, LocalTyped DEF LocalType
  <2>2. Goto(t, "opDone", v) /\ "opDone" \in PcLabels
    BY <1>5 DEF PcLabels, MuxLabels, OpMuxLabels
  <2> HIDE DEF v
  <2>3. Moves(t, "opDone", v)
    BY <1>1, <2>1, <2>2, GotoMoves
  <2>4. TypeOK'
    BY <1>1, <1>5, <2>1, <2>3, TypeRest DEF Moves
  <2>5. Roles' /\ Operands'
    BY <1>1, <1>5, <2>1, <2>3, Distinct DEF Moves, IInv, Roles, Operands,
       Operating, At
  <2>6. Held'
    BY <1>1, <1>5, <2>1, <2>3, Distinct DEF Moves, IInv, Held, HasMux, HasClaim,
       Operating, Roles, Operands, At
  <2>7. Owned'
    BY <1>1, <1>5, <2>1, <2>3, Distinct DEF Moves, IInv, Owned, Roles, Operands,
       Operating, At
  <2>8. ListedLive'
    BY <1>1, <1>5, <2>1, <2>3, Distinct DEF Moves, IInv, ListedLive, Held,
       HasMux, Owned, Roles, Operands, Operating, At
  <2>9. Found'
    BY <1>1, <1>5, <2>1, <2>3, Distinct DEF Moves, IInv, Found, Held, HasMux,
       Roles, Operands, Operating, Listed, At
  <2> QED BY <2>4, <2>5, <2>6, <2>7, <2>8, <2>9 DEF IInv
<1> QED BY <1>3, <1>4, <1>5 DEF ScaleLookup

LEMMA ScaleIPsInv ==
  ASSUME TypeOK, IInv, NEW t \in Scalers \cup Deployers, ScaleIPs(t)
  PROVE  TypeOK' /\ IInv'
<1>1. /\ At(t, "scaleIPs")
      /\ UNCHANGED <<functionHandlers, functionConfigs, live, holder>>
      /\ t \in Threads
      /\ local[t].fn \in Functions /\ local[t].h \in Handlers
  BY Distinct DEF ScaleIPs, maps, IInv, Operands, At
<1>2. PICK v \in LocalType :
      /\ v.fn = local[t].fn /\ v.old = local[t].old /\ v.new = local[t].new
      /\ v.h = local[t].h /\ v.op = "scale"
      /\ Moves(t, "opLock", v)
  BY <1>1, OperateMoves DEF ScaleIPs
<1>3. TypeOK'
  BY <1>1, <1>2, TypeRest DEF Moves
<1>4. Roles' /\ Operands'
  BY <1>1, <1>2, Distinct DEF Moves, IInv, Roles, Operands, Operating, At
<1>5. Held'
  BY <1>1, <1>2, Distinct DEF Moves, IInv, Held, HasMux, HasClaim, Operating,
     Roles, Operands, At
<1>6. Owned'
  BY <1>1, <1>2, Distinct DEF Moves, IInv, Owned, Roles, Operands, Operating, At
<1>7. ListedLive'
  BY <1>1, <1>2, Distinct DEF Moves, IInv, ListedLive, Held, HasMux, Owned, Roles,
     Operands, Operating, At
<1>8. Found'
  BY <1>1, <1>2, Distinct DEF Moves, IInv, Found, Held, HasMux, Roles, Operands,
     Operating, Listed, At
<1> QED BY <1>3, <1>4, <1>5, <1>6, <1>7, <1>8 DEF IInv

LEMMA RestartIPsInv ==
  ASSUME TypeOK, IInv, NEW t \in Scalers \cup Deployers, RestartIPs(t)
  PROVE  TypeOK' /\ IInv'
<1>1. /\ At(t, "restartIPs")
      /\ UNCHANGED <<functionHandlers, functionConfigs, live, holder>>
      /\ t \in Threads
      /\ local[t].fn \in Functions /\ local[t].op = "restart" /\ t \in Scalers
  BY Distinct DEF RestartIPs, maps, IInv, Operands, At, Roles
<1> DEFINE v == [local[t] EXCEPT !.h = None]
<1>2. /\ v \in LocalType
      /\ v.fn = local[t].fn /\ v.h = None /\ v.op = local[t].op
      /\ v.old = local[t].old /\ v.new = local[t].new /\ v.todo = local[t].todo
  BY <1>1, LocalTyped DEF LocalType
<1>3. Goto(t, "opDone", v) /\ "opDone" \in PcLabels
  BY DEF RestartIPs, PcLabels, MuxLabels, OpMuxLabels
<1> HIDE DEF v
<1>4. Moves(t, "opDone", v)
  BY <1>1, <1>2, <1>3, GotoMoves
<1>5. TypeOK'
  BY <1>1, <1>2, <1>4, TypeRest DEF Moves
<1>6. Roles' /\ Operands'
  BY <1>1, <1>2, <1>4, Distinct DEF Moves, IInv, Roles, Operands, Operating, At
<1>7. Held'
  BY <1>1, <1>2, <1>4, Distinct DEF Moves, IInv, Held, HasMux, HasClaim,
     Operating, Roles, Operands, At
<1>8. Owned'
  BY <1>1, <1>2, <1>4, Distinct DEF Moves, IInv, Owned, Roles, Operands,
     Operating, At
<1>9. ListedLive'
  BY <1>1, <1>2, <1>4, Distinct DEF Moves, IInv, ListedLive, Held, HasMux, Owned,
     Roles, Operands, Operating, At
<1>10. Found'
  BY <1>1, <1>2, <1>4, Distinct DEF Moves, IInv, Found, Held, HasMux, Roles,
     Operands, Operating, Listed, At
<1> QED BY <1>5, <1>6, <1>7, <1>8, <1>9, <1>10 DEF IInv

LEMMA ScaleDoneInv ==
  ASSUME TypeOK, IInv, NEW t \in Scalers \cup Deployers, ScaleDone(t)
  PROVE  TypeOK' /\ IInv'
<1> DEFINE f == local[t].fn
<1>1. /\ At(t, "opDone")
      /\ local[t].op \in {"scale", "restart"}
      /\ UNCHANGED <<functionHandlers, functionConfigs, live>>
      /\ t \in Threads
      /\ f \in Functions /\ Resume(t, local[t].ok)
      /\ IF holder[f] = t THEN Unlock(f) ELSE UNCHANGED holder
  BY Distinct DEF ScaleDone, maps, IInv, Operands, At, Operating
<1> HIDE DEF f
<1>2. /\ holder' \in [Locks -> Threads \cup {None}]
      /\ holder'[f] # t
      /\ holder'[f] = None \/ holder'[f] = holder[f]
      /\ \A l \in Locks : l # f => holder'[l] = holder[l]
  BY <1>1, Distinct DEF TypeOK, Unlock
<1>3. f = local[t].fn
  BY DEF f
<1>4. CASE t \in Scalers
  <2>1. Moves(t, "idle", Reset)
    BY <1>1, <1>4, Distinct, ReturnMoves DEF Resume
  <2>2. TypeOK'
    BY <1>1, <1>2, <1>3, <1>4, <2>1, Distinct DEF TypeOK, Moves, LocalType, maps
  <2>3. Roles' /\ Operands'
    BY <1>1, <1>2, <1>3, <1>4, <2>1, Distinct DEF Moves, IInv, Roles, Operands,
       Operating, At, Reset
  <2>4. Held'
    BY <1>1, <1>2, <1>3, <1>4, <2>1, Distinct DEF Moves, IInv, Held, HasMux,
       HasClaim, Operating, Roles, Operands, At, Reset
  <2>5. Owned'
    BY <1>1, <1>2, <1>3, <1>4, <2>1, Distinct DEF Moves, IInv, Owned, Roles,
       Operands, Operating, At, Reset
  <2>6. ListedLive'
    BY <1>1, <1>2, <1>3, <1>4, <2>1, Distinct DEF Moves, IInv, ListedLive, Held,
       HasMux, Owned, Roles, Operands, Operating, At, Reset
  <2>7. Found'
    BY <1>1, <1>2, <1>3, <1>4, <2>1, Distinct DEF Moves, IInv, Found, Held,
       HasMux, Roles, Operands, Operating, Listed, At, Reset
  <2> QED BY <2>2, <2>3, <2>4, <2>5, <2>6, <2>7 DEF IInv
<1>5. CASE t \in Deployers /\ local[t].ok
  <2>1. Operate(t, "start", local[t].new) /\ local[t].new \in Handlers
    BY <1>1, <1>5, Distinct DEF Resume, IInv, Operands, Operating, At
  <2>2. PICK v \in LocalType :
        /\ v.fn = local[t].fn /\ v.old = local[t].old /\ v.new = local[t].new
        /\ v.h = local[t].new /\ v.op = "start"
        /\ Moves(t, "opLock", v)
    BY <2>1, <1>1, OperateMoves
  <2>3. TypeOK'
    BY <1>1, <1>2, <1>3, <1>5, <2>1, <2>2, Distinct DEF TypeOK, Moves,
       LocalType, maps
  <2>4. Roles' /\ Operands'
    BY <1>1, <1>2, <1>3, <1>5, <2>1, <2>2, Distinct DEF Moves, IInv, Roles,
       Operands, Operating, At
  <2>5. Held'
    BY <1>1, <1>2, <1>3, <1>5, <2>1, <2>2, Distinct DEF Moves, IInv, Held,
       HasMux, HasClaim, Operating, Roles, Operands, At
  <2>6. Owned'
    BY <1>1, <1>2, <1>3, <1>5, <2>1, <2>2, Distinct DEF Moves, IInv, Owned,
       Roles, Operands, Operating, At
  <2>7. ListedLive'
    BY <1>1, <1>2, <1>3, <1>5, <2>1, <2>2, Distinct DEF Moves, IInv, ListedLive,
       Held, HasMux, Owned, Roles, Operands, Operating, At
  <2>8. Found'
    BY <1>1, <1>2, <1>3, <1>5, <2>1, <2>2, Distinct DEF Moves, IInv, Found,
       Held, HasMux, Roles, Operands, Operating, Listed, At
  <2> QED BY <2>3, <2>4, <2>5, <2>6, <2>7, <2>8 DEF IInv
<1>6. CASE t \in Deployers /\ ~local[t].ok
  <2>1. Discard(t, local[t].new) /\ local[t].new \in Handlers
    BY <1>1, <1>6, Distinct DEF Resume, IInv, Operands, Operating, At
  <2>2. PICK v \in LocalType :
        /\ v.fn = None /\ v.old = None /\ v.new = None
        /\ v.h = local[t].new /\ v.op = "destroy"
        /\ Moves(t, "opLock", v)
    BY <2>1, <1>1, DiscardMoves
  <2>3. TypeOK'
    BY <1>1, <1>2, <1>3, <1>6, <2>1, <2>2, Distinct DEF TypeOK, Moves,
       LocalType, maps
  <2>4. Roles' /\ Operands'
    BY <1>1, <1>2, <1>3, <1>6, <2>1, <2>2, Distinct DEF Moves, IInv, Roles,
       Operands, Operating, At
  <2>5. Held'
    BY <1>1, <1>2, <1>3, <1>6, <2>1, <2>2, Distinct DEF Moves, IInv, Held,
       HasMux, HasClaim, Operating, Roles, Operands, At
  <2>6. Owned'
    BY <1>1, <1>2, <1>3, <1>6, <2>1, <2>2, Distinct DEF Moves, IInv, Owned,
       Roles, Operands, Operating, At
  <2>7. ListedLive'
    BY <1>1, <1>2, <1>3, <1>6, <2>1, <2>2, Distinct DEF Moves, IInv, ListedLive,
       Held, HasMux, Owned, Roles, Operands, Operating, At
  <2>8. Found'
    BY <1>1, <1>2, <1>3, <1>6, <2>1, <2>2, Distinct DEF Moves, IInv, Found,
       Held, HasMux, Roles, Operands, Operating, Listed, At
  <2> QED BY <2>3, <2>4, <2>5, <2>6, <2>7, <2>8 DEF IInv
<1> QED BY <1>4, <1>5, <1>6

LEMMA DeployLookupInv ==
  ASSUME TypeOK, IInv, NEW t \in Deployers, NEW f \in Functions, DeployLookup(t, f)
  PROVE  TypeOK' /\ IInv'
<1>1. /\ At(t, "idle")
      /\ UNCHANGED <<functionHandlers, functionConfigs, holder>>
      /\ t \in Threads
      /\ functionHandlers[f] \in Handlers \cup {None}
  BY Distinct DEF DeployLookup, maps, TypeOK
<1>2. PICK h \in {g \in Handlers : Unused(g)} :
        /\ live' = live \cup {h}
        /\ IF functionHandlers[f] = None
             THEN Goto(t, "opLock", [Reset EXCEPT !.fn = f, !.new = h, !.h = h, !.op = "start"])
             ELSE Goto(t, "claim", [Reset EXCEPT !.fn = f, !.old = functionHandlers[f], !.new = h])
  BY DEF DeployLookup
<1>3. /\ h \in Handlers /\ \A g \in Functions : functionHandlers[g] # h
      /\ \A u \in Threads : local[u].h # h /\ local[u].old # h /\ local[u].new # h
  BY <1>2 DEF Unused
<1>4. CASE functionHandlers[f] = None
  <2> DEFINE v == [Reset EXCEPT !.fn = f, !.new = h, !.h = h, !.op = "start"]
  <2>1. /\ v \in LocalType
        /\ v.fn = f /\ v.h = h /\ v.op = "start"
        /\ v.old = None /\ v.new = h /\ v.todo = {}
    BY <1>3, LocalTyped DEF LocalType, Reset
  <2>2. Goto(t, "opLock", v) /\ "opLock" \in PcLabels
    BY <1>2, <1>4 DEF PcLabels, MuxLabels, OpMuxLabels
  <2> HIDE DEF v
  <2>3. Moves(t, "opLock", v)
    BY <1>1, <2>1, <2>2, GotoMoves
  <2>4. TypeOK'
    BY <1>1, <1>2, <1>3, <1>4, <2>1, <2>3, Distinct DEF TypeOK, Moves,
       LocalType, maps
  <2>5. Roles' /\ Operands'
    BY <1>1, <1>2, <1>3, <1>4, <2>1, <2>3, Distinct DEF Moves, IInv, Roles,
       Operands, Operating, At
  <2>6. Held'
    BY <1>1, <1>2, <1>3, <1>4, <2>1, <2>3, Distinct DEF Moves, IInv, Held,
       HasMux, HasClaim, Operating, Roles, Operands, At
  <2>7. Owned'
    BY <1>1, <1>2, <1>3, <1>4, <2>1, <2>3, Distinct DEF Moves, IInv, Owned,
       Roles, Operands, Operating, At
  <2>8. ListedLive'
    BY <1>1, <1>2, <1>3, <1>4, <2>1, <2>3, Distinct DEF Moves, IInv, ListedLive,
       Held, HasMux, Owned, Roles, Operands, Operating, At
  <2>9. Found'
    BY <1>1, <1>2, <1>3, <1>4, <2>1, <2>3, Distinct DEF Moves, IInv, Found,
       Held, HasMux, Roles, Operands, Operating, Listed, At
  <2> QED BY <2>4, <2>5, <2>6, <2>7, <2>8, <2>9 DEF IInv
<1>5. CASE functionHandlers[f] # None
  <2> DEFINE v == [Reset EXCEPT !.fn = f, !.old = functionHandlers[f], !.new = h]
  <2>1. /\ v \in LocalType
        /\ v.fn = f /\ v.h = None /\ v.op = None
        /\ v.old = functionHandlers[f] /\ v.new = h /\ v.todo = {}
    BY <1>1, <1>3, LocalTyped DEF LocalType, Reset
  <2>2. Goto(t, "claim", v) /\ "claim" \in PcLabels
    BY <1>2, <1>5 DEF PcLabels, MuxLabels, OpMuxLabels
  <2> HIDE DEF v
  <2>3. Moves(t, "claim", v)
    BY <1>1, <2>1, <2>2, GotoMoves
  <2>4. TypeOK'
    BY <1>1, <1>2, <1>3, <1>5, <2>1, <2>3, Distinct DEF TypeOK, Moves,
       LocalType, maps
  <2>5. Roles' /\ Operands'
    BY <1>1, <1>2, <1>3, <1>5, <2>1, <2>3, Distinct DEF Moves, IInv, Roles,
       Operands, Operating, At
  <2>6. Held'
    BY <1>1, <1>2, <1>3, <1>5, <2>1, <2>3, Distinct DEF Moves, IInv, Held,
       HasMux, HasClaim, Operating, Roles, Operands, At
  <2>7. Owned'
    BY <1>1, <1>2, <1>3, <1>5, <2>1, <2>3, Distinct DEF Moves, IInv, Owned,
       Roles, Operands, Operating, At
  <2>8. ListedLive'
    BY <1>1, <1>2, <1>3, <1>5, <2>1, <2>3, Distinct DEF Moves, IInv, ListedLive,
       Held, HasMux, Owned, Roles, Operands, Operating, At
  <2>9. Found'
    BY <1>1, <1>2, <1>3, <1>5, <2>1, <2>3, Distinct DEF Moves, IInv, Found,
       Held, HasMux, Roles, Operands, Operating, Listed, At
  <2> QED BY <2>4, <2>5, <2>6, <2>7, <2>8, <2>9 DEF IInv
<1> QED BY <1>4, <1>5

LEMMA DeployStartedInv ==
  ASSUME TypeOK, IInv, NEW t \in Deployers, DeployStarted(t)
  PROVE  TypeOK' /\ IInv'
<1>1. /\ At(t, "opDone") /\ local[t].op = "start"
      /\ UNCHANGED <<functionHandlers, functionConfigs, live, holder>> /\ t \in Threads
      /\ local[t].new \in Handlers /\ local[t].fn \in Functions
  BY Distinct DEF DeployStarted, maps, IInv, Operands, At, Operating
<1>2. CASE local[t].ok
  <2>1. Moves(t, "commit", local[t])
    BY <1>1, <1>2, ContinueMoves DEF DeployStarted, PcLabels, MuxLabels, OpMuxLabels
  <2>2. TypeOK'
    BY <1>1, <1>2, <2>1, TypeRest DEF Moves
  <2>3. Roles' /\ Operands'
    BY <1>1, <1>2, <2>1, Distinct DEF Moves, IInv, Roles, Operands, Operating, At
  <2>4. Held'
    BY <1>1, <1>2, <2>1, Distinct DEF Moves, IInv, Held, HasMux, HasClaim,
       Operating, Roles, Operands, At
  <2>5. Owned'
    BY <1>1, <1>2, <2>1, Distinct DEF Moves, IInv, Owned, Roles, Operands,
       Operating, At
  <2>6. ListedLive'
    BY <1>1, <1>2, <2>1, Distinct DEF Moves, IInv, ListedLive, Held, HasMux,
       Owned, Roles, Operands, Operating, At
  <2>7. Found'
    BY <1>1, <1>2, <2>1, Distinct DEF Moves, IInv, Found, Held, HasMux, Roles,
       Operands, Operating, Listed, At
  <2> QED BY <2>2, <2>3, <2>4, <2>5, <2>6, <2>7 DEF IInv
<1>3. CASE ~local[t].ok
  <2>1. PICK v \in LocalType :
        /\ v.fn = None /\ v.old = None /\ v.new = None
        /\ v.h = local[t].new /\ v.op = "destroy"
        /\ Moves(t, "opLock", v)
    BY <1>1, <1>3, DiscardMoves DEF DeployStarted
  <2>2. TypeOK'
    BY <1>1, <1>3, <2>1, TypeRest DEF Moves
  <2>3. Roles' /\ Operands'
    BY <1>1, <1>3, <2>1, Distinct DEF Moves, IInv, Roles, Operands, Operating, At
  <2>4. Held'
    BY <1>1, <1>3, <2>1, Distinct DEF Moves, IInv, Held, HasMux, HasClaim,
       Operating, Roles, Operands, At
  <2>5. Owned'
    BY <1>1, <1>3, <2>1, Distinct DEF Moves, IInv, Owned, Roles, Operands,
       Operating, At
  <2>6. ListedLive'
    BY <1>1, <1>3, <2>1, Distinct DEF Moves, IInv, ListedLive, Held, HasMux,
       Owned, Roles, Operands, Operating, At
  <2>7. Found'
    BY <1>1, <1>3, <2>1, Distinct DEF Moves, IInv, Found, Held, HasMux, Roles,
       Operands, Operating, Listed, At
  <2> QED BY <2>2, <2>3, <2>4, <2>5, <2>6, <2>7 DEF IInv
<1> QED BY <1>2, <1>3

LEMMA DeployCommitInv ==
  ASSUME TypeOK, IInv, NEW t \in Deployers, DeployCommit(t)
  PROVE  TypeOK' /\ IInv'
<1> DEFINE f == local[t].fn
<1>1. /\ At(t, "commit") /\ UNCHANGED <<live, holder>> /\ t \in Threads
      /\ f \in Functions /\ local[t].new \in Handlers /\ holder[Mux] = None
      /\ \A u \in Threads : ~HasMux(u)
  BY Distinct DEF DeployCommit, Free, IInv, Operands, Held, At
<1>2. /\ functionHandlers' \in [Functions -> Handlers \cup {None}]
      /\ functionHandlers'[f] = local[t].new
      /\ functionConfigs' \in [Functions -> Handlers \cup {None}]
      /\ functionConfigs'[f] = local[t].new
      /\ \A g \in Functions : g # f =>
           functionHandlers'[g] = functionHandlers[g] /\ functionConfigs'[g] = functionConfigs[g]
  BY <1>1 DEF DeployCommit, TypeOK
<1> HIDE DEF f
<1>3. f = local[t].fn
  BY DEF f
<1> DEFINE v == [local[t] EXCEPT !.new = None, !.op = None]
<1>4. /\ v \in LocalType
      /\ v.fn = local[t].fn /\ v.h = local[t].h /\ v.op = None
      /\ v.old = local[t].old /\ v.new = None /\ v.todo = local[t].todo
  BY <1>1, LocalTyped DEF LocalType
<1>5. Goto(t, "register", v) /\ "register" \in PcLabels
  BY DEF DeployCommit, PcLabels, MuxLabels, OpMuxLabels
<1> HIDE DEF v
<1>6. Moves(t, "register", v)
  BY <1>1, <1>4, <1>5, GotoMoves
<1>7. TypeOK'
  BY <1>1, <1>2, <1>3, <1>4, <1>6, Distinct DEF TypeOK, Moves, LocalType, maps
<1>8. Roles' /\ Operands'
  BY <1>1, <1>2, <1>3, <1>4, <1>6, Distinct DEF Moves, IInv, Roles, Operands,
     Operating, At, Listed, HasMux
<1>9. Held'
  BY <1>1, <1>2, <1>3, <1>4, <1>6, Distinct DEF Moves, IInv, Held, HasMux,
     HasClaim, Operating, Roles, Operands, At, Listed, HasMux
<1>10. Owned'
  BY <1>1, <1>2, <1>3, <1>4, <1>6, Distinct DEF Moves, IInv, Owned, Roles,
     Operands, Operating, At, Listed, HasMux
<1>11. ListedLive'
  BY <1>1, <1>2, <1>3, <1>4, <1>6, Distinct DEF Moves, IInv, ListedLive, Held,
     HasMux, Owned, Roles, Operands, Operating, At, Listed, HasMux
<1>12. Found'
  BY <1>1, <1>2, <1>3, <1>4, <1>6, Distinct DEF Moves, IInv, Found, Held, HasMux,
     Roles, Operands, Operating, Listed, At, Listed, HasMux
<1> QED BY <1>7, <1>8, <1>9, <1>10, <1>11, <1>12 DEF IInv

LEMMA DeployRegisterInv ==
  ASSUME TypeOK, IInv, NEW t \in Deployers, DeployRegister(t)
  PROVE  TypeOK' /\ IInv'
<1>1. /\ At(t, "register")
      /\ UNCHANGED <<functionHandlers, functionConfigs, live>>
      /\ t \in Threads
      /\ local[t].fn \in Functions
      /\ holder' = [holder EXCEPT ![local[t].fn] = None]
      /\ local[t].old \in Handlers \cup {None}
  BY LocalTyped, Distinct DEF DeployRegister, Unlock, maps, IInv, Operands, At,
     LocalType
<1>2. /\ holder' \in [Locks -> Threads \cup {None}]
      /\ holder'[local[t].fn] = None
      /\ \A l \in Locks : l # local[t].fn => holder'[l] = holder[l]
  BY <1>1, Distinct DEF TypeOK
<1>3. CASE local[t].old = None
  <2>1. Moves(t, "idle", Reset)
    BY <1>1, <1>3, ReturnMoves DEF DeployRegister
  <2>2. TypeOK'
    BY <1>1, <1>2, <1>3, <2>1, Distinct DEF TypeOK, Moves, LocalType, maps
  <2>3. Roles' /\ Operands'
    BY <1>1, <1>2, <1>3, <2>1, Distinct DEF Moves, IInv, Roles, Operands,
       Operating, At, Reset
  <2>4. Held'
    BY <1>1, <1>2, <1>3, <2>1, Distinct DEF Moves, IInv, Held, HasMux, HasClaim,
       Operating, Roles, Operands, At, Reset
  <2>5. Owned'
    BY <1>1, <1>2, <1>3, <2>1, Distinct DEF Moves, IInv, Owned, Roles, Operands,
       Operating, At, Reset
  <2>6. ListedLive'
    BY <1>1, <1>2, <1>3, <2>1, Distinct DEF Moves, IInv, ListedLive, Held,
       HasMux, Owned, Roles, Operands, Operating, At, Reset
  <2>7. Found'
    BY <1>1, <1>2, <1>3, <2>1, Distinct DEF Moves, IInv, Found, Held, HasMux,
       Roles, Operands, Operating, Listed, At, Reset
  <2> QED BY <2>2, <2>3, <2>4, <2>5, <2>6, <2>7 DEF IInv
<1>4. CASE local[t].old # None
  <2>1. PICK v \in LocalType :
        /\ v.fn = None /\ v.old = None /\ v.new = None
        /\ v.h = local[t].old /\ v.op = "destroy"
        /\ Moves(t, "opLock", v)
    BY <1>1, <1>4, DiscardMoves DEF DeployRegister
  <2>2. TypeOK'
    BY <1>1, <1>2, <1>4, <2>1, Distinct DEF TypeOK, Moves, LocalType, maps
  <2>3. Roles' /\ Operands'
    BY <1>1, <1>2, <1>4, <2>1, Distinct DEF Moves, IInv, Roles, Operands,
       Operating, At
  <2>4. Held'
    BY <1>1, <1>2, <1>4, <2>1, Distinct DEF Moves, IInv, Held, HasMux, HasClaim,
       Operating, Roles, Operands, At
  <2>5. Owned'
    BY <1>1, <1>2, <1>4, <2>1, Distinct DEF Moves, IInv, Owned, Roles, Operands,
       Operating, At
  <2>6. ListedLive'
    BY <1>1, <1>2, <1>4, <2>1, Distinct DEF Moves, IInv, ListedLive, Held,
       HasMux, Owned, Roles, Operands, Operating, At
  <2>7. Found'
    BY <1>1, <1>2, <1>4, <2>1, Distinct DEF Moves, IInv, Found, Held, HasMux,
       Roles, Operands, Operating, Listed, At
  <2> QED BY <2>2, <2>3, <2>4, <2>5, <2>6, <2>7 DEF IInv
<1> QED BY <1>3, <1>4

LEMMA DeployEndInv ==
  ASSUME TypeOK, IInv, NEW t \in Deployers, DeployEnd(t)
  PROVE  TypeOK' /\ IInv'
<1>1. /\ At(t, "opDone") /\ local[t].op = "destroy"
      /\ UNCHANGED <<functionHandlers, functionConfigs, live, holder>> /\ t \in Threads
  BY Distinct DEF DeployEnd, maps
<1>2. Moves(t, "idle", Reset)
  BY <1>1, ReturnMoves DEF DeployEnd
<1>3. TypeOK'
  BY <1>1, <1>2, TypeRest DEF Moves
<1>4. Roles' /\ Operands'
  BY <1>1, <1>2, Distinct DEF Moves, IInv, Roles, Operands, Operating, At, Reset
<1>5. Held'
  BY <1>1, <1>2, Distinct DEF Moves, IInv, Held, HasMux, HasClaim, Operating,
     Roles, Operands, At, Reset
<1>6. Owned'
  BY <1>1, <1>2, Distinct DEF Moves, IInv, Owned, Roles, Operands, Operating, At,
     Reset
<1>7. ListedLive'
  BY <1>1, <1>2, Distinct DEF Moves, IInv, ListedLive, Held, HasMux, Owned, Roles,
     Operands, Operating, At, Reset
<1>8. Found'
  BY <1>1, <1>2, Distinct DEF Moves, IInv, Found, Held, HasMux, Roles, Operands,
     Operating, Listed, At, Reset
<1> QED BY <1>3, <1>4, <1>5, <1>6, <1>7, <1>8 DEF IInv
-----------------------------------------------------------------------------
(* The invariant holds initially and after every step. *)

LEMMA InitInv == Init => TypeOK /\ IInv
<1> SUFFICES ASSUME Init PROVE TypeOK /\ IInv
  OBVIOUS
<1>1. \A t \in Threads : pc[t] = "idle" /\ local[t] = Reset
  BY DEF Init
<1>2. \A l \in Locks : holder[l] = None
  BY DEF Init
<1>3. \A f \in Functions : functionHandlers[f] = None /\ functionConfigs[f] = None
  BY DEF Init
<1>4. TypeOK
  BY Distinct DEF Init, TypeOK, Reset, PcLabels
<1>5. Roles /\ Operands
  BY <1>1, Distinct DEF Roles, Operands, Operating, At, Reset
<1>6. Held
  BY <1>1, <1>2, Distinct DEF Held, HasMux, HasClaim, Operating, At
<1>7. Owned
  BY <1>1, <1>3, Distinct DEF Owned, At, Reset
<1>8. ListedLive /\ Found
  BY <1>1, <1>3, Distinct DEF ListedLive, Found, Operating, At
<1> QED BY <1>4, <1>5, <1>6, <1>7, <1>8 DEF IInv

LEMMA StutterInv ==
  ASSUME TypeOK, IInv, UNCHANGED vars
  PROVE  TypeOK' /\ IInv'
<1> USE DEF vars, maps
<1>1. TypeOK'
  BY DEF TypeOK
<1>2. Roles' /\ Operands' /\ Held'
  BY DEF IInv, Roles, Operands, Held, HasMux, HasClaim, Operating, At
<1>3. Owned' /\ ListedLive' /\ Found'
  BY DEF IInv, Owned, ListedLive, Found, Listed, Operating, At
<1> QED BY <1>1, <1>2, <1>3 DEF IInv

LEMMA StepInv ==
  ASSUME TypeOK, IInv, [Next]_vars
  PROVE  TypeOK' /\ IInv'
<1>1. CASE UNCHANGED vars
  BY <1>1, StutterInv
<1>2. ASSUME NEW t \in Threads, Request(t)
      PROVE  TypeOK' /\ IInv'
  BY <1>2, ReadRequestInv, LogsRequestInv, DeleteRequestInv, TryScaleInv,
     ColdStartInv, DeployLookupInv DEF Request
<1>3. ASSUME NEW t \in Threads, OwnStep(t)
      PROVE  TypeOK' /\ IInv'
  <2>1. CASE OpLock(t) \/ OpEnd(t)
    BY <2>1, OpLockInv, OpEndInv
  <2>2. CASE t \in Readers /\ ReadStep(t)
    BY <2>2, ReadLockInv, ReadNextInv, IsRunningInv, ReadDoneInv, LogsNamesInv,
       LogsFunctionInv, LogsFailedInv DEF ReadStep
  <2>3. CASE t \in Deleters /\ DeleteStep(t)
    BY <2>3, DeleteLockInv, DeleteFailedInv, DeleteFinishInv DEF DeleteStep
  <2>4. CASE t \in Scalers \cup Deployers /\ ScaleStep(t)
    BY <2>4, ClaimInv, ScaleLookupInv, ScaleIPsInv, RestartIPsInv, ScaleDoneInv
       DEF ScaleStep
  <2>5. CASE t \in Deployers /\ DeployStep(t)
    BY <2>5, DeployStartedInv, DeployCommitInv, DeployRegisterInv, DeployEndInv
       DEF DeployStep
  <2> QED BY <1>3, <2>1, <2>2, <2>3, <2>4, <2>5 DEF OwnStep
<1> QED BY <1>1, <1>2, <1>3 DEF Next

LEMMA Invariance == Spec => [](TypeOK /\ IInv)
<1>1. Init => TypeOK /\ IInv
  BY InitInv
<1>2. (TypeOK /\ IInv) /\ [Next]_vars => (TypeOK /\ IInv)'
  BY StepInv
<1> QED BY <1>1, <1>2, PTL DEF Spec
-----------------------------------------------------------------------------
(* What follows from it. *)

\* The variables of pkg/server, the locks and every goroutine's variables have
\* their types; in particular mux is only ever held across a step by a reader
\* or a delete, and a scaling claim by a scaling goroutine or a deployment.
THEOREM TypeCorrect == Spec => []TypeOK
  BY Invariance, PTL

LEMMA Acyclic ==
  ASSUME TypeOK, IInv, NEW S \in (SUBSET Threads) \ {{}}
  PROVE  \E t \in S : \A u \in S : ~WaitsFor(t, u)
<1> USE DEF WaitsFor, Needs, MuxLabels, OpMuxLabels, At
<1>0. S \subseteq Threads /\ S # {}
  BY Zenon
<1>1. CASE \E t \in S : pc[t] \notin MuxLabels \cup OpMuxLabels \cup {"claim"}
  <2>1. PICK t \in S : pc[t] \notin MuxLabels \cup OpMuxLabels \cup {"claim"}
    BY <1>1
  <2> QED BY <2>1
\* Whoever holds an opMux is at work on Docker and waits for no lock.
<1>2. CASE /\ ~\E t \in S : pc[t] \notin MuxLabels \cup OpMuxLabels \cup {"claim"}
           /\ \E t \in S : pc[t] \in OpMuxLabels
  <2>1. PICK t \in S : pc[t] \in OpMuxLabels
    BY <1>2
  <2>2. Needs(t) = local[t].h /\ local[t].h \in Handlers
    BY <1>0, <2>1 DEF IInv, Operands
  <2>3. \A u \in S : holder[local[t].h] = u => pc[u] = "op"
    BY <1>0, <2>2 DEF IInv, Held
  <2>4. \A u \in S : ~WaitsFor(t, u)
    BY <1>2, <2>2, <2>3
  <2> QED BY <2>4
\* Whoever holds mux waits for an opMux at most.
<1>3. CASE /\ \A t \in S : pc[t] \in MuxLabels \cup {"claim"}
           /\ \E t \in S : pc[t] \in MuxLabels
  <2>1. PICK t \in S : pc[t] \in MuxLabels
    BY <1>3
  <2>2. Needs(t) = Mux
    BY <2>1
  <2>3. \A u \in S : holder[Mux] = u =>
          pc[u] \in {"reading", "isRunning", "opLock", "op", "opDone"}
    BY <1>0 DEF IInv, Held, HasMux, Operating
  <2>4. \A u \in S : ~WaitsFor(t, u)
    BY <1>3, <2>2, <2>3
  <2> QED BY <2>4
\* Whoever is scaling a function waits for mux or an opMux at most.
<1>4. CASE \A t \in S : pc[t] = "claim"
  <2>1. PICK t \in S : pc[t] = "claim"
    BY <1>0, <1>4
  <2>2. Needs(t) = local[t].fn /\ local[t].fn \in Functions
    BY <1>0, <2>1 DEF IInv, Operands
  <2>3. \A u \in S : holder[local[t].fn] = u => HasClaim(u)
    BY <1>0, <2>2 DEF IInv, Held
  <2>4. \A u \in S : ~WaitsFor(t, u)
    BY <1>4, <2>2, <2>3 DEF HasClaim, Operating
  <2> QED BY <2>4
<1> QED BY <1>0, <1>1, <1>2, <1>3, <1>4

\* Whatever the requests, no goroutines of pkg/server wait for each other in a
\* ring, although List, Get and Delete wait for operations with mux in hand and
\* redeployments wait for the scaling of their function.
THEOREM NeverWaitCycle == Spec => []NoWaitCycle
<1>1. TypeOK /\ IInv => NoWaitCycle
  BY Acyclic DEF NoWaitCycle
<1> QED BY <1>1, Invariance, PTL

\* What List and Get go on to report was found under mux and is still deployed:
\* a handler with its own configuration that nobody is destroying; and only a
\* delete makes a request for all logs fail.
THEOREM ReadersAlwaysSeeDeployed == Spec => []ReadersSeeDeployed
<1>1. ASSUME TypeOK, IInv, NEW t \in Readers
      PROVE  /\ \A f \in (IF At(t, "reading") THEN local[t].todo ELSE {})
                           \cup (IF At(t, "isRunning") THEN {local[t].fn} ELSE {}) :
                  /\ functionHandlers[f] # None
                  /\ functionConfigs[f] = functionHandlers[f]
                  /\ functionHandlers[f] \in live
             /\ At(t, "logsFailed") => local[t].fn \in Removable
  <2>1. ASSUME At(t, "reading") \/ At(t, "isRunning"), NEW f \in Listed
        PROVE  /\ functionHandlers[f] # None /\ functionConfigs[f] = functionHandlers[f]
               /\ functionHandlers[f] \in live
    <3>1. holder[Mux] = t
      BY <1>1, <2>1, Distinct DEF IInv, Held, HasMux, At
    <3>2. \A d \in Deleters : ~Operating(d)
      BY <1>1, <3>1, Distinct DEF IInv, Held, HasMux
    <3> QED BY <1>1, <2>1, <3>2 DEF IInv, Owned, ListedLive, Operating, At, Listed
  <2>2. /\ At(t, "reading") => local[t].todo \subseteq Listed
        /\ At(t, "isRunning") => local[t].fn \in Listed
        /\ At(t, "logsFailed") => local[t].fn \in Removable
    BY <1>1 DEF IInv, Found
  <2> QED BY <2>1, <2>2
<1>2. TypeOK /\ IInv => ReadersSeeDeployed
  BY <1>1 DEF ReadersSeeDeployed
<1> QED BY <1>2, Invariance, PTL
=============================================================================
