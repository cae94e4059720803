------------------------- MODULE GatewayStatsProofs -------------------------
(***************************************************************************)
(* Theorems about GatewayStats, for any functions, goroutines and status   *)
(* codes, however many requests there are.                                 *)
(***************************************************************************)
EXTENDS GatewayStats, FiniteSetTheorems, TLAPS

\* A goroutine's local variables.
Local(l) ==
  /\ DOMAIN l = {"pc", "fn", "startedAt", "status", "copy"}
  /\ l.startedAt \in Nat
  /\ l.pc # "idle" => l.fn \in Functions
  /\ l.pc \in {"record", "store"} => l.status \in Codes

Types ==
  /\ stats \in [Functions -> FunctionStats \cup {None}]
  /\ finished \in [Functions -> Nat]
  /\ now \in Nat
  /\ DOMAIN thread = Threads
  /\ \A t \in Threads : Local(thread[t])

\* What Record read is still what it will replace: the lock is held in between.
Exclusive ==
  \A t \in Threads : At(t, "store") => mu = t /\ thread[t].copy = Entry(thread[t].fn)

IInv == Types /\ Exclusive /\ SummaryAgrees /\ CompletionsCounted

-----------------------------------------------------------------------------
(* One more invocation in a list of them. *)

Successes(s) == {i \in DOMAIN s : s[i].success}
Failures(s) == {i \in DOMAIN s : ~s[i].success}
WithStatus(s, c) == {i \in DOMAIN s : s[i].status = c}

\* A set of positions and the position after the last one.
LEMMA OneMore ==
  ASSUME NEW n \in Nat, NEW G \in SUBSET (1..n)
  PROVE  /\ Cardinality(G) \in Nat
         /\ Cardinality(G \cup {n + 1}) = Cardinality(G) + 1
<1>1. IsFiniteSet(1..n)
  BY FS_Interval
<1>2. IsFiniteSet(G)
  BY <1>1, FS_Subset
<1>3. n + 1 \notin G
  OBVIOUS
<1> QED BY <1>2, <1>3, FS_AddElement, FS_CardinalityType

LEMMA CountsAppended ==
  ASSUME NEW s \in Seq(InvocationRecord), NEW r \in InvocationRecord
  PROVE  LET n == Append(s, r)
         IN  /\ Cardinality(Successes(n)) =
                  Cardinality(Successes(s)) + (IF r.success THEN 1 ELSE 0)
             /\ Cardinality(Failures(n)) =
                  Cardinality(Failures(s)) + (IF r.success THEN 0 ELSE 1)
             /\ \A c : Cardinality(WithStatus(n, c)) =
                  Cardinality(WithStatus(s, c)) + (IF r.status = c THEN 1 ELSE 0)
<1> DEFINE n == Append(s, r)
           m == Len(s)
<1>1. /\ m \in Nat /\ DOMAIN s = 1..m /\ DOMAIN n = (1..m) \cup {m + 1}
      /\ m + 1 \notin 1..m
      /\ \A i \in 1..m : n[i] = s[i]
      /\ n[m + 1] = r
  OBVIOUS
<1> HIDE DEF n, m
<1>2. /\ Successes(s) \in SUBSET (1..m)
      /\ Successes(n) = IF r.success THEN Successes(s) \cup {m + 1} ELSE Successes(s)
  BY <1>1 DEF Successes
<1>3. /\ Failures(s) \in SUBSET (1..m)
      /\ Failures(n) = IF r.success THEN Failures(s) ELSE Failures(s) \cup {m + 1}
  BY <1>1 DEF Failures
<1>4. ASSUME NEW c
      PROVE  /\ WithStatus(s, c) \in SUBSET (1..m)
             /\ WithStatus(n, c) = IF r.status = c THEN WithStatus(s, c) \cup {m + 1}
                                   ELSE WithStatus(s, c)
  BY <1>1 DEF WithStatus
<1>5. Cardinality(Successes(n)) = Cardinality(Successes(s)) + (IF r.success THEN 1 ELSE 0)
  <2>1. /\ Cardinality(Successes(s)) \in Nat
        /\ Cardinality(Successes(s) \cup {m + 1}) = Cardinality(Successes(s)) + 1
    BY <1>1, <1>2, OneMore
  <2> QED BY <1>2, <2>1
<1>6. Cardinality(Failures(n)) = Cardinality(Failures(s)) + (IF r.success THEN 0 ELSE 1)
  <2>1. /\ Cardinality(Failures(s)) \in Nat
        /\ Cardinality(Failures(s) \cup {m + 1}) = Cardinality(Failures(s)) + 1
    BY <1>1, <1>3, OneMore
  <2> QED BY <1>3, <2>1
<1>7. ASSUME NEW c
      PROVE  Cardinality(WithStatus(n, c)) =
               Cardinality(WithStatus(s, c)) + (IF r.status = c THEN 1 ELSE 0)
  <2>1. /\ Cardinality(WithStatus(s, c)) \in Nat
        /\ Cardinality(WithStatus(s, c) \cup {m + 1}) = Cardinality(WithStatus(s, c)) + 1
    BY <1>1, <1>4, OneMore
  <2>2. CASE r.status = c
    BY <1>4, <2>1, <2>2
  <2>3. CASE r.status # c
    BY <1>4, <2>1, <2>3
  <2> QED BY <2>2, <2>3
<1> QED BY <1>5, <1>6, <1>7 DEF n

\* Agrees, with its counts spelled out.
LEMMA AgreesMeans ==
  ASSUME NEW s
  PROVE  Agrees(s) <=>
           /\ s.ok = Cardinality(Successes(s.invocations))
           /\ s.failed = Cardinality(Failures(s.invocations))
           /\ \A c \in DOMAIN s.codes :
                s.codes[c] = Cardinality(WithStatus(s.invocations, c))
  BY DEF Agrees, Count, Successes, Failures, WithStatus

\* Record keeps a summary that agrees with the list next to it.
LEMMA RecordedAgrees ==
  ASSUME NEW s \in FunctionStats, NEW r \in InvocationRecord, Agrees(s)
  PROVE  /\ Recorded(s, r) \in FunctionStats /\ Agrees(Recorded(s, r))
         /\ Len(Recorded(s, r).invocations) = Len(s.invocations) + 1
<1> DEFINE n == Recorded(s, r)
<1>1. /\ s.invocations \in Seq(InvocationRecord) /\ s.ok \in Nat /\ s.failed \in Nat
      /\ s.codes \in [Codes -> Nat]
  BY DEF FunctionStats
<1>2. r.success \in BOOLEAN /\ r.status \in Codes
  BY DEF InvocationRecord
<1>3. /\ n.invocations = Append(s.invocations, r)
      /\ n.ok = s.ok + (IF r.success THEN 1 ELSE 0)
      /\ n.failed = s.failed + (IF r.success THEN 0 ELSE 1)
      /\ n.codes = [s.codes EXCEPT ![r.status] = s.codes[r.status] + 1]
      /\ n = [invocations |-> n.invocations, ok |-> n.ok, failed |-> n.failed,
              codes |-> n.codes]
  BY DEF Recorded
<1> HIDE DEF n
<1>4. /\ n.invocations \in Seq(InvocationRecord) /\ n.ok \in Nat /\ n.failed \in Nat
      /\ n.codes \in [Codes -> Nat]
      /\ Len(n.invocations) = Len(s.invocations) + 1
  BY <1>1, <1>2, <1>3
<1>5. n \in FunctionStats
  BY <1>3, <1>4 DEF FunctionStats
<1>6. /\ s.ok = Cardinality(Successes(s.invocations))
      /\ s.failed = Cardinality(Failures(s.invocations))
      /\ \A c \in Codes : s.codes[c] = Cardinality(WithStatus(s.invocations, c))
  BY <1>1, AgreesMeans
<1>7. /\ n.ok = Cardinality(Successes(n.invocations))
      /\ n.failed = Cardinality(Failures(n.invocations))
  BY <1>1, <1>3, <1>6, CountsAppended
<1>8. ASSUME NEW c \in Codes
      PROVE  n.codes[c] = Cardinality(WithStatus(n.invocations, c))
  <2>1. n.codes[c] = s.codes[c] + (IF r.status = c THEN 1 ELSE 0)
    BY <1>1, <1>2, <1>3
  <2> QED BY <1>1, <1>3, <1>6, <2>1, CountsAppended
<1>9. Agrees(n)
  BY <1>4, <1>7, <1>8, AgreesMeans
<1> QED BY <1>4, <1>5, <1>9 DEF n

LEMMA EmptyAgrees == Empty \in FunctionStats /\ Agrees(Empty) /\ Len(Empty.invocations) = 0
<1>1. /\ Empty.invocations = << >> /\ Empty.ok = 0 /\ Empty.failed = 0
      /\ Empty.codes = NoCodes /\ Empty \in FunctionStats
  BY DEF Empty, FunctionStats, NoCodes
<1>2. /\ Successes(<< >>) = {} /\ Failures(<< >>) = {}
      /\ \A c : WithStatus(<< >>, c) = {}
  BY DEF Successes, Failures, WithStatus
<1>3. \A c \in DOMAIN NoCodes : NoCodes[c] = 0
  BY DEF NoCodes
<1> QED BY <1>1, <1>2, <1>3, FS_EmptySet, AgreesMeans

-----------------------------------------------------------------------------
(* Every step preserves the inductive invariant. *)

LEMMA Moved ==
  ASSUME Types, NEW t \in Threads, NEW l, Goto(t, l), Local(l)
  PROVE  /\ DOMAIN thread' = Threads
         /\ thread'[t] = l
         /\ \A s \in Threads : s # t => thread'[s] = thread[s]
         /\ \A s \in Threads : Local(thread'[s])
  BY DEF Types, Goto

\* A step of one goroutine outside Record, which leaves the store alone.
LEMMA Quiet ==
  ASSUME IInv, NEW t \in Threads, NEW l, Goto(t, l), Local(l), l.pc # "store",
         now' \in Nat, UNCHANGED <<stats, mu, finished>>
  PROVE  IInv'
<1>1. Types'
  BY Moved DEF IInv, Types
<1>2. Exclusive'
  BY Moved DEF IInv, Exclusive, At, Entry
<1>3. SummaryAgrees' /\ CompletionsCounted'
  BY DEF IInv, SummaryAgrees, CompletionsCounted
<1> QED BY <1>1, <1>2, <1>3 DEF IInv

LEMMA BeginInv ==
  ASSUME IInv, NEW t \in Threads, NEW f \in Functions,
         NEW label \in {"proxy", "reset", "get"}, Begin(t, f, label)
  PROVE  IInv'
<1> DEFINE l == [thread[t] EXCEPT !.pc = label, !.fn = f, !.startedAt = now + 1]
<1>1. Local(l) /\ l.pc # "store" /\ now + 1 \in Nat
  BY DEF IInv, Types, Local
<1>2. Goto(t, l) /\ now' = now + 1 /\ UNCHANGED <<stats, mu, finished>>
  BY DEF Begin
<1> QED BY <1>1, <1>2, Quiet

LEMMA InvokeProxiedInv ==
  ASSUME IInv, NEW t \in Threads, InvokeProxied(t)
  PROVE  IInv'
<1>1. PICK status \in Codes :
        Goto(t, [thread[t] EXCEPT !.pc = "record", !.status = status])
  BY DEF InvokeProxied, Codes
<1> DEFINE l == [thread[t] EXCEPT !.pc = "record", !.status = status]
<1>2. Local(l) /\ l.pc # "store"
  BY DEF IInv, Types, Local, InvokeProxied, At
<1>3. now' \in Nat /\ UNCHANGED <<stats, mu, finished>>
  BY DEF IInv, Types, InvokeProxied
<1> QED BY <1>1, <1>2, <1>3, Quiet

\* Record takes the lock: no other goroutine is between its read and its write.
LEMMA RecordReadsInv ==
  ASSUME IInv, NEW t \in Threads, RecordReads(t)
  PROVE  IInv'
<1> DEFINE l == [thread[t] EXCEPT !.pc = "store", !.copy = Entry(thread[t].fn)]
<1>1. /\ Goto(t, l) /\ At(t, "record") /\ mu = None /\ mu' = t
      /\ UNCHANGED <<stats, now, finished>>
  BY DEF RecordReads, StoreFree
<1>2. Local(l) /\ l.fn = thread[t].fn /\ l.copy = Entry(thread[t].fn)
  BY <1>1 DEF IInv, Types, Local, At
<1> HIDE DEF l
<1>3. Types'
  BY <1>1, <1>2, Moved DEF IInv, Types
<1>4. Exclusive'
  <2>1. \A s \in Threads : ~At(s, "store")
    BY <1>1, NoneAssumption DEF IInv, Exclusive
  <2> QED BY <1>1, <1>2, <2>1, Moved DEF IInv, Exclusive, At, Entry
<1>5. SummaryAgrees' /\ CompletionsCounted'
  BY <1>1 DEF IInv, SummaryAgrees, CompletionsCounted
<1> QED BY <1>3, <1>4, <1>5 DEF IInv

\* Record writes back what it read and one invocation more.
LEMMA RecordStoresInv ==
  ASSUME IInv, NEW t \in Threads, RecordStores(t)
  PROVE  IInv'
<1> DEFINE f == thread[t].fn
           r == [startedAt |-> thread[t].startedAt, status |-> thread[t].status,
                 success |-> Success(thread[t].status)]
           n == Recorded(Entry(f), r)
<1>1. At(t, "store") /\ Goto(t, Idle) /\ mu' = None /\ UNCHANGED now
  BY DEF RecordStores
<1>2. /\ f \in Functions /\ thread[t].startedAt \in Nat /\ thread[t].status \in Codes
      /\ mu = t /\ thread[t].copy = Entry(f)
  BY <1>1 DEF IInv, Types, Local, Exclusive, At
<1>3. stats' = [stats EXCEPT ![f] = n] /\ finished' = [finished EXCEPT ![f] = @ + 1]
  BY <1>2 DEF RecordStores
<1>4. r \in InvocationRecord
  BY <1>2 DEF InvocationRecord, Success
<1>5. /\ Entry(f) \in FunctionStats /\ Agrees(Entry(f))
      /\ finished[f] \in Nat /\ Len(Entry(f).invocations) = finished[f]
  BY <1>2, EmptyAgrees DEF IInv, Types, SummaryAgrees, CompletionsCounted, Entry
<1>6. n \in FunctionStats /\ Agrees(n) /\ Len(n.invocations) = finished[f] + 1
  BY <1>4, <1>5, RecordedAgrees
<1>7. Local(Idle) /\ Idle.pc = "idle"
  BY DEF Local, Idle
<1> HIDE DEF f, r, n
<1>8. n # None
  BY <1>6, NoneAssumption
<1>9. Types'
  BY <1>1, <1>2, <1>3, <1>5, <1>6, <1>7, Moved DEF IInv, Types
<1>10. Exclusive'
  BY <1>1, <1>2, <1>7, Moved DEF IInv, Exclusive, At
<1>11. SummaryAgrees'
  BY <1>2, <1>3, <1>6 DEF IInv, Types, SummaryAgrees
<1>12. CompletionsCounted'
  BY <1>2, <1>3, <1>6, <1>8 DEF IInv, Types, CompletionsCounted
<1> QED BY <1>9, <1>10, <1>11, <1>12 DEF IInv

\* A reset finds no goroutine inside Record.
LEMMA ResetStatsInv ==
  ASSUME IInv, NEW t \in Threads, ResetStats(t)
  PROVE  IInv'
<1> DEFINE l == [thread[t] EXCEPT !.pc = "proxy"]
           f == thread[t].fn
<1>1. Goto(t, l) /\ At(t, "reset") /\ UNCHANGED <<mu, now>>
  BY DEF ResetStats
<1>2. Local(l) /\ l.pc = "proxy" /\ f \in Functions
  BY <1>1 DEF IInv, Types, Local, At
<1>3. CASE UNCHANGED <<stats, finished>>
  <2>1. now' \in Nat
    BY <1>1 DEF IInv, Types
  <2> QED BY <1>1, <1>2, <1>3, <2>1, Quiet
<1>4. CASE /\ mu = None
           /\ stats' = [stats EXCEPT ![f] = None] /\ finished' = [finished EXCEPT ![f] = 0]
  <2> HIDE DEF l, f
  <2>1. Types'
    BY <1>1, <1>2, <1>4, Moved DEF IInv, Types
  <2>2. Exclusive'
    <3>1. \A s \in Threads : ~At(s, "store")
      BY <1>4, NoneAssumption DEF IInv, Exclusive
    <3> QED BY <1>1, <1>2, <1>4, <3>1, Moved DEF IInv, Exclusive, At
  <2>3. SummaryAgrees'
    BY <1>2, <1>4 DEF IInv, Types, SummaryAgrees
  <2>4. CompletionsCounted'
    BY <1>2, <1>4 DEF IInv, Types, CompletionsCounted
  <2> QED BY <2>1, <2>2, <2>3, <2>4 DEF IInv
<1> QED BY <1>3, <1>4 DEF ResetStats, StoreFree

LEMMA DeleteProxiedInv ==
  ASSUME IInv, NEW t \in Threads, DeleteProxied(t)
  PROVE  IInv'
<1>1. Local(Idle) /\ Idle.pc # "store"
  BY DEF Local, Idle
<1>2. Goto(t, Idle) /\ now' \in Nat /\ UNCHANGED <<stats, mu, finished>>
  BY DEF IInv, Types, DeleteProxied
<1> QED BY <1>1, <1>2, Quiet

LEMMA GetCopiesInv ==
  ASSUME IInv, NEW t \in Threads, GetCopies(t)
  PROVE  IInv'
<1> DEFINE l == [thread[t] EXCEPT !.pc = "exists", !.copy = stats[thread[t].fn]]
<1>1. Local(l) /\ l.pc # "store"
  BY DEF IInv, Types, Local, GetCopies, At
<1>2. Goto(t, l) /\ now' \in Nat /\ UNCHANGED <<stats, mu, finished>>
  BY DEF IInv, Types, GetCopies
<1> QED BY <1>1, <1>2, Quiet

LEMMA AnswerInv ==
  ASSUME IInv, NEW t \in Threads, Answer(t)
  PROVE  IInv'
<1>1. PICK status \in {200, NotFound, BadGateway} :
        Goto(t, [thread[t] EXCEPT !.pc = "answered", !.status = status,
                                  !.copy = IF status = 200 THEN Reply(t) ELSE None])
  BY DEF Answer
<1> DEFINE l == [thread[t] EXCEPT !.pc = "answered", !.status = status,
                                  !.copy = IF status = 200 THEN Reply(t) ELSE None]
<1>2. Local(l) /\ l.pc # "store"
  BY DEF IInv, Types, Local, Answer, At
<1>3. now' \in Nat /\ UNCHANGED <<stats, mu, finished>>
  BY DEF IInv, Types, Answer
<1>4. Goto(t, l)
  BY <1>1
<1> HIDE DEF l
<1> QED BY <1>2, <1>3, <1>4, Quiet

LEMMA ReadEndsInv ==
  ASSUME IInv, NEW t \in Threads, ReadEnds(t)
  PROVE  IInv'
<1>1. Local(Idle) /\ Idle.pc # "store"
  BY DEF Local, Idle
<1>2. Goto(t, Idle) /\ now' \in Nat /\ UNCHANGED <<stats, mu, finished>>
  BY DEF IInv, Types, ReadEnds
<1> QED BY <1>1, <1>2, Quiet

\* Nothing that the invariant speaks of changes.
LEMMA AsideInv ==
  ASSUME IInv, now' \in Nat, UNCHANGED <<stats, mu, thread, finished>>
  PROVE  IInv'
  BY DEF IInv, Types, Exclusive, SummaryAgrees, CompletionsCounted, At, Entry

-----------------------------------------------------------------------------
LEMMA InitInv == Init => IInv
<1> SUFFICES ASSUME Init PROVE IInv
  OBVIOUS
<1>1. Types
  BY DEF Init, Types, Local, Idle
<1>2. Exclusive /\ SummaryAgrees /\ CompletionsCounted
  BY DEF Init, Exclusive, SummaryAgrees, CompletionsCounted, At, Idle
<1> QED BY <1>1, <1>2 DEF IInv

LEMMA StepInv == IInv /\ [Next]_vars => IInv'
<1> SUFFICES ASSUME IInv, [Next]_vars PROVE IInv'
  OBVIOUS
<1>1. ASSUME NEW t \in Invokers, Invoke(t) PROVE IInv'
  BY <1>1, BeginInv, InvokeProxiedInv, RecordReadsInv, RecordStoresInv
  DEF Invoke, InvokeBegins, Threads
<1>2. ASSUME NEW t \in Deleters, Delete(t) PROVE IInv'
  BY <1>2, BeginInv, ResetStatsInv, DeleteProxiedInv DEF Delete, DeleteBegins, Threads
<1>3. ASSUME NEW t \in Readers, Read(t) PROVE IInv'
  BY <1>3, BeginInv, GetCopiesInv, AnswerInv, ReadEndsInv DEF Read, ReadBegins, Threads
<1>4. ASSUME NEW f \in Functions, Deploy(f) PROVE IInv'
  BY <1>4, AsideInv DEF Deploy, IInv, Types
<1>5. CASE Wipe
  BY <1>5, AsideInv DEF Wipe, IInv, Types
<1>6. CASE UNCHANGED vars
  BY <1>6, AsideInv DEF vars, IInv, Types
<1> QED BY <1>1, <1>2, <1>3, <1>4, <1>5, <1>6 DEF Next

\* The inductive invariant of the statistics: their types, and the lock between
\* the two halves of Record.
THEOREM Invariance == Spec => []IInv
  BY InitInv, StepInv, PTL DEF Spec

\* The store's counters never drift from its list of invocations, in whatever
\* order requests record, reset and start over (functionStatsStore).
THEOREM SummaryAlwaysAgrees == Spec => []SummaryAgrees
<1>1. IInv => SummaryAgrees
  BY DEF IInv
<1> QED BY <1>1, Invariance, PTL

\* No invocation is lost and none comes back: a function's entry holds exactly
\* those that finished since its last reset (Record and Reset).
THEOREM CompletionsAlwaysCounted == Spec => []CompletionsCounted
<1>1. IInv => CompletionsCounted
  BY DEF IInv
<1> QED BY <1>1, Invariance, PTL
-----------------------------------------------------------------------------
(* The order of an answer. *)

Before(s, k) == {j \in DOMAIN s : NotAfter(s, j, k)}

Place(s, i) == CHOOSE k \in DOMAIN s : Rank(s, k) = i

LEMMA Starts ==
  ASSUME NEW s \in Seq(InvocationRecord)
  PROVE  \A i \in DOMAIN s : i \in Nat /\ s[i].startedAt \in Nat
<1>1. \A i \in DOMAIN s : i \in Nat /\ s[i] \in InvocationRecord
  OBVIOUS
<1>2. \A r \in InvocationRecord : r.startedAt \in Nat
  BY DEF InvocationRecord
<1> QED BY <1>1, <1>2

\* A later invocation has a higher rank, and a rank is a place of the list.
LEMMA RankGrows ==
  ASSUME NEW s \in Seq(InvocationRecord)
  PROVE  /\ \A k \in DOMAIN s : Rank(s, k) \in DOMAIN s
         /\ \A j, k \in DOMAIN s : NotAfter(s, j, k) /\ j # k => Rank(s, j) < Rank(s, k)
<1> DEFINE n == Len(s)
<1>1. n \in Nat /\ DOMAIN s = 1..n
  OBVIOUS
<1>2. \A i \in DOMAIN s : s[i].startedAt \in Nat
  BY Starts
<1> HIDE DEF n
<1>3. IsFiniteSet(1..n) /\ Cardinality(1..n) = n
  BY <1>1, FS_Interval
<1>4. ASSUME NEW k \in DOMAIN s
      PROVE  /\ IsFiniteSet(Before(s, k)) /\ Cardinality(Before(s, k)) \in Nat
             /\ Cardinality(Before(s, k)) <= n
             /\ k \in Before(s, k) /\ Rank(s, k) = Cardinality(Before(s, k))
  <2>1. Before(s, k) \in SUBSET (1..n)
    BY <1>1 DEF Before
  <2>2. k \in Before(s, k)
    BY <1>1, <1>2 DEF Before, NotAfter
  <2>3. Rank(s, k) = Cardinality(Before(s, k))
    BY DEF Before, Rank
  <2> QED BY <1>3, <2>1, <2>2, <2>3, FS_Subset, FS_CardinalityType
<1>5. ASSUME NEW k \in DOMAIN s
      PROVE  Rank(s, k) \in DOMAIN s
  <2>1. Cardinality(Before(s, k)) # 0
    BY <1>4, FS_EmptySet
  <2> QED BY <1>1, <1>4, <2>1
<1>6. ASSUME NEW j \in DOMAIN s, NEW k \in DOMAIN s, NotAfter(s, j, k), j # k
      PROVE  Rank(s, j) < Rank(s, k)
  <2>1. Before(s, j) \in SUBSET Before(s, k)
    <3> SUFFICES ASSUME NEW i \in DOMAIN s, NotAfter(s, i, j)
                 PROVE  NotAfter(s, i, k)
      BY DEF Before
    <3> QED BY <1>1, <1>2, <1>6 DEF NotAfter
  <2>2. k \notin Before(s, j)
    BY <1>1, <1>2, <1>6 DEF Before, NotAfter
  <2>3. /\ Cardinality(Before(s, j)) <= Cardinality(Before(s, k))
        /\ Cardinality(Before(s, j)) # Cardinality(Before(s, k))
    BY <1>4, <2>1, <2>2, FS_Subset
  <2> QED BY <1>4, <2>3
<1> QED BY <1>5, <1>6

\* Each place is the rank of exactly one invocation.
LEMMA PlacesFilled ==
  ASSUME NEW s \in Seq(InvocationRecord)
  PROVE  /\ \A i \in DOMAIN s : Place(s, i) \in DOMAIN s /\ Rank(s, Place(s, i)) = i
         /\ \A k \in DOMAIN s : Rank(s, k) \in DOMAIN s /\ Place(s, Rank(s, k)) = k
<1> DEFINE rank == [k \in DOMAIN s |-> Rank(s, k)]
<1>1. DOMAIN s = 1..Len(s) /\ Len(s) \in Nat /\ IsFiniteSet(DOMAIN s)
  BY FS_Interval
<1>2. \A i \in DOMAIN s : s[i].startedAt \in Nat
  BY Starts
<1>3. \A k \in DOMAIN s : Rank(s, k) \in DOMAIN s
  BY RankGrows
<1>4. ASSUME NEW j \in DOMAIN s, NEW k \in DOMAIN s, Rank(s, j) = Rank(s, k)
      PROVE  j = k
  <2>1. NotAfter(s, j, k) \/ NotAfter(s, k, j)
    BY <1>1, <1>2 DEF NotAfter
  <2>2. Rank(s, j) \in Nat /\ Rank(s, k) \in Nat
    BY <1>1, <1>3
  <2> QED BY <1>4, <2>1, <2>2, RankGrows
<1>5. rank \in Injection(DOMAIN s, DOMAIN s)
  BY <1>3, <1>4 DEF Injection, IsInjective
<1>6. rank \in Surjection(DOMAIN s, DOMAIN s)
  BY <1>1, <1>5, FS_Injection
<1>7. \A i \in DOMAIN s : \E k \in DOMAIN s : Rank(s, k) = i
  BY <1>6 DEF Surjection
<1>8. ASSUME NEW i \in DOMAIN s
      PROVE  Place(s, i) \in DOMAIN s /\ Rank(s, Place(s, i)) = i
  BY <1>7 DEF Place
<1> QED BY <1>3, <1>4, <1>8

\* Sorting moves the invocations that pass a test and makes or loses none.
LEMMA SortedCounts ==
  ASSUME NEW s \in Seq(InvocationRecord), NEW G \in SUBSET DOMAIN s
  PROVE  Cardinality({i \in DOMAIN s : Place(s, i) \in G}) = Cardinality(G)
<1> DEFINE moved == {i \in DOMAIN s : Place(s, i) \in G}
           place == [i \in moved |-> Place(s, i)]
<1>1. IsFiniteSet(moved)
  <2>1. IsFiniteSet(DOMAIN s)
    <3>1. DOMAIN s = 1..Len(s) /\ Len(s) \in Nat
      OBVIOUS
    <3> QED BY <3>1, FS_Interval
  <2>2. moved \in SUBSET DOMAIN s
    OBVIOUS
  <2> QED BY <2>1, <2>2, FS_Subset
<1>2. place \in Injection(moved, G)
  <2>1. place \in [moved -> G]
    OBVIOUS
  <2>2. ASSUME NEW i \in moved, NEW j \in moved, place[i] = place[j]
        PROVE  i = j
    BY <2>2, PlacesFilled
  <2> QED BY <2>1, <2>2 DEF Injection, IsInjective
<1>3. place \in Surjection(moved, G)
  <2>1. \A k \in G : Rank(s, k) \in moved /\ place[Rank(s, k)] = k
    BY PlacesFilled
  <2> QED BY <2>1 DEF Surjection
<1>4. ExistsBijection(moved, G)
  BY <1>2, <1>3 DEF ExistsBijection, Bijection
<1> HIDE DEF moved, place
<1> QED BY <1>1, <1>4, FS_Bijection DEF moved

LEMMA InOrderIs ==
  ASSUME NEW s \in Seq(InvocationRecord)
  PROVE  /\ DOMAIN InOrder(s) = DOMAIN s
         /\ \A i \in DOMAIN s : InOrder(s)[i] = s[Place(s, i)]
  BY DEF InOrder, Place

LEMMA InOrderSorted ==
  ASSUME NEW s \in Seq(InvocationRecord), NEW i \in DOMAIN s, NEW j \in DOMAIN s, i < j
  PROVE  InOrder(s)[i].startedAt <= InOrder(s)[j].startedAt
<1> DEFINE p == Place(s, i)
           q == Place(s, j)
<1>1. p \in DOMAIN s /\ q \in DOMAIN s /\ Rank(s, p) = i /\ Rank(s, q) = j /\ p # q
  BY PlacesFilled
<1>2. InOrder(s)[i] = s[p] /\ InOrder(s)[j] = s[q]
  BY InOrderIs
<1>3. s[p].startedAt \in Nat /\ s[q].startedAt \in Nat /\ i \in Nat /\ j \in Nat
      /\ p \in Nat /\ q \in Nat
  BY <1>1, Starts
<1> HIDE DEF p, q
<1>4. ~NotAfter(s, q, p)
  BY <1>1, <1>3, RankGrows
<1> QED BY <1>2, <1>3, <1>4 DEF NotAfter

\* Sorting keeps the summary in agreement with the list.
LEMMA SortedAgrees ==
  ASSUME NEW e \in FunctionStats, Agrees(e)
  PROVE  LET sorted == [e EXCEPT !.invocations = InOrder(@)]
         IN  Agrees(sorted) /\ sorted.invocations = InOrder(e.invocations)
<1> DEFINE s == e.invocations
           o == InOrder(s)
           sorted == [e EXCEPT !.invocations = InOrder(@)]
<1>1. /\ s \in Seq(InvocationRecord)
      /\ sorted.invocations = o /\ sorted.ok = e.ok /\ sorted.failed = e.failed
      /\ sorted.codes = e.codes
  BY DEF FunctionStats
<1> HIDE DEF sorted
<1>2. /\ DOMAIN o = DOMAIN s
      /\ \A i \in DOMAIN s : Place(s, i) \in DOMAIN s /\ o[i] = s[Place(s, i)]
  BY <1>1, InOrderIs, PlacesFilled
<1> HIDE DEF o
<1>3. /\ e.ok = Cardinality(Successes(s)) /\ e.failed = Cardinality(Failures(s))
      /\ \A c \in DOMAIN e.codes : e.codes[c] = Cardinality(WithStatus(s, c))
  BY AgreesMeans
<1> HIDE DEF s
<1>4. Cardinality(Successes(o)) = Cardinality(Successes(s))
  <2>1. Successes(o) = {i \in DOMAIN s : Place(s, i) \in Successes(s)}
    BY <1>2 DEF Successes
  <2>2. Successes(s) \in SUBSET DOMAIN s
    BY DEF Successes
  <2> QED BY <1>1, <2>1, <2>2, SortedCounts
<1>5. Cardinality(Failures(o)) = Cardinality(Failures(s))
  <2>1. Failures(o) = {i \in DOMAIN s : Place(s, i) \in Failures(s)}
    BY <1>2 DEF Failures
  <2>2. Failures(s) \in SUBSET DOMAIN s
    BY DEF Failures
  <2> QED BY <1>1, <2>1, <2>2, SortedCounts
<1>6. ASSUME NEW c
      PROVE  Cardinality(WithStatus(o, c)) = Cardinality(WithStatus(s, c))
  <2>1. WithStatus(o, c) = {i \in DOMAIN s : Place(s, i) \in WithStatus(s, c)}
    BY <1>2 DEF WithStatus
  <2>2. WithStatus(s, c) \in SUBSET DOMAIN s
    BY DEF WithStatus
  <2> QED BY <1>1, <2>1, <2>2, SortedCounts
<1>7. Agrees(sorted)
  BY <1>1, <1>3, <1>4, <1>5, <1>6, AgreesMeans
<1> QED BY <1>1, <1>7 DEF sorted, o, s

-----------------------------------------------------------------------------
(* What a reader holds, and what it answers. *)

Consistent(reply) ==
  /\ Agrees(reply)
  /\ \A i, j \in DOMAIN reply.invocations :
       i < j => reply.invocations[i].startedAt <= reply.invocations[j].startedAt

Reading(l) ==
  /\ l.pc = "exists" => l.copy = None \/ (l.copy \in FunctionStats /\ Agrees(l.copy))
  /\ l.pc = "answered" /\ l.status = 200 => Consistent(l.copy)

ReadersHold == \A t \in Threads : Reading(thread[t])

\* A step of one goroutine, whose new local variables are a reader's.
LEMMA ReadersMove ==
  ASSUME Types, ReadersHold, NEW t \in Threads, NEW l, Goto(t, l), Reading(l)
  PROVE  ReadersHold'
  BY DEF Types, ReadersHold, Goto

LEMMA ReplyIsConsistent ==
  ASSUME NEW t \in Threads, At(t, "exists"), Reading(thread[t])
  PROVE  Consistent(Reply(t))
<1> DEFINE e == IF Held(t) = None THEN Empty ELSE Held(t)
           s == e.invocations
<1>1. e \in FunctionStats /\ Agrees(e)
  BY EmptyAgrees DEF Reading, At, Held
<1>2. Reply(t) = [e EXCEPT !.invocations = InOrder(@)]
  BY DEF Reply
<1> HIDE DEF e
<1>3. s \in Seq(InvocationRecord)
  BY <1>1 DEF FunctionStats
<1>4. Agrees(Reply(t)) /\ Reply(t).invocations = InOrder(s)
  BY <1>1, <1>2, SortedAgrees
<1>5. \A i, j \in DOMAIN InOrder(s) :
        i < j => InOrder(s)[i].startedAt <= InOrder(s)[j].startedAt
  BY <1>3, InOrderIs, InOrderSorted
<1> QED BY <1>4, <1>5 DEF Consistent

LEMMA ReadersStart == Init => ReadersHold
  BY DEF Init, ReadersHold, Reading, Idle

LEMMA ReadersStep == IInv /\ ReadersHold /\ [Next]_vars => ReadersHold'
<1> SUFFICES ASSUME IInv, ReadersHold, [Next]_vars PROVE ReadersHold'
  OBVIOUS
<1>1. Types /\ SummaryAgrees
  BY DEF IInv
<1>2. \A t \in Threads : "pc" \in DOMAIN thread[t] /\ "copy" \in DOMAIN thread[t]
                         /\ "status" \in DOMAIN thread[t]
  BY <1>1 DEF Types, Local
<1>3. Reading(Idle)
  BY DEF Reading, Idle
<1>4. ASSUME NEW t \in Threads, NEW f, NEW label \in {"proxy", "reset", "get"},
             Begin(t, f, label)
      PROVE  ReadersHold'
  <2> DEFINE l == [thread[t] EXCEPT !.pc = label, !.fn = f, !.startedAt = now + 1]
  <2>1. Goto(t, l) /\ Reading(l)
    BY <1>2, <1>4 DEF Begin, Reading
  <2> QED BY <1>1, <2>1, ReadersMove
<1>5. ASSUME NEW t \in Threads, InvokeProxied(t) PROVE ReadersHold'
  <2>1. PICK status : Goto(t, [thread[t] EXCEPT !.pc = "record", !.status = status])
    BY <1>5 DEF InvokeProxied
  <2> DEFINE l == [thread[t] EXCEPT !.pc = "record", !.status = status]
  <2>2. Reading(l)
    BY <1>2 DEF Reading
  <2> QED BY <1>1, <2>1, <2>2, ReadersMove
<1>6. ASSUME NEW t \in Threads, RecordReads(t) PROVE ReadersHold'
  <2> DEFINE l == [thread[t] EXCEPT !.pc = "store", !.copy = Entry(thread[t].fn)]
  <2>1. Goto(t, l) /\ Reading(l)
    BY <1>2, <1>6 DEF RecordReads, Reading
  <2> QED BY <1>1, <2>1, ReadersMove
<1>7. ASSUME NEW t \in Threads, RecordStores(t) \/ DeleteProxied(t) \/ ReadEnds(t)
      PROVE  ReadersHold'
  BY <1>1, <1>3, <1>7, ReadersMove DEF RecordStores, DeleteProxied, ReadEnds
<1>8. ASSUME NEW t \in Threads, ResetStats(t) PROVE ReadersHold'
  <2> DEFINE l == [thread[t] EXCEPT !.pc = "proxy"]
  <2>1. Goto(t, l) /\ Reading(l)
    BY <1>2, <1>8 DEF ResetStats, Reading
  <2> QED BY <1>1, <2>1, ReadersMove
<1>9. ASSUME NEW t \in Threads, GetCopies(t) PROVE ReadersHold'
  <2> DEFINE l == [thread[t] EXCEPT !.pc = "exists", !.copy = stats[thread[t].fn]]
  <2>1. Goto(t, l) /\ thread[t].fn \in Functions
    BY <1>1, <1>9 DEF GetCopies, Types, Local, At
  <2>2. l.pc = "exists" /\ l.copy = stats[thread[t].fn]
    BY <1>2
  <2>3. Reading(l)
    BY <1>1, <2>1, <2>2 DEF Reading, Types, SummaryAgrees
  <2> QED BY <1>1, <2>1, <2>3, ReadersMove
<1>10. ASSUME NEW t \in Threads, Answer(t) PROVE ReadersHold'
  <2>1. PICK status :
          Goto(t, [thread[t] EXCEPT !.pc = "answered", !.status = status,
                                    !.copy = IF status = 200 THEN Reply(t) ELSE None])
    BY <1>10 DEF Answer
  <2> DEFINE l == [thread[t] EXCEPT !.pc = "answered", !.status = status,
                                    !.copy = IF status = 200 THEN Reply(t) ELSE None]
  <2>2. Consistent(Reply(t))
    BY <1>10, ReplyIsConsistent DEF Answer, ReadersHold
  <2>3. l.pc = "answered" /\ (l.status = 200 => l.copy = Reply(t))
    BY <1>2
  <2>4. Reading(l)
    BY <2>2, <2>3 DEF Reading
  <2> QED BY <1>1, <2>1, <2>4, ReadersMove
<1>11. ASSUME UNCHANGED thread PROVE ReadersHold'
  BY <1>11 DEF ReadersHold
<1>12. ASSUME NEW t \in Invokers, Invoke(t) PROVE ReadersHold'
  BY <1>4, <1>5, <1>6, <1>7, <1>12 DEF Invoke, InvokeBegins, Threads
<1>13. ASSUME NEW t \in Deleters, Delete(t) PROVE ReadersHold'
  BY <1>4, <1>7, <1>8, <1>13 DEF Delete, DeleteBegins, Threads
<1>14. ASSUME NEW t \in Readers, Read(t) PROVE ReadersHold'
  BY <1>4, <1>7, <1>9, <1>10, <1>14 DEF Read, ReadBegins, Threads
<1>15. ASSUME (\E f \in Functions : Deploy(f)) \/ Wipe \/ UNCHANGED vars
       PROVE  ReadersHold'
  BY <1>11, <1>15 DEF Deploy, Wipe, vars
<1> QED BY <1>12, <1>13, <1>14, <1>15 DEF Next

\* An answer is one moment of the store, in order of start: its summary is that of
\* its own list, and the list is sorted, though other goroutines record between the
\* copy and the answer (HandleFunctionStats, Get).
THEOREM ReplyAlwaysConsistent == Spec => []ReplyConsistent
<1>1. ReadersHold => ReplyConsistent
  BY DEF ReadersHold, Reading, Consistent, ReplyConsistent, At, Threads
<1> QED BY <1>1, Invariance, ReadersStart, ReadersStep, PTL DEF Spec
=============================================================================
