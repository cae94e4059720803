---------------------------- MODULE GatewayStats ----------------------------
(***************************************************************************)
(* The gateway (pkg/gateway): it forwards every request to the server and  *)
(* keeps, per function, the invocations that went through it.  Each request *)
(* is a goroutine of its own; the statistics are behind one RWMutex.        *)
(*                                                                         *)
(* The server is external here: `deployed` is the set of functions whose   *)
(* GET /function/<name> it answers with 200.                               *)
(***************************************************************************)
EXTENDS Integers, SequencesExt

CONSTANTS
  Functions,    \* function names
  Invokers,     \* goroutines of HandleFunctionInvoke
  Deleters,     \* goroutines that forward POST /system/delete
  Readers,      \* goroutines of HandleFunctionStats
  Statuses,     \* status codes a function may answer with
  MaxRequests,  \* bound: requests that start in one behaviour
  None

ASSUME StatusesAssumption == Statuses \subseteq 100..599
ASSUME MaxRequestsAssumption == MaxRequests \in Nat

Threads == Invokers \cup Deleters \cup Readers

VARIABLES
  stats,      \* functionStatsStore.stats: None where the map has no entry
  mu,         \* the goroutine that holds the store's mutex for writing
  deployed,   \* the server's functions (external)
  thread,     \* each goroutine's local variables
  now,        \* time.Now(): one tick per request, for the order of starts
  finished    \* history: invocations of a function since its last reset

vars == <<stats, mu, deployed, thread, now, finished>>

NotFound == 404
BadGateway == 502

Codes == Statuses \cup {NotFound, BadGateway}

NoCodes == [c \in Codes |-> 0]

InvocationRecord == [startedAt : Nat, status : Codes, success : BOOLEAN]

FunctionStats ==
  [invocations : Seq(InvocationRecord), ok : Nat, failed : Nat, codes : [Codes -> Nat]]

ASSUME NoneAssumption == None \notin Threads \cup FunctionStats

\* functionStats, and what Record starts from when the map has no entry.
Empty == [invocations |-> <<>>, ok |-> 0, failed |-> 0, codes |-> NoCodes]

Idle == [pc |-> "idle", fn |-> None, startedAt |-> 0, status |-> 0, copy |-> None]

Init ==
  /\ stats = [f \in Functions |-> None] /\ mu = None
  /\ deployed = {}
  /\ thread = [t \in Threads |-> Idle]
  /\ now = 0
  /\ finished = [f \in Functions |-> 0]

-----------------------------------------------------------------------------
Goto(t, updated) == thread' = [thread EXCEPT ![t] = updated]

At(t, label) == thread[t].pc = label

\* A request arrives; startedAt is taken before it is forwarded.
Begin(t, f, label) ==
  /\ At(t, "idle") /\ now < MaxRequests
  /\ now' = now + 1
  /\ Goto(t, [thread[t] EXCEPT !.pc = label, !.fn = f, !.startedAt = now + 1])
  /\ UNCHANGED <<stats, mu, deployed, finished>>

\* The server deploys or wipes functions; neither touches the statistics.
Deploy(f) ==
  /\ f \notin deployed /\ now < MaxRequests
  /\ deployed' = deployed \cup {f} /\ now' = now + 1
  /\ UNCHANGED <<stats, mu, thread, finished>>

Wipe ==
  /\ deployed # {} /\ deployed' = {}
  /\ UNCHANGED <<stats, mu, thread, now, finished>>

-----------------------------------------------------------------------------
(* /fn/<name>: recordInvocationStats around proxyRequest. *)

InvokeBegins(t, f) == Begin(t, f, "proxy")

\* A function that is not deployed is answered 404 (one that is may be, too), a
\* server that cannot be reached 502; the response writer keeps the code.
InvokeProxied(t) ==
  /\ At(t, "proxy")
  /\ \E status \in {BadGateway, NotFound}
          \cup IF thread[t].fn \in deployed THEN Statuses ELSE {} :
       Goto(t, [thread[t] EXCEPT !.pc = "record", !.status = status])
  /\ UNCHANGED <<stats, mu, deployed, now, finished>>

Entry(f) == IF stats[f] = None THEN Empty ELSE stats[f]

Unlocked == TRUE
\* Lock and RLock: no other goroutine is inside Record.
StoreFree == mu = None

\* Record: s.mu.Lock; stats := s.stats[name].
RecordReads(t) ==
  /\ At(t, "record") /\ StoreFree
  /\ mu' = t
  /\ Goto(t, [thread[t] EXCEPT !.pc = "store", !.copy = Entry(thread[t].fn)])
  /\ UNCHANGED <<stats, deployed, now, finished>>

Success(status) == status >= 200 /\ status < 400

OnlySuccesses(s, r) ==
  [invocations |-> Append(s.invocations, r),
   ok          |-> s.ok + (IF r.success THEN 1 ELSE 0),
   failed      |-> s.failed,
   codes       |-> [s.codes EXCEPT ![r.status] = @ + 1]]

Recorded(s, r) ==
  [invocations |-> Append(s.invocations, r),
   ok          |-> s.ok + (IF r.success THEN 1 ELSE 0),
   failed      |-> s.failed + (IF r.success THEN 0 ELSE 1),
   codes       |-> [s.codes EXCEPT ![r.status] = @ + 1]]

\* Record: s.stats[name] = stats; s.mu.Unlock.
RecordStores(t) ==
  /\ At(t, "store")
  /\ LET f == thread[t].fn
         r == [startedAt |-> thread[t].startedAt, status |-> thread[t].status,
               success |-> Success(thread[t].status)]
     IN  /\ stats' = [stats EXCEPT ![f] = Recorded(thread[t].copy, r)]
         /\ finished' = [finished EXCEPT ![f] = @ + 1]
  /\ mu' = None
  /\ Goto(t, Idle)
  /\ UNCHANGED <<deployed, now>>

-----------------------------------------------------------------------------
(* POST /system/delete: the statistics go first, then the server is asked. *)

DeleteBegins(t, f) == Begin(t, f, "reset")

\* A body that the gateway cannot decode is forwarded without a reset; the server
\* may still decode it, which reads no further than the first JSON value.
ResetStats(t) ==
  /\ At(t, "reset")
  /\ \/ /\ StoreFree
        /\ stats' = [stats EXCEPT ![thread[t].fn] = None]
        /\ finished' = [finished EXCEPT ![thread[t].fn] = 0]
     \/ UNCHANGED <<stats, finished>>
  /\ Goto(t, [thread[t] EXCEPT !.pc = "proxy"])
  /\ UNCHANGED <<mu, deployed, now>>

\* The server deletes the function, has none of that name, or fails.
DeleteProxied(t) ==
  /\ At(t, "proxy")
  /\ deployed' \in {deployed, deployed \ {thread[t].fn}}
  /\ Goto(t, Idle)
  /\ UNCHANGED <<stats, mu, now, finished>>

-----------------------------------------------------------------------------
(* GET /system/stats/function/<name>: a copy of the entry, then the question *)
(* whether the server knows the function, then the answer.                   *)

ReadBegins(t, f) == Begin(t, f, "get")

GetCopies(t) ==
  /\ At(t, "get") /\ StoreFree
  /\ Goto(t, [thread[t] EXCEPT !.pc = "exists", !.copy = stats[thread[t].fn]])
  /\ UNCHANGED <<stats, mu, deployed, now, finished>>

\* What the goroutine still holds of Get when it answers.
SharesCodes(t) ==
  LET c == thread[t].copy
      live == stats[thread[t].fn]
  IN  IF c = None \/ live = None THEN c ELSE [c EXCEPT !.codes = live.codes]
Held(t) == thread[t].copy

NotAfter(s, i, j) ==
  \/ s[i].startedAt < s[j].startedAt
  \/ s[i].startedAt = s[j].startedAt /\ i <= j

\* Where sort.Slice puts the invocation at place k: at its place in order of start.
Rank(s, k) == Cardinality({j \in DOMAIN s : NotAfter(s, j, k)})

InOrder(s) == [i \in DOMAIN s |-> s[CHOOSE k \in DOMAIN s : Rank(s, k) = i]]

\* The body of a 200 answer; a function without an entry has an empty one.
Reply(t) == [(IF Held(t) = None THEN Empty ELSE Held(t)) EXCEPT !.invocations = InOrder(@)]

Answer(t) ==
  /\ At(t, "exists")
  /\ \E status \in {200, NotFound, BadGateway} :
       /\ status = NotFound => thread[t].copy = None /\ thread[t].fn \notin deployed
       /\ status = 200 => thread[t].copy # None \/ thread[t].fn \in deployed
       /\ Goto(t, [thread[t] EXCEPT !.pc = "answered", !.status = status,
                                    !.copy = IF status = 200 THEN Reply(t) ELSE None])
  /\ UNCHANGED <<stats, mu, deployed, now, finished>>

\* The client has the answer.
ReadEnds(t) ==
  /\ At(t, "answered") /\ Goto(t, Idle)
  /\ UNCHANGED <<stats, mu, deployed, now, finished>>

-----------------------------------------------------------------------------
Invoke(t) ==
  \/ \E f \in Functions : InvokeBegins(t, f)
  \/ InvokeProxied(t) \/ RecordReads(t) \/ RecordStores(t)

Delete(t) ==
  \/ \E f \in Functions : DeleteBegins(t, f)
  \/ ResetStats(t) \/ DeleteProxied(t)

Read(t) ==
  \/ \E f \in Functions : ReadBegins(t, f)
  \/ GetCopies(t) \/ Answer(t) \/ ReadEnds(t)

Next ==
  \/ \E t \in Invokers : Invoke(t)
  \/ \E t \in Deleters : Delete(t)
  \/ \E t \in Readers : Read(t)
  \/ \E f \in Functions : Deploy(f)
  \/ Wipe

Spec == Init /\ [][Next]_vars

-----------------------------------------------------------------------------
Count(s, Test(_)) == Cardinality({i \in DOMAIN s : Test(s[i])})

\* The summary is the summary of the invocations next to it.
Agrees(s) ==
  /\ s.ok = Count(s.invocations, LAMBDA r : r.success)
  /\ s.failed = Count(s.invocations, LAMBDA r : ~r.success)
  /\ \A c \in DOMAIN s.codes : s.codes[c] = Count(s.invocations, LAMBDA r : r.status = c)

\* The store's counters never drift from its list, in whatever order requests
\* record, reset and start over.
SummaryAgrees == \A f \in Functions : stats[f] # None => Agrees(stats[f])

\* No invocation is lost and none comes back: a function's entry holds exactly
\* those that finished since its last reset, though Record reads the entry, and
\* writes it back, in two steps.
CompletionsCounted ==
  \A f \in Functions : finished[f] = IF stats[f] = None THEN 0 ELSE Len(stats[f].invocations)

\* An answer is one moment of the store, in order of start, though other
\* goroutines record between the copy and the answer.
ReplyConsistent ==
  \A t \in Readers :
    At(t, "answered") /\ thread[t].status = 200 =>
      LET reply == thread[t].copy
      IN  /\ Agrees(reply)
          /\ \A i, j \in DOMAIN reply.invocations :
               i < j => reply.invocations[i].startedAt <= reply.invocations[j].startedAt
=============================================================================
