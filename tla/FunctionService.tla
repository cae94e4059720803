--------------------------- MODULE FunctionService ---------------------------
(***************************************************************************)
(* What clients may rely on while every function is deployed once: nothing *)
(* of handlers, routes, locks or scaling operations, only whether there is *)
(* a function of a name that runs, and which requests are in flight to it. *)
(* Server is shown to implement it.                                        *)
(*                                                                         *)
(* A function is                                                           *)
(*   "absent"  - not deployed yet                                          *)
(*   "up"      - listed, its containers run                                *)
(*   "down"    - listed, to be started by the next request                 *)
(*   "leaving" - being deleted                                             *)
(*   "gone"    - deleted, or its deployment failed                         *)
(***************************************************************************)
CONSTANTS Functions, Callers, None

VARIABLES
  life,      \* function -> one of the five
  request    \* caller -> the function that serves its request, or None

InFlight(f) == {c \in Callers : request[c] = f}

Init ==
  /\ life = [f \in Functions |-> "absent"]
  /\ request = [c \in Callers |-> None]

Becomes(f, from, to) ==
  /\ life[f] \in from
  /\ life' = [life EXCEPT ![f] = to]
  /\ UNCHANGED request

Deploy(f) == Becomes(f, {"absent"}, "up")

GiveUp(f) == Becomes(f, {"absent"}, "gone")

\* Scaling is invisible to requests: it waits until none is in flight.
ScaleDown(f) == InFlight(f) = {} /\ Becomes(f, {"up"}, "down")

ScaleUp(f) == Becomes(f, {"down"}, "up")

\* A delete waits for nobody.
Delete(f) == Becomes(f, {"up", "down"}, "leaving")

Remove(f) == Becomes(f, {"leaving"}, "gone")

\* A function that is down has to be started first.  A request admitted before
\* a delete may begin under or after it.
Begin(c, f) ==
  /\ request[c] = None /\ life[f] \in {"up", "leaving", "gone"}
  /\ request' = [request EXCEPT ![c] = f]
  /\ UNCHANGED life

End(c) ==
  /\ request[c] # None
  /\ request' = [request EXCEPT ![c] = None]
  /\ UNCHANGED life

Next ==
  \/ \E f \in Functions :
       \/ Deploy(f) \/ GiveUp(f) \/ ScaleDown(f) \/ ScaleUp(f) \/ Delete(f) \/ Remove(f)
       \/ \E c \in Callers : Begin(c, f)
  \/ \E c \in Callers : End(c)

Spec == Init /\ [][Next]_<<life, request>>
=============================================================================
