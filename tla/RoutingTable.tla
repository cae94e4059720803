---------------------------- MODULE RoutingTable ----------------------------
(***************************************************************************)
(* The server's routing table and its reverse (pkg/server/server.go:196).  *)
(* Every operation holds routingTableMux, so each is one step.             *)
(***************************************************************************)
EXTENDS Naturals, FiniteSets

CONSTANTS
  Functions,   \* function names
  IPs,         \* container addresses Docker hands out
  None

VARIABLES
  routingTable,         \* function -> Route, for the functions that have one
  reverseRoutingTable   \* address -> the function it is attributed to, or None

Route(ips, isActive) == [ips |-> ips, isActive |-> isActive]

Routes == [ips : SUBSET IPs, isActive : BOOLEAN]

HasRoute(f) == f \in DOMAIN routingTable

Init ==
  /\ routingTable = [f \in {} |-> Route({}, FALSE)]
  /\ reverseRoutingTable = [ip \in IPs |-> None]

TypeOK ==
  /\ DOMAIN routingTable \subseteq Functions
  /\ routingTable \in [DOMAIN routingTable -> Routes]
  /\ reverseRoutingTable \in [IPs -> Functions \cup {None}]

SetRoute(f, route) ==
  routingTable' = [g \in DOMAIN routingTable \cup {f} |->
                     IF g = f THEN route ELSE routingTable[g]]

\* Addresses in ips are attributed to owner; whose they were is not looked at.
Attribute(ips, owner) ==
  [ip \in IPs |-> IF ip \in ips THEN owner ELSE reverseRoutingTable[ip]]

AcceptsEmpty(ips) == TRUE

\* Add refuses an empty list; otherwise it replaces the entry, and leaves the
\* replaced entry's addresses in the reverse table.
AddAccepts(ips) == ips # {}

Add(f, ips) ==
  IF AddAccepts(ips)
    THEN /\ SetRoute(f, Route(ips, TRUE))
         /\ reverseRoutingTable' = Attribute(ips, f)
    ELSE UNCHANGED <<routingTable, reverseRoutingTable>>

\* Del: a missing entry is an error that changes nothing.
Del(f) ==
  IF HasRoute(f)
    THEN /\ routingTable' = [g \in DOMAIN routingTable \ {f} |-> routingTable[g]]
         /\ reverseRoutingTable' = Attribute(routingTable[f].ips, None)
    ELSE UNCHANGED <<routingTable, reverseRoutingTable>>

UpdateKeepsReverse(f) ==
  /\ IF HasRoute(f) THEN SetRoute(f, Route({}, FALSE)) ELSE UNCHANGED routingTable
  /\ UNCHANGED reverseRoutingTable

\* Update deactivates the entry; a missing entry is no error.
Update(f) ==
  IF HasRoute(f)
    THEN /\ SetRoute(f, Route({}, FALSE))
         /\ reverseRoutingTable' = Attribute(routingTable[f].ips, None)
    ELSE UNCHANGED <<routingTable, reverseRoutingTable>>
=============================================================================
