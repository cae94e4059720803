------------------------------ MODULE Shutdown ------------------------------
(***************************************************************************)
(* The server's way from SIGTERM to exit (cmd/server/main.go), around the  *)
(* requests of module Server: the HTTP server stops accepting requests and *)
(* waits up to 30 seconds for those it has, the autoscaler's idle check is *)
(* stopped, and every function listed then is deleted.                     *)
(*                                                                         *)
(* The HTTP server waits only for requests with a client.  Asynchronous    *)
(* invocations and prewarm goroutines go on until the process exits.       *)
(***************************************************************************)
EXTENDS Server

CONSTANTS
  Main,     \* the main goroutine, which deletes what is listed at the end
  Async     \* the callers that serve asynchronous invocations

VARIABLES
  phase,    \* "serving", "draining", "stopping", "wiping" or "exited"
  drained   \* HTTP requests had all ended when the shutdown went on

process == <<phase, drained>>

ASSUME ProcessAssumption == Main \in Deleters /\ Async \subseteq Callers

\* The goroutines that Shutdown waits for.
Http == Deployers \cup (Deleters \ {Main}) \cup (Callers \ Async)

ShutdownInit ==
  /\ Init
  /\ phase = "serving" /\ drained = FALSE
-----------------------------------------------------------------------------
Running == phase # "exited"

\* New requests, while they are accepted.
Accept ==
  /\ phase = "serving"
  /\ \/ \E f \in Functions :
          \/ \E t \in Deployers : DeployLookup(t, f)
          \/ \E t \in Callers : CallSnapshot(t, f)
     \/ \E t \in Deleters \ {Main} : DeleteRequest(t)
  /\ UNCHANGED process

\* The goroutine of a call answered 202 may begin at any time after.
AcceptedBefore ==
  /\ Running
  /\ \E f \in Functions, t \in Async : CallSnapshot(t, f)
  /\ UNCHANGED process

IdleCheck ==
  /\ phase \in {"serving", "draining"}
  /\ \E f \in Functions, t \in Scalers : IdleScaleDown(t, f)
  /\ UNCHANGED process

PrewarmBegins ==
  /\ Running
  /\ \E f \in Functions, t \in Scalers : Prewarm(t, f)
  /\ UNCHANGED process

\* Whatever was begun goes on until the process ends.
GoOn(t) ==
  /\ Running
  /\ OwnStep(t) \/ (t \in Callers /\ CallFinish(t))
  /\ UNCHANGED process
-----------------------------------------------------------------------------
(* The main goroutine. *)

\* SIGTERM or SIGINT; later signals are not looked at.
Signal ==
  /\ phase = "serving"
  /\ phase' = "draining"
  /\ UNCHANGED <<vars, drained>>

ForgetsToWait ==
  /\ phase = "draining"
  /\ phase' = "stopping" /\ drained' = TRUE
  /\ UNCHANGED vars

Drain ==
  /\ phase = "draining" /\ \A t \in Http : At(t, "idle")
  /\ phase' = "stopping" /\ drained' = TRUE
  /\ UNCHANGED vars

NoDeadline == Drain

\* httpServer.Shutdown gives up after 30 seconds; its error is logged.
DrainTimesOut ==
  /\ phase = "draining"
  /\ phase' = "stopping"
  /\ UNCHANGED <<vars, drained>>

\* Server.Stop is Wipe, then a Backend.Stop that does nothing.
Wipe ==
  LET names == {f \in Functions : functionHandlers[f] # None}
  IN  /\ phase = "stopping" /\ MuxFree
      /\ IF names = {}
           THEN phase' = "exited" /\ UNCHANGED <<pc, local>>
           ELSE phase' = "wiping" /\ Goto(Main, "deleteLock", [Reset EXCEPT !.todo = names])
      /\ UNCHANGED <<functionHandlers, tables, autoscaler, runtime, mux, drained>>

Exit ==
  /\ phase = "wiping" /\ At(Main, "idle")
  /\ phase' = "exited"
  /\ UNCHANGED <<vars, drained>>
-----------------------------------------------------------------------------
ShutdownNext ==
  \/ Accept \/ AcceptedBefore \/ IdleCheck \/ PrewarmBegins
  \/ \E t \in Threads : GoOn(t)
  \/ Signal \/ Drain \/ DrainTimesOut \/ Wipe \/ Exit

ShutdownVars == <<vars, process>>

ShutdownSpec == ShutdownInit /\ [][ShutdownNext]_ShutdownVars

\* As in Server; the 30 seconds pass, and nobody owes a signal.
FairShutdown ==
  /\ ShutdownSpec
  /\ \A t \in Threads :
       /\ WF_ShutdownVars(Running /\ OwnStep(t) /\ UNCHANGED process)
       /\ SF_ShutdownVars(Running /\ LockStep(t) /\ UNCHANGED process)
  /\ WF_ShutdownVars(DrainTimesOut \/ Exit)
  /\ SF_ShutdownVars(Wipe)
-----------------------------------------------------------------------------
\* A shutdown that waited for its requests leaves no container running and no
\* image behind, although asynchronous invocations and prewarm goroutines start
\* containers until the very end: what they start is listed, or has lost its
\* image ("shutdown complete", main.go:234).
ExitCleansUp ==
  phase = "exited" /\ drained =>
    \A h \in Handlers : handler[h].phase # "up" /\ ~handler[h].image

\* Once signalled the process exits: neither a container that never answers nor
\* a goroutine that holds mux keeps it.
ShutdownEnds == phase = "draining" ~> phase = "exited"
=============================================================================
