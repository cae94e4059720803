----------------------------- MODULE MCPrewarm ------------------------------
(* Prewarm on a small instance; the .cfg file gives the other constants. *)
EXTENDS Prewarm, TLC

CONSTANTS f1, f2

Prediction(f, kind, leadTime, coldStart, callerColdStart) ==
  [fn |-> f, kind |-> kind, leadTime |-> leadTime,
   coldStart |-> coldStart, callerColdStart |-> callerColdStart]

\* f1 calls itself and f2, so cold starts and prewarms of f1 meet.
\* f1 is needed too soon to be scheduled after its caller started, f2 early
\* enough when there are no statistics of it; in an eager pass f1 is warmed at
\* once and f2 by a timer.
Predictions ==
  {Prediction(f1, "sync", 1, 3, 1), Prediction(f2, "unknown", 3, 3, 2)}

Names == {f1, f2}

EntryNames == {f1}

CalleeNames == {f2}
=============================================================================
