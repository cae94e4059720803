----------------------------- MODULE MCShutdown -----------------------------
(* Shutdown on a small instance; the .cfg file gives the constants. *)
EXTENDS Shutdown, TLC
=============================================================================
