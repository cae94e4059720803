----------------------------- MODULE MCDispatch -----------------------------
(* Dispatch on a small instance; the .cfg file gives the constants. *)
EXTENDS Dispatch, TLC
=============================================================================
