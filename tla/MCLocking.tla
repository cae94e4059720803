----------------------------- MODULE MCLocking -----------------------------
(* Locking on a small instance; the .cfg file gives the constants. *)
EXTENDS Locking, TLC
=============================================================================
