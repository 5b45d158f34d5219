----------------------------- MODULE MCBlocking -----------------------------
(***************************************************************************)
(* Instances of Blocking for TLC.                                          *)
(***************************************************************************)
EXTENDS Blocking
=============================================================================
