------------------------------- MODULE MCFifo -------------------------------
(***************************************************************************)
(* Instances of Fifo for TLC.                                              *)
(***************************************************************************)
EXTENDS Fifo
=============================================================================
