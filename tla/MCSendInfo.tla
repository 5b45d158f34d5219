----------------------------- MODULE MCSendInfo -----------------------------
(***************************************************************************)
(* Instances of SendInfo for TLC: two threads on the head of the list, one *)
(* with a buffer of its own.                                               *)
(***************************************************************************)
EXTENDS SendInfo

Owners == [t \in {"send", "user", "touch"} |-> IF t = "touch" THEN "dup" ELSE "head"]
=============================================================================
