------------------------------- MODULE Stream -------------------------------
(***************************************************************************)
(* What a send_info promises to the thread that owns it: frames are queued *)
(* one by one, and everything queued goes out together, once and in order. *)
(***************************************************************************)
EXTENDS Sequences

CONSTANT Frame

VARIABLES
  queued,   \* frames waiting for the next flush
  wire      \* frames on their way to the screen

Init == queued = <<>> /\ wire = <<>>

Write ==
  \E f \in Frame : queued' = Append(queued, f)
  /\ UNCHANGED wire

Flush ==
  /\ wire' = wire \o queued
  /\ queued' = <<>>

Next == Write \/ Flush

Spec == Init /\ [][Next]_<<queued, wire>>
=============================================================================
