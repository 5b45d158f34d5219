------------------------------ MODULE Actuator ------------------------------
(***************************************************************************)
(* What the relay control promises, without cycles, buses or replies:      *)
(* someone may want another output at any time, and an output that is      *)
(* wanted for long enough is eventually driven.                            *)
(***************************************************************************)
EXTENDS Integers

CONSTANT Outputs   \* the values of the relay output byte

VARIABLES
  want,     \* the output that the scores ask for
  out       \* the output of the relay board

Init == want \in Outputs /\ out \in Outputs

\* The scores change; the board keeps its output.
Request ==
  /\ want' \in Outputs
  /\ UNCHANGED out

\* The board is driven to what is wanted at this moment, never to another value.
Apply ==
  /\ out' = want
  /\ UNCHANGED want

Next == Request \/ Apply

Safety == Init /\ [][Next]_<<want, out>>

Spec == Safety /\ WF_<<want, out>>(Apply)

=============================================================================
