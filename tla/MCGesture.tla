------------------------------ MODULE MCGesture ------------------------------
(***************************************************************************)
(* Instances of Gesture for TLC.                                           *)
(***************************************************************************)
EXTENDS Gesture

\* Steps of 1 and more to the right, of 2 and more to the left; coordinates that
\* look like the beginning of a header, and y of 0 that sets len back.
MCPoints == {<<0, 0>>, <<2, 165>>, <<3, 0>>, <<5, 0>>, <<165, 90>>}
=============================================================================
