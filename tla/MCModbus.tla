------------------------------ MODULE MCModbus ------------------------------
(***************************************************************************)
(* Instances of Modbus for TLC.  The numbers are the ones of the code      *)
(* (tenths of a degree); every run picks the inputs its question needs.    *)
(***************************************************************************)
EXTENDS Modbus

NoRequests == {}

\* One pair that moves warn_max below EXTREMITY.
OneRequest == {<<400, 260>>}
=============================================================================
