-------------------------------- MODULE Client --------------------------------
(***************************************************************************)
(* client.c, the option -w "high:low": from what the user types to the two *)
(* numbers modbus_update_warn_vaules is called with.  high_warn_v and      *)
(* low_warn_v are ints without an initial value; the bits above the lower  *)
(* half are to say whether one was set.                                    *)
(*                                                                         *)
(* An int is the pair of its halves, <<upper, lower>>.                     *)
(***************************************************************************)
EXTENDS Integers

CONSTANT HALF       \* values of half an int: 2^16

ASSUME ClientAssumption == HALF \in Nat /\ HALF >= 2

Halves == 0..(HALF - 1)
Int32 == Halves \X Halves

\* What is typed: two numbers, either of which may be missing.
NONE == -1
Arg(high, low) == [high |-> high, low |-> low]

\* atoi, of a number that is not negative.
Number(v) == <<0, v>>

\* set_warn_v_valid and is_warn_v_valid.
Valid(v) == <<HALF - 1, v[2]>>
IsValid(v) == v[1] = HALF - 1

\* The order of signed ints.
Upper(v) == IF 2 * v[1] >= HALF THEN v[1] - HALF ELSE v[1]
Below(v, w) == Upper(v) < Upper(w) \/ (v[1] = w[1] /\ v[2] < w[2])

\* high_warn_v and low_warn_v, from what the variables held before.
High(arg, g) == IF arg.high = NONE THEN g ELSE Valid(Number(arg.high))

\* A high value that was set is negative, so nothing typed lies below it.
Low(arg, high, g) ==
  IF arg.low = NONE THEN g
  ELSE IF Below(Number(arg.low), high) THEN Valid(Number(arg.low))
  ELSE Number(arg.low)

\* Both tests look at high_warn_v; when they fail the usage is printed instead.
Sends(high) == IsValid(high)

\* Mutant: the low value comes first.
PackSwapped(high, low) == <<low[2], high[2]>>

\* high_warn_v << 16 | (low_warn_v & 0xffff)
Pack(high, low) == <<high[2], low[2]>>

\* The server takes the number apart.  start_user_interface does so as unsigned,
\* set_warn_value as UA_Int32, whose shift keeps the sign.
Unpack(c, word) ==
  <<IF c = "opc" /\ 2 * word[1] >= HALF THEN word[1] + HALF * (HALF - 1) ELSE word[1],
    word[2]>>

\* The two numbers that reach modbus_update_warn_vaules.
Delivered(c, arg, g, h) ==
  LET high == High(arg, g) IN Unpack(c, Pack(high, Low(arg, high, h)))
=============================================================================
