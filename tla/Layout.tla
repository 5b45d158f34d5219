-------------------------------- MODULE Layout --------------------------------
(***************************************************************************)
(* vgus.c: which words of the screen's memory each drawing routine writes, *)
(* with the addresses and numbers of xenomai_screen_init ("X") and         *)
(* temperature_screen_init ("T"), and how long its frames are.             *)
(*                                                                         *)
(* \h4000 and up hold the values of the variables, \h0000 and up what      *)
(* describes them.                                                         *)
(***************************************************************************)
EXTENDS Integers

\* n words from address a on.
Block(a, n) == a .. (a + n - 1)

\* The variables of an axis' labels lie interval_addr apart.
Labels(a, n) == {a + i * 32 : i \in 0..(n - 1)}

\* A drawing of n lines: command, number, and per line a colour and two points.
Wires(a, n) == Block(a, 2 + 5 * n)

AXIS_WIRES == 12

\* Mutant: one line too many on the temperature screen.
GridNumberPlus(s) == IF s = "X" THEN 10 ELSE 7

GridNumber(s) == IF s = "X" THEN 10 ELSE 6

LabelNumber(s, axis) == IF s = "T" /\ axis = "x" THEN 7 ELSE 11

\* A routine that fills a local buffer of `room` bytes with frames of `size`.
Item(words, size, room) == [words |-> words, size |-> size, room |-> room]

\* write_var: a frame of 8 bytes for one word.
Var(a) == Item({a}, 8, 16)

WireItem(a, n) == Item(Wires(a, n), 10 * n + 10, 255)
LabelItem(a, n) == Item(Labels(a, n), 8 * n, 255)

\* realtime_curve_init writes four words of the description.
CurveItem(a) == Item({a + 5, a + 6, a + 8, a + 9}, 4 * 8, 64)

TITLE == 25         \* strlen("Xenomai Interrupt Latency")

\* What vgus_init draws, and below the line what is drawn later.
Drawing ==
  [title   |-> Item(Block(\h4000, (TITLE + 1) \div 2), TITLE + 6, 32),
   curveX  |-> CurveItem(\h0020),
   curveT  |-> CurveItem(\h1020),
   gridX   |-> WireItem(\h4500, GridNumber("X")),
   gridT   |-> WireItem(\h53c0, GridNumber("T")),
   axisX   |-> WireItem(\h4300, AXIS_WIRES),
   axisT   |-> WireItem(\h53e0, AXIS_WIRES),
   xLabelX |-> LabelItem(\h4020, LabelNumber("X", "x")),
   yLabelX |-> LabelItem(\h4180, LabelNumber("X", "y")),
   xLabelT |-> LabelItem(\h5180, LabelNumber("T", "x")),
   yLabelT |-> LabelItem(\h5260, LabelNumber("T", "y")),
   xColorT |-> LabelItem(\h1180 + 6, LabelNumber("T", "x")),
   yColorT |-> LabelItem(\h1260 + 6, LabelNumber("T", "y")),
   warnMax |-> Var(\h5420),
   warnMin |-> Var(\h5440),
   target  |-> Var(\h5620),
   offset  |-> Var(\h5640),
   \* ----
   temp    |-> Var(\h5400),
   led     |-> Var(\h5510),
   icon    |-> Var(\h5000),
   hint    |-> Item({\h5520, \h5530}, 8, 16),
   marker  |-> Item({\h42e0, \h0301, \h0302}, 8 + 10, 32)]

\* The temperature lies in the drawing of its own screen's axes: it is the colour
\* of the seventh of the twelve lines.
Shared == {\h5400}

-----------------------------------------------------------------------------
(* Heights on the latency screen, in pixels from the top. *)

Y_MIN == 500
Y_MAX == 3000
APEX == 140
WIDTH == 300

InRange(v) == Y_MIN <= v /\ v <= Y_MAX

\* set_vernier_value.
MarkerY(v) == WIDTH - ((v - Y_MIN) * WIDTH) \div (Y_MAX - Y_MIN) + APEX

\* realtime_curve_init: pixels per unit in 1/256, and the middle.
Scale == (WIDTH * 256) \div (Y_MAX - Y_MIN)
CentreY == WIDTH \div 2 + APEX
CentreV == (Y_MAX - Y_MIN) \div 2 + Y_MIN

\* Where the screen puts a point of the curve (external).
CurveY(v) == CentreY - ((v - CentreV) * Scale) \div 256
=============================================================================
