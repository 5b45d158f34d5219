---------------------------- MODULE MCCommandLine ----------------------------
(***************************************************************************)
(* Instances of CommandLine for TLC.  Half an int holds 1024 values, enough *)
(* for every number of the code.                                           *)
(***************************************************************************)
EXTENDS CommandLine

\* Both values, only the high one, only the low one, one kept, a refused pair.
MCArgs ==
  {Arg(400, 260), Arg(380, NONE), Arg(NONE, 300), Arg(0, 300), Arg(1000, 260)}

OneSided == {Arg(380, NONE)}

\* Zero, and a value whose upper half looks like "set".
MCGarbage == {<<0, 0>>, <<1023, 420>>}

MCRequests == {Delivered("user", arg, g, h) : arg \in MCArgs, g, h \in MCGarbage}
=============================================================================
