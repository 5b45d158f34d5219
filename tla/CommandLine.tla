----------------------------- MODULE CommandLine -----------------------------
(***************************************************************************)
(* The controller of module Modbus, driven by what users type: the warn    *)
(* values arrive as module Client packs them, whatever its uninitialised   *)
(* variables hold.  How a command gets through the pipe is module Fifo.    *)
(***************************************************************************)
EXTENDS Modbus, Client

CONSTANTS
  Args,       \* what is typed behind -w
  Garbage     \* what an uninitialised int may hold

ASSUME CommandLineAssumption ==
  /\ \A arg \in Args : {arg.high, arg.low} \subseteq Halves \cup {NONE}
  /\ Garbage \subseteq Int32
  /\ \A c \in Callers, arg \in Args, g, h \in Garbage :
       Sends(High(arg, g)) => Delivered(c, arg, g, h) \in WarnRequests

VARIABLES
  typed,      \* history: the last -w that was sent to the server
  before      \* history: the values in force when it arrived

cliVars == <<vars, typed, before>>

CliInit ==
  /\ Init
  /\ typed = Arg(NONE, NONE)
  /\ before = <<WARN_MAX, WARN_MIN>>

\* temperature -w arg, or with -o for the OPC UA server.
TypeWarn(c, arg, g, h) ==
  /\ Sends(High(arg, g))
  /\ LET pair == Delivered(c, arg, g, h) IN BeginWarn(c, pair[1], pair[2])
  /\ typed' = arg
  /\ before' = <<warn_max, warn_min>>

CliRestart ==
  /\ Restart
  /\ typed' = Arg(NONE, NONE)
  /\ before' = <<WARN_MAX, WARN_MIN>>

\* -h and -c.
TypeScore(c, s) ==
  /\ UpdateHeating(c, s) \/ UpdateCooling(c, s)
  /\ UNCHANGED <<typed, before>>

Controller ==
  /\ SendThread \/ SlaveAnswers \/ SafeMode \/ \E c \in Callers : WarnStep(c)
  /\ UNCHANGED <<typed, before>>

CliNext ==
  \/ \E c \in Callers, arg \in Args, g, h \in Garbage : TypeWarn(c, arg, g, h)
  \/ \E c \in Callers, s \in Scores : TypeScore(c, s)
  \/ Controller
  \/ CliRestart

CliSpec == CliInit /\ [][CliNext]_cliVars

-----------------------------------------------------------------------------

\* Zero keeps a value.
Meant(value, old) == IF value = 0 THEN old ELSE value

\* With both values typed, the server has exactly these in force once it has
\* executed the command, or those from before when the screen cannot show them:
\* neither the missing initial values, nor the bits that mark a value as set, nor
\* packing and unpacking change them.
WarnAsTyped ==
  NoWarnUpdate /\ typed.high # NONE /\ typed.low # NONE =>
    LET max == Meant(typed.high, before[1])
        min == Meant(typed.low, before[2])
    IN  <<warn_max, warn_min>> =
          IF max <= Y_MAX /\ min >= Y_MIN THEN <<max, min>> ELSE before

\* A value that was not typed stays as it is (usage text of client.c: "high:" \
\* ":low": only updata high or low).
OnlyOne ==
  NoWarnUpdate =>
    /\ typed.low = NONE => warn_min = before[2]
    /\ typed.high = NONE => warn_max = before[1]
=============================================================================
