-------------------------- MODULE CommandLineProofs --------------------------
(***************************************************************************)
(* Theorems about CommandLine: whatever is typed, and whatever the client's *)
(* uninitialised variables hold, the controller sees commands of module    *)
(* Modbus only, and a pair typed in full takes effect as typed.            *)
(***************************************************************************)
EXTENDS CommandLine, ModbusProofs

\* Two values typed in full reach the user interface unchanged: setting the upper
\* half as the mark "set", and packing and unpacking, do not touch them, nor does
\* it matter whether the low value got its mark.
LEMMA BothArrive ==
  ASSUME NEW arg \in Args, NEW g, NEW h, arg.high # NONE, arg.low # NONE
  PROVE  Delivered("user", arg, g, h) = <<arg.high, arg.low>>
<1> DEFINE high == High(arg, g)
           low  == Low(arg, high, h)
<1>1. high = <<HALF - 1, arg.high>>
  BY DEF High, Valid, Number
<1>2. low \in {<<HALF - 1, arg.low>>, <<0, arg.low>>}
  BY DEF Low, Valid, Number
<1>3. high[2] = arg.high /\ low[2] = arg.low
  BY <1>1, <1>2
<1>4. Pack(high, low) = <<arg.high, arg.low>>
  BY <1>3 DEF Pack
<1> HIDE DEF high, low
<1>5. Unpack("user", Pack(high, low)) = <<arg.high, arg.low>>
  BY <1>4 DEF Unpack
<1> QED
  BY <1>5 DEF Delivered, high, low

\* Every step of the typed commands is a step of Modbus.
LEMMA CliStep ==
  ASSUME [CliNext]_cliVars
  PROVE  [Next]_vars
<1>1. ASSUME NEW c \in Callers, NEW arg \in Args, NEW g \in Garbage, NEW h \in Garbage,
             TypeWarn(c, arg, g, h)
      PROVE  Next
  <2> DEFINE pair == Delivered(c, arg, g, h)
  <2>1. pair \in WarnRequests /\ BeginWarn(c, pair[1], pair[2])
    BY <1>1, CommandLineAssumption DEF TypeWarn
  <2> HIDE DEF pair
  <2> QED
    BY <2>1 DEF Command, Next
<1>2. ASSUME NEW c \in Callers, NEW s \in Scores, TypeScore(c, s) PROVE Next
  BY <1>2 DEF TypeScore, Command, Next
<1>3. CASE Controller
  BY <1>3 DEF Controller, Next
<1>4. CASE CliRestart
  BY <1>4 DEF CliRestart, Next
<1>5. CASE UNCHANGED cliVars
  BY <1>5 DEF cliVars
<1> QED
  BY <1>1, <1>2, <1>3, <1>4, <1>5 DEF CliNext

\* With its commands typed at the client the controller is an instance of Modbus,
\* whose theorems therefore hold of it too (client.c main, start_user_interface).
THEOREM ImplementsModbus == CliSpec => Spec
<1>1. CliInit => Init
  BY DEF CliInit
<1> QED
  BY <1>1, CliStep, PTL DEF CliSpec, Spec

\* So safe mode gives the heating back as it was typed (modbus_safe_mode,
\* modbus_recover_from_safe, and main of client.c).
THEOREM TypedHeatingSurvives ==
  ASSUME "opc" \notin Callers
  PROVE  CliSpec => []HeatingSurvivesSafeMode
BY ImplementsModbus, HeatingSurvives, PTL

\* And the warn values in force are those shown (temperature_draw_warn).
THEOREM TypedWarnIsShown ==
  ASSUME "opc" \notin Callers
  PROVE  CliSpec => []WarnShown
BY ImplementsModbus, WarnIsShown, PTL

-----------------------------------------------------------------------------
(* From what is typed to what is in force. *)

Max == Meant(typed.high, before[1])
Min == Meant(typed.low, before[2])
Showable == Max <= Y_MAX /\ Min >= Y_MIN

\* How far the last pair typed in full has come: the inductive form of WarnAsTyped.
TypedProgress ==
  typed.high # NONE /\ typed.low # NONE =>
    /\ \A c \in Callers :
         LET p == pending[c] IN
         /\ p.stage # "none" => p.max = Max /\ p.min = Min
         /\ p.stage \in {"check", "draw_max", "draw_min", "set_max"} =>
              warn_max = before[1] /\ warn_min = before[2]
         /\ p.stage = "set_min" => warn_max = Max
         /\ p.stage \in {"draw_max", "draw_min", "set_max", "set_min"} => Showable
    /\ NoWarnUpdate =>
         IF Showable THEN warn_max = Max /\ warn_min = Min
                      ELSE warn_max = before[1] /\ warn_min = before[2]

\* What one step does to the warn values and to what was typed.
LEMMA TypedChange ==
  ASSUME [CliNext]_cliVars, "opc" \notin Callers
  PROVE  \/ UNCHANGED <<warn_max, warn_min, pending, typed, before>>
         \/ CliRestart
         \/ /\ "user" \in Callers /\ WarnStep("user") /\ UNCHANGED <<typed, before>>
         \/ /\ "user" \in Callers
            /\ \E arg \in Args, g, h \in Garbage : TypeWarn("user", arg, g, h)
<1>1. ASSUME NEW c \in Callers PROVE c = "user"
  BY ModbusAssumption
<1>2. ASSUME NEW c \in Callers, NEW s \in Scores, TypeScore(c, s)
      PROVE  UNCHANGED <<warn_max, warn_min, pending, typed, before>>
  BY <1>2 DEF TypeScore, UpdateHeating, UpdateCooling, warnVars
<1>3. CASE SendThread /\ UNCHANGED <<typed, before>>
  BY <1>3 DEF SendThread, Tick, KeepRelay, SendRelay, RecvRelay, AskTemperature,
     RecvTemperature, MissTemperature, Alarm, Trip, Clear, warnVars
<1>4. CASE SlaveAnswers /\ UNCHANGED <<typed, before>>
  BY <1>4 DEF SlaveAnswers, warnVars
<1>5. CASE SafeMode /\ UNCHANGED <<typed, before>>
  BY <1>5 DEF SafeMode, EnterSafe, SaveScores, ZeroCooling, ZeroHeating,
     RecoverCooling, RecoverHeating, warnVars
<1>6. CASE UNCHANGED cliVars
  BY <1>6 DEF cliVars, vars, warnVars
<1> QED
  BY <1>1, <1>2, <1>3, <1>4, <1>5, <1>6 DEF CliNext, Controller

\* A command typed with both values is followed from the start.
LEMMA TypedBegins ==
  ASSUME TypeOK, "opc" \notin Callers, "user" \in Callers,
         NEW arg \in Args, NEW g \in Garbage, NEW h \in Garbage,
         TypeWarn("user", arg, g, h)
  PROVE  TypedProgress'
<1> SUFFICES ASSUME arg.high # NONE, arg.low # NONE
             PROVE  TypedProgress'
  BY DEF TypeWarn, TypedProgress
<1>1. Callers = {"user"}
  BY ModbusAssumption
<1>2. BeginWarn("user", arg.high, arg.low)
  BY BothArrive DEF TypeWarn
<1>3. typed' = arg /\ before' = <<warn_max, warn_min>>
  BY DEF TypeWarn
<1>4. /\ pending'["user"].stage = "check"
      /\ pending'["user"].max = Meant(arg.high, warn_max)
      /\ pending'["user"].min = Meant(arg.low, warn_min)
      /\ UNCHANGED <<warn_max, warn_min>>
  BY <1>2 DEF BeginWarn, TypeOK, Meant
<1>5. Max' = Meant(arg.high, warn_max) /\ Min' = Meant(arg.low, warn_min)
      /\ before'[1] = warn_max /\ before'[2] = warn_min
  BY <1>3 DEF Max, Min
<1> QED
  BY <1>1, <1>4, <1>5 DEF TypedProgress, NoWarnUpdate

\* Each statement of modbus_update_warn_vaules takes it one step further.
LEMMA TypedAdvances ==
  ASSUME TypeOK, TypedProgress, "opc" \notin Callers, "user" \in Callers,
         WarnStep("user"), UNCHANGED <<typed, before>>
  PROVE  TypedProgress'
<1> SUFFICES ASSUME typed.high # NONE, typed.low # NONE
             PROVE  TypedProgress'
  BY DEF TypedProgress
<1> DEFINE p == pending["user"]
           q == pending'["user"]
<1>1. Callers = {"user"}
  BY ModbusAssumption
<1>2. pending \in [Callers -> Update] /\ p \in Update
  BY DEF TypeOK, Update
<1>3. Max' = Max /\ Min' = Min /\ Showable' = Showable /\ before' = before
  BY DEF Max, Min, Showable
<1>4. /\ p.stage # "none" => p.max = Max /\ p.min = Min
      /\ p.stage \in {"check", "draw_max", "draw_min", "set_max"} =>
           warn_max = before[1] /\ warn_min = before[2]
      /\ p.stage = "set_min" => warn_max = Max
      /\ p.stage \in {"draw_max", "draw_min", "set_max", "set_min"} => Showable
  BY <1>1 DEF TypedProgress
<1>5. SUFFICES
        /\ q.stage # "none" => q.max = Max /\ q.min = Min
        /\ q.stage \in {"check", "draw_max", "draw_min", "set_max"} =>
             warn_max' = before[1] /\ warn_min' = before[2]
        /\ q.stage = "set_min" => warn_max' = Max
        /\ q.stage \in {"draw_max", "draw_min", "set_max", "set_min"} => Showable
        /\ q.stage = "none" =>
             IF Showable THEN warn_max' = Max /\ warn_min' = Min
                          ELSE warn_max' = before[1] /\ warn_min' = before[2]
  BY <1>1, <1>3 DEF TypedProgress, NoWarnUpdate
<1>6. CASE CheckWarn("user")
  <2>1. /\ p.stage = "check" /\ UNCHANGED <<warn_max, warn_min>>
        /\ q = IF \/ warn_max = p.max /\ warn_min = p.min
                  \/ p.max > Y_MAX
                  \/ p.min < Y_MIN
               THEN NoUpdate
               ELSE [p EXCEPT !.stage = "draw_max"]
    BY <1>2, <1>6 DEF CheckWarn
  <2>2. p.max = Max /\ p.min = Min /\ Max \in Nat /\ Min \in Nat
        /\ warn_max = before[1] /\ warn_min = before[2]
    BY <1>2, <1>4, <2>1 DEF Update
  <2>3. Y_MAX \in Nat /\ Y_MIN \in Nat
    BY ModbusAssumption
  <2>4. CASE Showable /\ ~(warn_max = p.max /\ warn_min = p.min)
    <3>1. q = [p EXCEPT !.stage = "draw_max"]
      BY <2>1, <2>2, <2>3, <2>4 DEF Showable
    <3>2. q.stage = "draw_max" /\ q.max = p.max /\ q.min = p.min
      BY <1>2, <3>1 DEF Update
    <3> QED
      BY <2>1, <2>2, <2>4, <3>2
  <2>5. CASE ~Showable \/ (warn_max = p.max /\ warn_min = p.min)
    <3>1. q.stage = "none"
      BY <2>1, <2>2, <2>3, <2>5 DEF Showable, NoUpdate
    <3> QED
      BY <2>1, <2>2, <2>5, <3>1
  <2> QED
    BY <2>4, <2>5
<1>7. ASSUME NEW st \in Stages, pending' = [pending EXCEPT !["user"].stage = st]
      PROVE  q.stage = st /\ q.max = p.max /\ q.min = p.min
  BY <1>2, <1>7 DEF Update
<1>8. CASE DrawWarnMax("user")
  BY <1>4, <1>7, <1>8 DEF DrawWarnMax, Stages
<1>9. CASE DrawWarnMin("user")
  BY <1>4, <1>7, <1>9 DEF DrawWarnMin, Stages
<1>10. CASE SetWarnMax("user")
  BY <1>4, <1>7, <1>10 DEF SetWarnMax, Stages
<1>11. CASE SetWarnMin("user")
  <2>1. q.stage = "none" /\ warn_max' = warn_max /\ warn_min' = p.min /\ p.stage = "set_min"
    BY <1>2, <1>11 DEF SetWarnMin, NoUpdate
  <2> QED
    BY <1>4, <2>1
<1> QED
  BY <1>6, <1>8, <1>9, <1>10, <1>11 DEF WarnStep

\* A pair typed in full is in force once the server has executed the command, or
\* the pair from before it when the screen cannot show it, without OPC UA and
\* whatever the client's uninitialised variables hold (main of client.c,
\* start_user_interface, modbus_update_warn_vaules).
THEOREM WarnTakesEffectAsTyped ==
  ASSUME "opc" \notin Callers
  PROVE  CliSpec => []WarnAsTyped
<1> DEFINE Inv == before \in Nat \X Nat /\ TypedProgress
<1>1. CliInit => Inv
  BY ModbusAssumption DEF CliInit, TypedProgress, Arg
<1>2. TypeOK /\ Inv /\ [CliNext]_cliVars => Inv'
  <2> SUFFICES ASSUME TypeOK, Inv, [CliNext]_cliVars PROVE Inv'
    OBVIOUS
  <2>1. CASE UNCHANGED <<warn_max, warn_min, pending, typed, before>>
    BY <2>1 DEF TypedProgress, Max, Min, Showable, NoWarnUpdate
  <2>2. CASE CliRestart
    BY <2>2, ModbusAssumption DEF CliRestart, TypedProgress, Arg
  <2>3. CASE "user" \in Callers /\ WarnStep("user") /\ UNCHANGED <<typed, before>>
    BY <2>3, TypedAdvances
  <2>4. ASSUME "user" \in Callers,
               NEW arg \in Args, NEW g \in Garbage, NEW h \in Garbage,
               TypeWarn("user", arg, g, h)
        PROVE  Inv'
    <3>1. before' \in Nat \X Nat
      BY <2>4 DEF TypeWarn, TypeOK
    <3> QED
      BY <2>4, <3>1, TypedBegins
  <2> QED
    BY <2>1, <2>2, <2>3, <2>4, TypedChange
<1>3. Inv => WarnAsTyped
  <2> SUFFICES ASSUME Inv, NoWarnUpdate, typed.high # NONE, typed.low # NONE
               PROVE  <<warn_max, warn_min>> = IF Showable THEN <<Max, Min>> ELSE before
    BY DEF WarnAsTyped, Showable, Max, Min
  <2>1. IF Showable THEN warn_max = Max /\ warn_min = Min
                    ELSE warn_max = before[1] /\ warn_min = before[2]
    BY DEF TypedProgress
  <2>2. before = <<before[1], before[2]>>
    OBVIOUS
  <2> QED
    BY <2>1, <2>2
<1>4. CliSpec => []TypeOK
  BY ImplementsModbus, TypeCorrect, PTL
<1> QED
  BY <1>1, <1>2, <1>3, <1>4, PTL DEF CliSpec
=============================================================================
