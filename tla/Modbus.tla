------------------------------- MODULE Modbus -------------------------------
(***************************************************************************)
(* modbus_485.c: the temperature controller.  Thread start_send_data calls *)
(* modbus_callback every 200 ms; six calls are one cycle: drive the relays *)
(* from the scores, read the sensor, update the alarm and the emergency    *)
(* cooling.  Other threads write the same `modbus_info` without a lock:    *)
(* the user interface ("user") and the OPC UA server ("opc") set scores    *)
(* and warn values, and the user interface enters and leaves safe mode.    *)
(*                                                                         *)
(* One action is one statement that touches a field another thread writes; *)
(* statements on the thread's own fields are merged into the action next   *)
(* to them.                                                                *)
(***************************************************************************)
EXTENDS Bus485

CONSTANTS
  Readings,       \* values the sensor may answer
  Scores,         \* scores a command may ask for
  WarnRequests,   \* <<max, min>> pairs a command may ask for; 0 keeps a value
  Callers,        \* threads that issue commands: "user", and "opc" when built
                  \* with HAVE_OPC_SERVER
  LatencyScreen,  \* whether the operator ever opens the latency screen, which
                  \* makes the user interface enter safe mode
  Restarts,       \* whether the process may exit(-1) and be started again
  SCORE_MAX,      \* HEATING_SCORE_MAX and COOLING_SCORE_MAX
  FAIL_MAX,       \* the bound of temp_sensor_failure
  EXTREMITY,      \* modbus_info.extremity
  WARN_MAX, WARN_MIN,         \* initial modbus_info.warn_max, warn_min
  SHOWN_MAX, SHOWN_MIN,       \* what vgus_init draws
  Y_MAX, Y_MIN                \* limits temperature_draw_warn accepts

ASSUME ModbusAssumption ==
  /\ Readings \subseteq Nat
  /\ Scores \subseteq Nat
  /\ WarnRequests \subseteq Nat \X Nat
  /\ Callers \subseteq {"user", "opc"}
  /\ LatencyScreen \in BOOLEAN
  /\ Restarts \in BOOLEAN
  /\ SCORE_MAX \in Nat \ {0}
  /\ FAIL_MAX \in Nat
  /\ {EXTREMITY, WARN_MAX, WARN_MIN, SHOWN_MAX, SHOWN_MIN, Y_MAX, Y_MIN} \subseteq Nat

VARIABLES
  interval_value,     \* position in the cycle, 0..5
  step,               \* where modbus_callback is
  temperature, warn_max, warn_min, heating_score, cooling_score,
  heating_save, cooling_save,       \* struct modbus_info
  extremity,          \* 1 while emergency cooling is in force
  red, start_warn, breath_led,
  temp_sensor_failure,
  relay_buf,          \* relay_buf[7], the last output byte sent
  warn_icon, shown_max, shown_min,  \* what the screen has been told to show
  relay_out,          \* what the relay board drives (external)
  safe,               \* where the user interface is in block_me
  pending,            \* per caller, the rest of a modbus_update_warn_vaules
  asked_heating, asked_cooling      \* history: the scores last commanded

cycleVars  == <<interval_value, step>>
readVars   == <<temperature, temp_sensor_failure>>
alarmVars  == <<red, start_warn, breath_led, warn_icon>>
scoreVars  == <<heating_score, cooling_score, asked_heating, asked_cooling>>
saveVars   == <<heating_save, cooling_save, safe>>
relayVars  == <<relay_buf, relay_out>>
warnVars   == <<warn_max, warn_min, shown_max, shown_min, pending>>
vars == <<busVars, cycleVars, readVars, alarmVars, scoreVars, saveVars,
          relayVars, warnVars, extremity>>

\* The stages of one modbus_update_warn_vaules call, in program order.
Stages == {"none", "check", "draw_max", "draw_min", "set_max", "set_min"}
NoUpdate == [stage |-> "none", max |-> 0, min |-> 0]

\* The process starts: static initialisers, and the warn values vgus_init draws.
\* The board drives nothing and the icon is off when the devices are powered up.
Init ==
  /\ BusInit
  /\ interval_value = 0 /\ step = "next"
  /\ temperature = 0 /\ temp_sensor_failure = 0
  /\ red = 1 /\ start_warn = 0 /\ breath_led = 1
  /\ heating_score = 0 /\ cooling_score = 0
  /\ asked_heating = 0 /\ asked_cooling = 0
  /\ heating_save = 0 /\ cooling_save = 0 /\ safe = "live"
  /\ relay_buf = 0
  /\ warn_max = WARN_MAX /\ warn_min = WARN_MIN
  /\ shown_max = SHOWN_MAX /\ shown_min = SHOWN_MIN
  /\ pending = [c \in Callers |-> NoUpdate]
  /\ extremity = 0
  /\ warn_icon = 0
  /\ relay_out = 0


-----------------------------------------------------------------------------
(* Thread start_send_data: modbus_callback. *)

\* get_relay_value: a score above zero closes the relay, whatever its level.
RelayValue ==
  (IF heating_score > 0 THEN 16 ELSE 0) + (IF cooling_score > 0 THEN 4 ELSE 0)

RelayValues == {0, 4, 16, 20}

\* The calls that only count, interval_value 0, 2, 3 and 4.
Tick ==
  /\ step = "next"
  /\ interval_value \notin {1, 5}
  /\ interval_value' = interval_value + 1
  /\ UNCHANGED <<busVars, step, readVars, alarmVars, scoreVars, saveVars,
                 relayVars, warnVars, extremity>>

\* Mutant: an output that opens every relay is never sent.
KeepRelayOpening ==
  /\ step = "next"
  /\ interval_value = 1
  /\ RelayValue \in {0, relay_buf}
  /\ interval_value' = 2
  /\ UNCHANGED <<busVars, step, readVars, alarmVars, scoreVars, saveVars,
                 relayVars, warnVars, extremity>>

\* set_relay when the output byte is the one last sent: no request.
KeepRelay ==
  /\ step = "next"
  /\ interval_value = 1
  /\ RelayValue = relay_buf
  /\ interval_value' = 2
  /\ UNCHANGED <<busVars, step, readVars, alarmVars, scoreVars, saveVars,
                 relayVars, warnVars, extremity>>

\* Mutant: the request is built before relay_buf[7] is updated.
SendRelayStale(acts, answered) ==
  /\ step = "next"
  /\ interval_value = 1
  /\ RelayValue # relay_buf
  /\ answered => acts
  /\ acts \/ BusLossy
  /\ Send("relay", 0, answered)
  /\ relay_buf' = RelayValue
  /\ relay_out' = IF acts THEN relay_buf ELSE relay_out
  /\ interval_value' = 2
  /\ step' = "relay_recv"
  /\ UNCHANGED <<readVars, alarmVars, scoreVars, saveVars, warnVars, extremity>>

\* set_relay up to its recv.  relay_buf[7] is updated before the request goes
\* out; the board may miss the request, or act and fail to answer.
SendRelay(acts, answered) ==
  /\ step = "next"
  /\ interval_value = 1
  /\ RelayValue # relay_buf
  /\ answered => acts
  /\ acts \/ BusLossy
  /\ Send("relay", 0, answered)
  /\ relay_buf' = RelayValue
  /\ relay_out' = IF acts THEN RelayValue ELSE relay_out
  /\ interval_value' = 2
  /\ step' = "relay_recv"
  /\ UNCHANGED <<readVars, alarmVars, scoreVars, saveVars, warnVars, extremity>>

\* Mutant: set_relay does not wait for the board's echo.
RecvRelayUnread ==
  /\ step = "relay_recv"
  /\ exchange' = "none"
  /\ step' = "next"
  /\ UNCHANGED <<line, ready, late, lag, interval_value, readVars, alarmVars,
                 scoreVars, saveVars, relayVars, warnVars, extremity>>

\* The end of set_relay: modbus_callback ignores what it returns, so an answer,
\* a foreign answer and a timeout lead to the same state.
RecvRelay ==
  /\ step = "relay_recv"
  /\ RecvUnused \/ RecvTimeout
  /\ step' = "next"
  /\ UNCHANGED <<interval_value, readVars, alarmVars, scoreVars, saveVars,
                 relayVars, warnVars, extremity>>

\* get_temperature up to its recv.
AskTemperature(val, answered) ==
  /\ step = "next"
  /\ interval_value = 5
  /\ Send("temperature", val, answered)
  /\ step' = "temp_recv"
  /\ UNCHANGED <<interval_value, readVars, alarmVars, scoreVars, saveVars,
                 relayVars, warnVars, extremity>>

\* get_temperature returned a reading: it replaces the temperature.
RecvTemperature ==
  /\ step = "temp_recv"
  /\ RecvReading
  /\ temperature' = line[1].val
  /\ temp_sensor_failure' = 0
  /\ interval_value' = 0
  /\ step' = "alarm"
  /\ UNCHANGED <<alarmVars, scoreVars, saveVars, relayVars, warnVars, extremity>>

\* Mutant: temp_sensor_failure counts on.
MissTemperatureUncapped ==
  /\ step = "temp_recv"
  /\ \/ ~Accepted /\ RecvUnused
     \/ RecvTimeout
  /\ temp_sensor_failure' = temp_sensor_failure + 1
  /\ interval_value' = 0
  /\ step' = "alarm"
  /\ UNCHANGED <<temperature, alarmVars, scoreVars, saveVars, relayVars,
                 warnVars, extremity>>

\* get_temperature failed: the last temperature stays in force.
MissTemperature ==
  /\ step = "temp_recv"
  /\ \/ ~Accepted /\ RecvUnused
     \/ RecvTimeout
  /\ temp_sensor_failure' = IF temp_sensor_failure < FAIL_MAX
                            THEN temp_sensor_failure + 1
                            ELSE temp_sensor_failure
  /\ interval_value' = 0
  /\ step' = "alarm"
  /\ UNCHANGED <<temperature, alarmVars, scoreVars, saveVars, relayVars,
                 warnVars, extremity>>

OutOfRange == temperature > warn_max \/ temperature < warn_min

\* Mutant: the end of an alarm leaves the icon as it is.
AlarmKeepsIcon ==
  /\ step = "alarm"
  /\ IF OutOfRange
     THEN /\ warn_icon' = red
          /\ red' = 1 - red
          /\ start_warn' = 1
     ELSE start_warn' = 0 /\ UNCHANGED <<red, warn_icon>>
  /\ breath_led' = 1 - breath_led
  /\ step' = "trip"
  /\ UNCHANGED <<busVars, interval_value, readVars, scoreVars, saveVars,
                 relayVars, warnVars, extremity>>

\* Mutant: an alarm does not blink.
AlarmSteady ==
  /\ step = "alarm"
  /\ IF OutOfRange
     THEN warn_icon' = red /\ start_warn' = 1
     ELSE /\ warn_icon' = IF start_warn = 1 THEN 0 ELSE warn_icon
          /\ start_warn' = 0
  /\ breath_led' = 1 - breath_led
  /\ step' = "trip"
  /\ UNCHANGED <<busVars, interval_value, readVars, red, scoreVars, saveVars,
                 relayVars, warnVars, extremity>>

\* The icon blinks while the temperature is out of range and is switched off
\* once when it is back; the breath led toggles in every cycle.
Alarm ==
  /\ step = "alarm"
  /\ IF OutOfRange
     THEN /\ warn_icon' = red
          /\ red' = 1 - red
          /\ start_warn' = 1
     ELSE /\ warn_icon' = IF start_warn = 1 THEN 0 ELSE warn_icon
          /\ start_warn' = 0
          /\ UNCHANGED red
  /\ breath_led' = 1 - breath_led
  /\ step' = "trip"
  /\ UNCHANGED <<busVars, interval_value, readVars, scoreVars, saveVars,
                 relayVars, warnVars, extremity>>

\* Mutant: a running emergency is not renewed.
TripOnce ==
  /\ step = "trip"
  /\ IF temperature >= EXTREMITY /\ extremity = 0
     THEN cooling_score' = SCORE_MAX /\ extremity' = 1
     ELSE UNCHANGED <<cooling_score, extremity>>
  /\ step' = "clear"
  /\ UNCHANGED <<busVars, interval_value, readVars, alarmVars, heating_score,
                 asked_heating, asked_cooling, saveVars, relayVars, warnVars>>

\* Emergency cooling starts, or is renewed, at EXTREMITY.
Trip ==
  /\ step = "trip"
  /\ IF temperature >= EXTREMITY
     THEN cooling_score' = SCORE_MAX /\ extremity' = 1
     ELSE UNCHANGED <<cooling_score, extremity>>
  /\ step' = "clear"
  /\ UNCHANGED <<busVars, interval_value, readVars, alarmVars, heating_score,
                 asked_heating, asked_cooling, saveVars, relayVars, warnVars>>

\* Mutant: the end of an emergency leaves the cooling on.
ClearKeepsCooling ==
  /\ step = "clear"
  /\ extremity' = IF extremity = 1 /\ temperature <= warn_max THEN 0 ELSE extremity
  /\ step' = "next"
  /\ UNCHANGED <<busVars, interval_value, readVars, alarmVars, scoreVars,
                 saveVars, relayVars, warnVars>>

\* Mutant: an emergency ends only while its own cooling score is in force.
ClearOwn ==
  /\ step = "clear"
  /\ IF /\ extremity = 1 /\ temperature <= warn_max
        /\ cooling_score = SCORE_MAX
     THEN extremity' = 0 /\ cooling_score' = 0
     ELSE UNCHANGED <<cooling_score, extremity>>
  /\ step' = "next"
  /\ UNCHANGED <<busVars, interval_value, readVars, alarmVars, heating_score,
                 asked_heating, asked_cooling, saveVars, relayVars, warnVars>>

\* It ends when the temperature is back at warn_max: cooling is switched off.
Clear ==
  /\ step = "clear"
  /\ IF extremity = 1 /\ temperature <= warn_max
     THEN extremity' = 0 /\ cooling_score' = 0
     ELSE UNCHANGED <<cooling_score, extremity>>
  /\ step' = "next"
  /\ UNCHANGED <<busVars, interval_value, readVars, alarmVars, heating_score,
                 asked_heating, asked_cooling, saveVars, relayVars, warnVars>>

SendThread ==
  \/ Tick \/ KeepRelay \/ RecvRelay
  \/ \E acts, answered \in BOOLEAN : SendRelay(acts, answered)
  \/ \E val \in Readings, answered \in BOOLEAN : AskTemperature(val, answered)
  \/ RecvTemperature \/ MissTemperature
  \/ Alarm \/ Trip \/ Clear

SlaveAnswers ==
  /\ Answer
  /\ UNCHANGED <<cycleVars, readVars, alarmVars, scoreVars, saveVars,
                 relayVars, warnVars, extremity>>

-----------------------------------------------------------------------------
(* Commands of the user interface and of the OPC UA server. *)

Least(a, b) == IF a < b THEN a ELSE b

\* A caller issues one command at a time; the user interface issues none while
\* it is in block_me.
Idle(c) ==
  /\ pending[c] = NoUpdate
  /\ c = "user" => safe = "live"

UpdateHeating(c, score) ==
  /\ Idle(c)
  /\ heating_score' = Least(score, SCORE_MAX)
  /\ asked_heating' = Least(score, SCORE_MAX)
  /\ UNCHANGED <<busVars, cycleVars, readVars, alarmVars, cooling_score,
                 asked_cooling, saveVars, relayVars, warnVars, extremity>>

UpdateCooling(c, score) ==
  /\ Idle(c)
  /\ cooling_score' = Least(score, SCORE_MAX)
  /\ asked_cooling' = Least(score, SCORE_MAX)
  /\ UNCHANGED <<busVars, cycleVars, readVars, alarmVars, heating_score,
                 asked_heating, saveVars, relayVars, warnVars, extremity>>

\* modbus_update_warn_vaules reads the values it is to keep.
BeginWarn(c, max, min) ==
  /\ Idle(c)
  /\ pending' = [pending EXCEPT ![c] =
                   [stage |-> "check",
                    max |-> IF max = 0 THEN warn_max ELSE max,
                    min |-> IF min = 0 THEN warn_min ELSE min]]
  /\ UNCHANGED <<busVars, cycleVars, readVars, alarmVars, scoreVars, saveVars,
                 relayVars, warn_max, warn_min, shown_max, shown_min, extremity>>

\* Mutant: the high value is drawn before the pair is accepted.
CheckWarnLate(c) ==
  LET p == pending[c] IN
  /\ p.stage = "check"
  /\ shown_max' = IF p.max > Y_MAX THEN shown_max ELSE p.max
  /\ pending' = [pending EXCEPT ![c] =
                   IF \/ warn_max = p.max /\ warn_min = p.min
                      \/ p.max > Y_MAX
                      \/ p.min < Y_MIN
                   THEN NoUpdate
                   ELSE [p EXCEPT !.stage = "draw_max"]]
  /\ UNCHANGED <<busVars, cycleVars, readVars, alarmVars, scoreVars, saveVars,
                 relayVars, warn_max, warn_min, shown_min, extremity>>

\* Nothing is done when neither value changes, or when temperature_draw_warn
\* refuses the pair.
CheckWarn(c) ==
  LET p == pending[c] IN
  /\ p.stage = "check"
  /\ pending' = [pending EXCEPT ![c] =
                   IF \/ warn_max = p.max /\ warn_min = p.min
                      \/ p.max > Y_MAX
                      \/ p.min < Y_MIN
                   THEN NoUpdate
                   ELSE [p EXCEPT !.stage = "draw_max"]]
  /\ UNCHANGED <<busVars, cycleVars, readVars, alarmVars, scoreVars, saveVars,
                 relayVars, warn_max, warn_min, shown_max, shown_min, extremity>>

DrawWarnMax(c) ==
  /\ pending[c].stage = "draw_max"
  /\ shown_max' = pending[c].max
  /\ pending' = [pending EXCEPT ![c].stage = "draw_min"]
  /\ UNCHANGED <<busVars, cycleVars, readVars, alarmVars, scoreVars, saveVars,
                 relayVars, warn_max, warn_min, shown_min, extremity>>

DrawWarnMin(c) ==
  /\ pending[c].stage = "draw_min"
  /\ shown_min' = pending[c].min
  /\ pending' = [pending EXCEPT ![c].stage = "set_max"]
  /\ UNCHANGED <<busVars, cycleVars, readVars, alarmVars, scoreVars, saveVars,
                 relayVars, warn_max, warn_min, shown_max, extremity>>

SetWarnMax(c) ==
  /\ pending[c].stage = "set_max"
  /\ warn_max' = pending[c].max
  /\ pending' = [pending EXCEPT ![c].stage = "set_min"]
  /\ UNCHANGED <<busVars, cycleVars, readVars, alarmVars, scoreVars, saveVars,
                 relayVars, warn_min, shown_max, shown_min, extremity>>

SetWarnMin(c) ==
  /\ pending[c].stage = "set_min"
  /\ warn_min' = pending[c].min
  /\ pending' = [pending EXCEPT ![c] = NoUpdate]
  /\ UNCHANGED <<busVars, cycleVars, readVars, alarmVars, scoreVars, saveVars,
                 relayVars, warn_max, shown_max, shown_min, extremity>>

WarnStep(c) ==
  \/ CheckWarn(c) \/ DrawWarnMax(c) \/ DrawWarnMin(c)
  \/ SetWarnMax(c) \/ SetWarnMin(c)

\* reDrawMethod of the OPC UA server: vgus_init draws its own warn values.
Redraw ==
  /\ "opc" \in Callers
  /\ Idle("opc")
  /\ shown_max' = SHOWN_MAX /\ shown_min' = SHOWN_MIN
  /\ UNCHANGED <<busVars, cycleVars, readVars, alarmVars, scoreVars, saveVars,
                 relayVars, warn_max, warn_min, pending, extremity>>

Command(c) ==
  \/ \E s \in Scores : UpdateHeating(c, s) \/ UpdateCooling(c, s)
  \/ \E w \in WarnRequests : BeginWarn(c, w[1], w[2])

-----------------------------------------------------------------------------
(* Safe mode, entered and left by the user interface alone. *)

\* modbus_safe_mode: save both scores, then switch cooling and heating off.
SaveScores ==
  /\ safe = "live"
  /\ heating_save' = heating_score
  /\ cooling_save' = cooling_score
  /\ safe' = "saved"
  /\ UNCHANGED <<busVars, cycleVars, readVars, alarmVars, scoreVars,
                 relayVars, warnVars, extremity>>

ZeroCooling ==
  /\ safe = "saved"
  /\ cooling_score' = 0
  /\ safe' = "cooling_off"
  /\ UNCHANGED <<busVars, cycleVars, readVars, alarmVars, heating_score,
                 asked_heating, asked_cooling, heating_save, cooling_save,
                 relayVars, warnVars, extremity>>

ZeroHeating ==
  /\ safe = "cooling_off"
  /\ heating_score' = 0
  /\ safe' = "safe"
  /\ UNCHANGED <<busVars, cycleVars, readVars, alarmVars, cooling_score,
                 asked_heating, asked_cooling, heating_save, cooling_save,
                 relayVars, warnVars, extremity>>

\* modbus_recover_from_safe: whatever was written meanwhile is overwritten.
RecoverCooling ==
  /\ safe = "safe"
  /\ cooling_score' = cooling_save
  /\ safe' = "cooling_back"
  /\ UNCHANGED <<busVars, cycleVars, readVars, alarmVars, heating_score,
                 asked_heating, asked_cooling, heating_save, cooling_save,
                 relayVars, warnVars, extremity>>

\* Mutant: the cooling score is restored twice.
RecoverHeatingSwapped ==
  /\ safe = "cooling_back"
  /\ heating_score' = cooling_save
  /\ safe' = "live"
  /\ UNCHANGED <<busVars, cycleVars, readVars, alarmVars, cooling_score,
                 asked_heating, asked_cooling, heating_save, cooling_save,
                 relayVars, warnVars, extremity>>

RecoverHeating ==
  /\ safe = "cooling_back"
  /\ heating_score' = heating_save
  /\ safe' = "live"
  /\ UNCHANGED <<busVars, cycleVars, readVars, alarmVars, cooling_score,
                 asked_heating, asked_cooling, heating_save, cooling_save,
                 relayVars, warnVars, extremity>>

EnterSafe ==
  /\ "user" \in Callers => pending["user"] = NoUpdate
  /\ SaveScores

SafeMode ==
  /\ LatencyScreen
  /\ \/ EnterSafe \/ ZeroCooling \/ ZeroHeating
     \/ RecoverCooling \/ RecoverHeating

-----------------------------------------------------------------------------

\* A lost connection ends the process with exit(-1), and systemd starts it
\* again: the server forgets everything, the board and the screen nothing.
Restart ==
  /\ Restarts
  /\ BusReset
  /\ interval_value' = 0 /\ step' = "next"
  /\ temperature' = 0 /\ temp_sensor_failure' = 0
  /\ red' = 1 /\ start_warn' = 0 /\ breath_led' = 1
  /\ heating_score' = 0 /\ cooling_score' = 0
  /\ asked_heating' = 0 /\ asked_cooling' = 0
  /\ heating_save' = 0 /\ cooling_save' = 0 /\ safe' = "live"
  /\ relay_buf' = 0
  /\ warn_max' = WARN_MAX /\ warn_min' = WARN_MIN
  /\ shown_max' = SHOWN_MAX /\ shown_min' = SHOWN_MIN
  /\ pending' = [c \in Callers |-> NoUpdate]
  /\ extremity' = 0
  /\ UNCHANGED <<relay_out, warn_icon>>

Next ==
  \/ SendThread
  \/ SlaveAnswers
  \/ \E c \in Callers : Command(c) \/ WarnStep(c)
  \/ Redraw
  \/ SafeMode
  \/ Restart

Spec == Init /\ [][Next]_vars

\* The send thread blocks in nothing but a recv with a timeout, so it is always
\* scheduled again; a slave that answers does so in finite time.  Nothing is
\* assumed of the callers.
Fairness == WF_vars(SendThread) /\ WF_vars(SlaveAnswers)

FairSpec == Spec /\ Fairness

-----------------------------------------------------------------------------
(* Properties. *)

TypeOK ==
  /\ BusTypeOK
  /\ interval_value \in 0..5
  /\ step \in {"next", "relay_recv", "temp_recv", "alarm", "trip", "clear"}
  /\ temperature \in Nat /\ temp_sensor_failure \in 0..FAIL_MAX
  /\ warn_max \in Nat /\ warn_min \in Nat
  /\ heating_score \in 0..SCORE_MAX /\ cooling_score \in 0..SCORE_MAX
  /\ heating_save \in 0..SCORE_MAX /\ cooling_save \in 0..SCORE_MAX
  /\ asked_heating \in 0..SCORE_MAX /\ asked_cooling \in 0..SCORE_MAX
  /\ extremity \in {0, 1} /\ red \in {0, 1}
  /\ start_warn \in {0, 1} /\ breath_led \in {0, 1} /\ warn_icon \in {0, 1}
  /\ relay_buf \in RelayValues /\ relay_out \in RelayValues
  /\ shown_max \in Nat /\ shown_min \in Nat
  /\ safe \in {"live", "saved", "cooling_off", "safe", "cooling_back"}
  /\ pending \in [Callers -> [stage : Stages, max : Nat, min : Nat]]

\* The icon is off whenever no alarm is on, and in an alarm it shows the opposite
\* of what the next cycle will show: an alarm that lasts two cycles is seen, and one
\* that ends leaves no icon behind.  Only a restart does: the new process takes the
\* icon for off, and its first alarm is still to come (an alarm that shows the icon
\* makes red 0).
AlarmIcon ==
  /\ start_warn = 0 => warn_icon = 0 \/ (Restarts /\ red = 1)
  /\ start_warn = 1 => warn_icon = 1 - red

\* Cooling that is on without an emergency was asked for: Clear takes back what
\* Trip switched on.  (Holds while nobody opens the latency screen.)
CoolingAccounted == extremity = 0 => cooling_score \in {asked_cooling, 0}

\* In the build without OPC UA, safe mode is transparent: outside of it the
\* heating score is the one last asked for.
HeatingSurvivesSafeMode == safe = "live" => heating_score = asked_heating

\* The scores while the user interface is in block_me: the inductive form of
\* HeatingSurvivesSafeMode.
SafeModeKeepsHeating ==
  /\ safe \in {"live", "saved", "cooling_off"} => heating_score = asked_heating
  /\ safe # "live" => heating_save = asked_heating
  /\ safe \in {"safe", "cooling_back"} => heating_score = 0

NoWarnUpdate == \A c \in Callers : pending[c].stage = "none"

\* In the build without OPC UA, the warn values in force are the ones on the
\* screen, unless no update was accepted since the start (vgus_init draws others
\* than those in force).
WarnShown ==
  NoWarnUpdate =>
    \/ warn_max = shown_max /\ warn_min = shown_min
    \/ warn_max = WARN_MAX /\ warn_min = WARN_MIN
       /\ shown_max = SHOWN_MAX /\ shown_min = SHOWN_MIN

\* A temperature that stays at or above EXTREMITY and above warn_max has the
\* cooling at full score again and again, whatever commands and safe mode do.
EmergencyCooling ==
  <>[](temperature >= EXTREMITY /\ temperature > warn_max)
    => []<>(cooling_score = SCORE_MAX)

\* An emergency ends once the temperature stays below EXTREMITY and within
\* warn_max.
EmergencyEnds ==
  <>[](temperature < EXTREMITY /\ temperature <= warn_max) => <>[](extremity = 0)

\* A temperature that stays out of range keeps the icon blinking; one that
\* stays in range leaves it off for good.
AlarmBlinks ==
  /\ <>[]OutOfRange => []<>(warn_icon = 1) /\ []<>(warn_icon = 0)
  /\ <>[]~OutOfRange => <>[](warn_icon = 0)

\* Heating that stays switched off (score 0) ends with the heating relay open
\* (usage text of client.c: heating -- 0: off).
HeatingOff ==
  <>[](heating_score = 0) => <>[](relay_out \notin {16, 20})

\* Cooling nobody asked for, with no emergency and outside safe mode, is off
\* (usage text of client.c: cooling -- 0: off).
CoolingOff ==
  (asked_cooling = 0 /\ extremity = 0 /\ safe = "live") => cooling_score = 0

\* On a bus that loses nothing, the output follows the scores as Actuator
\* promises: it only ever takes a value the scores ask for at that moment, and
\* a lasting request is eventually driven.
Wanted == INSTANCE Actuator WITH
            Outputs <- RelayValues, want <- RelayValue, out <- relay_out

FollowsScores == Wanted!Spec
=============================================================================
