---------------------------- MODULE ModbusProofs ----------------------------
(***************************************************************************)
(* Theorems about Modbus, and the lemmas about Bus485 they rest on.        *)
(***************************************************************************)
EXTENDS Modbus, SequenceTheorems, TLAPS

-----------------------------------------------------------------------------
(* The bus. *)

\* Ageing the requests under way keeps them requests.
LEMMA AgedType ==
  ASSUME line \in Seq(Request)
  PROVE  /\ Aged \in Seq(Request)
         /\ Len(Aged) = Len(line)
         /\ \A i \in 1..Len(line) : Aged[i] = [line[i] EXCEPT !.age = line[i].age + 1]
<1> DEFINE n == Len(line)
<1>1. n \in Nat /\ DOMAIN line = 1..n
  OBVIOUS
<1>2. \A i \in 1..n : line[i] \in Request
  OBVIOUS
<1>3. \A i \in 1..n : [line[i] EXCEPT !.age = line[i].age + 1] \in Request
  BY <1>2 DEF Request
<1>4. Aged = [i \in 1..n |-> [line[i] EXCEPT !.age = line[i].age + 1]]
  BY <1>1 DEF Aged
<1>5. Aged \in [1..n -> Request]
  BY <1>3, <1>4
<1> QED
  BY <1>1, <1>4, <1>5

\* A request that is sent keeps the bus well typed.
LEMMA SendType ==
  ASSUME BusTypeOK, NEW kind \in Kinds, NEW val \in Nat, NEW answered,
         Send(kind, val, answered)
  PROVE  BusTypeOK'
<1>1. Aged \in Seq(Request) /\ Len(Aged) = Len(line)
  BY AgedType DEF BusTypeOK
<1>2. [kind |-> kind, val |-> val, age |-> 0] \in Request
  BY DEF Request
<1>3. line' \in Seq(Request) /\ Len(line') >= Len(line)
  BY <1>1, <1>2 DEF Send
<1> QED
  BY <1>3 DEF BusTypeOK, Send

\* A recv that returns bytes keeps the bus well typed.
LEMMA TakeType ==
  ASSUME BusTypeOK, TakeReplies
  PROVE  /\ line' \in Seq(Request)
         /\ ready' = 0
         /\ exchange' = "none"
         /\ Len(line') = Len(line) - ready
         /\ \A i \in 1..Len(line') : line'[i] = line[i + ready]
<1>1. Len(line) \in Nat /\ ready \in 1..Len(line)
  BY DEF BusTypeOK, TakeReplies
<1>2. line' = SubSeq(line, ready + 1, Len(line))
  BY DEF TakeReplies
<1> QED
  BY <1>1, <1>2, SubSeqProperties DEF BusTypeOK, TakeReplies

\* What LineBounded says of one request under way.
LEMMA Older ==
  ASSUME BusTypeOK, LineBounded, NEW i \in DOMAIN line
  PROVE  /\ line[i].age \in Nat /\ i \in Nat /\ late \in Nat
         /\ line[i].age + i <= late + 1
<1>1. line[i] \in Request /\ i \in Nat /\ late \in Nat
  BY DEF BusTypeOK
<1>2. line[i].age \in Nat
  BY <1>1 DEF Request
<1>3. line[i].age + i <= late + (IF exchange = "none" THEN 0 ELSE 1)
  BY DEF LineBounded
<1> QED
  BY <1>1, <1>2, <1>3

\* The other bus steps keep the bus well typed too.
LEMMA BusStepType ==
  ASSUME BusTypeOK, RecvReading \/ RecvUnused \/ RecvTimeout \/ Answer \/ BusReset
  PROVE  BusTypeOK'
<1>1. CASE RecvReading
  <2>1. TakeReplies /\ line[1] \in Request
    BY <1>1 DEF RecvReading, Accepted, BusTypeOK
  <2>2. line[1].age \in Nat
    BY <2>1 DEF Request
  <2> QED
    BY <1>1, <2>1, <2>2, TakeType DEF BusTypeOK, RecvReading
<1>2. CASE RecvUnused
  BY <1>2, TakeType DEF BusTypeOK, RecvUnused
<1>3. CASE RecvTimeout
  BY <1>3 DEF BusTypeOK, RecvTimeout
<1>4. CASE Answer
  BY <1>4 DEF BusTypeOK, Answer
<1>5. CASE BusReset
  BY <1>5 DEF BusTypeOK, BusReset
<1> QED
  BY <1>1, <1>2, <1>3, <1>4, <1>5

\* The age of a request that is sent is that of a new one; all others grow older
\* by one, which the open exchange makes room for.
LEMMA SendBounded ==
  ASSUME BusTypeOK, LineBounded, NEW kind \in Kinds, NEW val \in Nat, NEW answered,
         Send(kind, val, answered)
  PROVE  LineBounded'
<1> DEFINE new == [kind |-> kind, val |-> val, age |-> 0]
           n   == Len(line)
<1>1. n \in Nat /\ late \in Nat /\ late' = late /\ exchange = "none" /\ exchange' # "none"
  BY DEF BusTypeOK, Send, Kinds
<1>2. /\ Aged \in Seq(Request) /\ Len(Aged) = n
      /\ \A i \in 1..n : Aged[i] = [line[i] EXCEPT !.age = line[i].age + 1]
  BY AgedType DEF BusTypeOK
<1>3. ASSUME NEW i \in 1..n PROVE line[i] \in Request /\ line[i].age + i <= late
  BY <1>1 DEF BusTypeOK, LineBounded
<1>4. ASSUME NEW i \in 1..n PROVE Aged[i].age + i <= late + 1
  <2>1. Aged[i].age = line[i].age + 1
    BY <1>2, <1>3 DEF Request
  <2>2. line[i].age \in Nat
    BY <1>3 DEF Request
  <2> QED
    BY <1>1, <1>3, <2>1, <2>2
<1>5. n <= late
  <2>1. CASE n = 0
    BY <2>1, <1>1
  <2>2. CASE n # 0
    <3>1. n \in 1..n
      BY <2>2, <1>1
    <3>2. line[n].age \in Nat /\ line[n].age + n <= late
      BY <3>1, <1>3 DEF Request
    <3> QED
      BY <3>2, <1>1
  <2> QED
    BY <2>1, <2>2
<1>6. CASE line' = Aged
  BY <1>1, <1>2, <1>4, <1>6 DEF LineBounded
<1>7. CASE line' = Append(Aged, new)
  <2>1. Len(line') = n + 1 /\ line'[n + 1] = new /\ \A i \in 1..n : line'[i] = Aged[i]
    BY <1>1, <1>2, <1>7
  <2>2. DOMAIN line' = 1..(n + 1)
    BY <1>1, <1>2, <1>7
  <2>3. ASSUME NEW i \in 1..(n + 1) PROVE line'[i].age + i <= late + 1
    <3>1. CASE i = n + 1
      BY <3>1, <2>1, <1>1, <1>5
    <3>2. CASE i \in 1..n
      BY <3>2, <2>1, <1>4
    <3> QED
      BY <3>1, <3>2, <1>1
  <2> QED
    BY <1>1, <2>2, <2>3 DEF LineBounded
<1> QED
  BY <1>6, <1>7 DEF Send

\* What recv returns leaves the rest of the line with younger requests only.
LEMMA TakeBounded ==
  ASSUME BusTypeOK, LineBounded, TakeReplies, late' = late
  PROVE  LineBounded'
<1>1. /\ ready \in 1..Len(line) /\ Len(line) \in Nat /\ late \in Nat
      /\ line' \in Seq(Request) /\ exchange' = "none"
      /\ Len(line') = Len(line) - ready
      /\ \A i \in 1..Len(line') : line'[i] = line[i + ready]
  BY TakeType DEF BusTypeOK, TakeReplies
<1>2. ASSUME NEW i \in 1..Len(line') PROVE line'[i].age + i <= late
  <2>1. i + ready \in 1..Len(line) /\ line'[i] = line[i + ready]
    BY <1>1
  <2>2. i + ready \in DOMAIN line
    BY <2>1 DEF BusTypeOK
  <2>3. line[i + ready].age \in Nat /\ line[i + ready].age + (i + ready) <= late + 1
    BY <2>2, Older
  <2> QED
    BY <1>1, <2>1, <2>3
<1>3. DOMAIN line' = 1..Len(line')
  BY <1>1
<1> QED
  BY <1>1, <1>2, <1>3 DEF LineBounded

\* Every step of the bus keeps the bounds on the age of what is under way and of
\* the reading in use.
LEMMA BusStepBounded ==
  ASSUME BusTypeOK, LineBounded, LagBounded,
         RecvReading \/ RecvUnused \/ RecvTimeout \/ Answer \/ BusReset
  PROVE  LineBounded' /\ LagBounded'
<1>1. CASE RecvReading
  <2>1. LineBounded'
    BY <1>1, TakeBounded DEF RecvReading
  <2>2. 1 \in DOMAIN line
    BY <1>1 DEF RecvReading, Accepted, BusTypeOK
  <2>3. lag' <= late'
    BY <1>1, <2>2, Older DEF RecvReading
  <2> QED
    BY <2>1, <2>3 DEF LagBounded
<1>2. CASE RecvUnused
  BY <1>2, TakeBounded DEF RecvUnused, LagBounded
<1>3. CASE RecvTimeout
  <2>1. ASSUME NEW i \in DOMAIN line PROVE line'[i].age + i <= late' + 0
    <3>1. line # <<>> /\ late' = late + 1 /\ line' = line
      BY <2>1, <1>3 DEF RecvTimeout
    <3> QED
      BY <3>1, Older
  <2>2. line' = line /\ exchange' = "none" /\ lag' = lag /\ late' \in {late, late + 1}
    BY <1>3 DEF RecvTimeout
  <2> QED
    BY <2>1, <2>2 DEF LineBounded, LagBounded, BusTypeOK
<1>4. CASE Answer
  BY <1>4 DEF Answer, LineBounded, LagBounded
<1>5. CASE BusReset
  BY <1>5 DEF BusReset, LineBounded, LagBounded
<1> QED
  BY <1>1, <1>2, <1>3, <1>4, <1>5

-----------------------------------------------------------------------------
(* Types. *)

LEMMA RelayValueType == TypeOK => RelayValue \in RelayValues
BY DEF TypeOK, RelayValue, RelayValues

LEMMA LeastType ==
  ASSUME NEW score \in Nat
  PROVE  Least(score, SCORE_MAX) \in 0..SCORE_MAX
BY ModbusAssumption DEF Least

LEMMA InitType == Init => TypeOK
BY ModbusAssumption
   DEF Init, BusInit, TypeOK, BusTypeOK, Kinds, NoUpdate, Stages, RelayValues

\* The steps of the send thread.
LEMMA SendThreadType ==
  ASSUME TypeOK, SendThread
  PROVE  TypeOK'
<1> USE ModbusAssumption
<1>1. CASE Tick
  BY <1>1 DEF Tick, TypeOK, BusTypeOK, busVars, readVars, alarmVars, scoreVars,
              saveVars, relayVars, warnVars
<1>2. CASE KeepRelay
  BY <1>2 DEF KeepRelay, TypeOK, BusTypeOK, busVars, readVars, alarmVars, scoreVars,
              saveVars, relayVars, warnVars
<1>3. ASSUME NEW acts \in BOOLEAN, NEW answered \in BOOLEAN, SendRelay(acts, answered)
      PROVE  TypeOK'
  <2>1. BusTypeOK'
    BY <1>3, SendType DEF SendRelay, TypeOK, Kinds
  <2>2. RelayValue \in RelayValues
    BY RelayValueType
  <2> QED
    BY <1>3, <2>1, <2>2 DEF SendRelay, TypeOK, readVars, alarmVars, scoreVars,
                            saveVars, warnVars
<1>4. CASE RecvRelay
  <2>1. BusTypeOK'
    BY <1>4, BusStepType DEF RecvRelay, TypeOK
  <2> QED
    BY <1>4, <2>1 DEF RecvRelay, TypeOK, readVars, alarmVars, scoreVars,
                      saveVars, relayVars, warnVars
<1>5. ASSUME NEW val \in Readings, NEW answered \in BOOLEAN, AskTemperature(val, answered)
      PROVE  TypeOK'
  <2>1. BusTypeOK'
    BY <1>5, SendType DEF AskTemperature, TypeOK, Kinds
  <2> QED
    BY <1>5, <2>1 DEF AskTemperature, TypeOK, readVars, alarmVars, scoreVars,
                      saveVars, relayVars, warnVars
<1>6. CASE RecvTemperature
  <2>1. BusTypeOK'
    BY <1>6, BusStepType DEF RecvTemperature, TypeOK
  <2>2. temperature' \in Nat
    <3>1. line[1] \in Request
      BY <1>6 DEF RecvTemperature, RecvReading, Accepted, TypeOK, BusTypeOK
    <3> QED
      BY <1>6, <3>1 DEF RecvTemperature, Request
  <2> QED
    BY <1>6, <2>1, <2>2 DEF RecvTemperature, TypeOK, alarmVars, scoreVars,
                            saveVars, relayVars, warnVars
<1>7. CASE MissTemperature
  <2>1. BusTypeOK'
    BY <1>7, BusStepType DEF MissTemperature, TypeOK
  <2>2. temp_sensor_failure' \in 0..FAIL_MAX
    BY <1>7 DEF MissTemperature, TypeOK
  <2> QED
    BY <1>7, <2>1, <2>2 DEF MissTemperature, TypeOK, alarmVars, scoreVars,
                            saveVars, relayVars, warnVars
<1>8. CASE Alarm
  BY <1>8 DEF Alarm, TypeOK, BusTypeOK, busVars, readVars, scoreVars,
              saveVars, relayVars, warnVars
<1>9. CASE Trip
  BY <1>9 DEF Trip, TypeOK, BusTypeOK, busVars, readVars, alarmVars,
              saveVars, relayVars, warnVars
<1>10. CASE Clear
  BY <1>10 DEF Clear, TypeOK, BusTypeOK, busVars, readVars, alarmVars,
               saveVars, relayVars, warnVars
<1> QED
  BY <1>1, <1>2, <1>3, <1>4, <1>5, <1>6, <1>7, <1>8, <1>9, <1>10 DEF SendThread

Update == [stage : Stages, max : Nat, min : Nat]

\* A step that writes warn values only needs to type those.
LEMMA WarnFrame ==
  ASSUME TypeOK,
         UNCHANGED <<busVars, cycleVars, readVars, alarmVars, scoreVars, saveVars,
                     relayVars, extremity>>,
         warn_max' \in Nat, warn_min' \in Nat, shown_max' \in Nat, shown_min' \in Nat,
         pending' \in [Callers -> Update]
  PROVE  TypeOK'
BY DEF TypeOK, BusTypeOK, Update, busVars, cycleVars, readVars, alarmVars, scoreVars,
   saveVars, relayVars

\* The steps of one modbus_update_warn_vaules.
LEMMA WarnStepType ==
  ASSUME TypeOK, NEW c \in Callers, WarnStep(c)
  PROVE  TypeOK'
<1>1. pending \in [Callers -> Update] /\ pending[c] \in Update
  BY DEF TypeOK, Update
<1>2. pending[c].max \in Nat /\ pending[c].min \in Nat
  BY <1>1 DEF Update
<1>3. NoUpdate \in Update
  BY DEF NoUpdate, Stages, Update
<1>4. ASSUME NEW st \in Stages PROVE [pending[c] EXCEPT !.stage = st] \in Update
  BY <1>1 DEF Update
<1>5. /\ "draw_max" \in Stages /\ "draw_min" \in Stages
      /\ "set_max" \in Stages /\ "set_min" \in Stages
  BY DEF Stages
<1>6. ASSUME NEW p \in Update PROVE [pending EXCEPT ![c] = p] \in [Callers -> Update]
  BY <1>1
<1>7. ASSUME NEW st \in Stages
      PROVE  [pending EXCEPT ![c].stage = st] \in [Callers -> Update]
  BY <1>1, <1>4, <1>6
<1>8. warn_max \in Nat /\ warn_min \in Nat /\ shown_max \in Nat /\ shown_min \in Nat
  BY DEF TypeOK
<1>9. CASE CheckWarn(c)
  <2>1. pending' \in [Callers -> Update]
    BY <1>3, <1>4, <1>5, <1>6, <1>9 DEF CheckWarn
  <2> QED
    BY <1>8, <1>9, <2>1, WarnFrame DEF CheckWarn
<1>10. CASE DrawWarnMax(c)
  BY <1>2, <1>5, <1>7, <1>8, <1>10, WarnFrame DEF DrawWarnMax
<1>11. CASE DrawWarnMin(c)
  BY <1>2, <1>5, <1>7, <1>8, <1>11, WarnFrame DEF DrawWarnMin
<1>12. CASE SetWarnMax(c)
  BY <1>2, <1>5, <1>7, <1>8, <1>12, WarnFrame DEF SetWarnMax
<1>13. CASE SetWarnMin(c)
  BY <1>2, <1>3, <1>6, <1>8, <1>13, WarnFrame DEF SetWarnMin
<1> QED
  BY <1>9, <1>10, <1>11, <1>12, <1>13 DEF WarnStep

\* The steps that issue commands.
LEMMA CommandType ==
  ASSUME TypeOK, NEW c \in Callers, Command(c)
  PROVE  TypeOK'
<1>1. ASSUME NEW s \in Scores, UpdateHeating(c, s) PROVE TypeOK'
  <2>1. Least(s, SCORE_MAX) \in 0..SCORE_MAX
    BY LeastType, ModbusAssumption
  <2> QED
    BY <1>1, <2>1 DEF UpdateHeating, TypeOK, BusTypeOK, busVars, cycleVars, readVars,
       alarmVars, saveVars, relayVars, warnVars
<1>2. ASSUME NEW s \in Scores, UpdateCooling(c, s) PROVE TypeOK'
  <2>1. Least(s, SCORE_MAX) \in 0..SCORE_MAX
    BY LeastType, ModbusAssumption
  <2> QED
    BY <1>2, <2>1 DEF UpdateCooling, TypeOK, BusTypeOK, busVars, cycleVars, readVars,
       alarmVars, saveVars, relayVars, warnVars
<1>3. ASSUME NEW w \in WarnRequests, BeginWarn(c, w[1], w[2]) PROVE TypeOK'
  <2>1. w[1] \in Nat /\ w[2] \in Nat
    BY ModbusAssumption
  <2>2. warn_max \in Nat /\ warn_min \in Nat /\ shown_max \in Nat /\ shown_min \in Nat
    BY DEF TypeOK
  <2>3. [stage |-> "check", max |-> IF w[1] = 0 THEN warn_max ELSE w[1],
         min |-> IF w[2] = 0 THEN warn_min ELSE w[2]] \in Update
    BY <2>1, <2>2 DEF Stages, Update
  <2>4. pending \in [Callers -> Update]
    BY DEF TypeOK, Update
  <2>5. pending' \in [Callers -> Update]
    BY <1>3, <2>3, <2>4 DEF BeginWarn
  <2> QED
    BY <1>3, <2>2, <2>5, WarnFrame DEF BeginWarn
<1> QED
  BY <1>1, <1>2, <1>3 DEF Command

\* The steps that enter and leave safe mode.
LEMMA SafeModeType ==
  ASSUME TypeOK, SafeMode
  PROVE  TypeOK'
<1> USE ModbusAssumption
        DEF TypeOK, BusTypeOK, busVars, cycleVars, readVars, alarmVars, scoreVars,
            relayVars, warnVars
<1>1. CASE EnterSafe
  BY <1>1 DEF EnterSafe, SaveScores
<1>2. CASE ZeroCooling
  BY <1>2 DEF ZeroCooling
<1>3. CASE ZeroHeating
  BY <1>3 DEF ZeroHeating
<1>4. CASE RecoverCooling
  BY <1>4 DEF RecoverCooling
<1>5. CASE RecoverHeating
  BY <1>5 DEF RecoverHeating
<1> QED
  BY <1>1, <1>2, <1>3, <1>4, <1>5 DEF SafeMode

LEMMA NextType ==
  ASSUME TypeOK, [Next]_vars
  PROVE  TypeOK'
<1> USE ModbusAssumption
<1>1. CASE SendThread
  BY <1>1, SendThreadType
<1>2. CASE SlaveAnswers
  <2>1. BusTypeOK'
    BY <1>2, BusStepType DEF SlaveAnswers, TypeOK
  <2> QED
    BY <1>2, <2>1 DEF SlaveAnswers, TypeOK, cycleVars, readVars, alarmVars, scoreVars,
       saveVars, relayVars, warnVars
<1>3. ASSUME NEW c \in Callers, Command(c) \/ WarnStep(c) PROVE TypeOK'
  BY <1>3, CommandType, WarnStepType
<1>4. CASE Redraw
  BY <1>4 DEF Redraw, TypeOK, BusTypeOK, busVars, cycleVars, readVars, alarmVars,
     scoreVars, saveVars, relayVars
<1>5. CASE SafeMode
  BY <1>5, SafeModeType
<1>6. CASE Restart
  <2>1. BusTypeOK'
    BY <1>6, BusStepType DEF Restart, TypeOK
  <2>2. pending' \in [Callers -> [stage : Stages, max : Nat, min : Nat]]
    BY <1>6 DEF Restart, NoUpdate, Stages
  <2> QED
    BY <1>6, <2>1, <2>2 DEF Restart, TypeOK, RelayValues
<1>7. CASE UNCHANGED vars
  BY <1>7 DEF vars, TypeOK, BusTypeOK, busVars, cycleVars, readVars, alarmVars,
     scoreVars, saveVars, relayVars, warnVars
<1> QED
  BY <1>1, <1>2, <1>3, <1>4, <1>5, <1>6, <1>7 DEF Next

\* Every variable keeps its type; in particular a score never exceeds SCORE_MAX
\* and temp_sensor_failure never exceeds its bound (modbus_update_heating_score,
\* modbus_update_cooling_score, modbus_callback).
THEOREM TypeCorrect == Spec => []TypeOK
<1>1. Init => TypeOK
  BY InitType
<1>2. TypeOK /\ [Next]_vars => TypeOK'
  BY NextType
<1> QED
  BY <1>1, <1>2, PTL DEF Spec

-----------------------------------------------------------------------------
(* Late answers. *)

\* What the threads do besides exchanges leaves the bus alone.
LEMMA BusStep ==
  ASSUME [Next]_vars
  PROVE  \/ UNCHANGED busVars
         \/ RecvReading \/ RecvUnused \/ RecvTimeout \/ Answer \/ BusReset
         \/ \E val \in Readings, answered \in BOOLEAN : Send("temperature", val, answered)
         \/ \E answered \in BOOLEAN : Send("relay", 0, answered)
<1>1. CASE SendThread
  BY <1>1 DEF SendThread, Tick, KeepRelay, SendRelay, RecvRelay, AskTemperature,
     RecvTemperature, MissTemperature, Alarm, Trip, Clear
<1>2. CASE SlaveAnswers
  BY <1>2 DEF SlaveAnswers
<1>3. ASSUME NEW c \in Callers, Command(c) \/ WarnStep(c) PROVE UNCHANGED busVars
  BY <1>3 DEF Command, UpdateHeating, UpdateCooling, BeginWarn, WarnStep, CheckWarn,
     DrawWarnMax, DrawWarnMin, SetWarnMax, SetWarnMin
<1>4. CASE Redraw
  BY <1>4 DEF Redraw
<1>5. CASE SafeMode
  BY <1>5 DEF SafeMode, EnterSafe, SaveScores, ZeroCooling, ZeroHeating,
     RecoverCooling, RecoverHeating
<1>6. CASE Restart
  BY <1>6 DEF Restart
<1>7. CASE UNCHANGED vars
  BY <1>7 DEF vars
<1> QED
  BY <1>1, <1>2, <1>3, <1>4, <1>5, <1>6, <1>7 DEF Next

\* The reading in use is at most as many requests old as there were timeouts
\* that left an answer behind (get_temperature, send_and_recv_data).
THEOREM LagBound == Spec => []LagBounded
<1> DEFINE Inv == TypeOK /\ LineBounded /\ LagBounded
<1>1. Init => Inv
  BY InitType DEF Init, BusInit, LineBounded, LagBounded
<1>2. Inv /\ [Next]_vars => Inv'
  <2> SUFFICES ASSUME Inv, [Next]_vars PROVE LineBounded' /\ LagBounded'
    BY NextType
  <2>1. BusTypeOK
    BY DEF TypeOK
  <2>2. CASE UNCHANGED busVars
    BY <2>2 DEF busVars, LineBounded, LagBounded
  <2>3. CASE RecvReading \/ RecvUnused \/ RecvTimeout \/ Answer \/ BusReset
    BY <2>1, <2>3, BusStepBounded
  <2>4. ASSUME NEW val \in Readings, NEW answered \in BOOLEAN,
               Send("temperature", val, answered)
        PROVE  LineBounded' /\ LagBounded'
    BY <2>1, <2>4, SendBounded, ModbusAssumption DEF Send, LagBounded, Kinds
  <2>5. ASSUME NEW answered \in BOOLEAN, Send("relay", 0, answered)
        PROVE  LineBounded' /\ LagBounded'
    BY <2>1, <2>5, SendBounded DEF Send, LagBounded, Kinds
  <2> QED
    BY <2>2, <2>3, <2>4, <2>5, BusStep
<1>3. Inv => LagBounded
  OBVIOUS
<1> QED
  BY <1>1, <1>2, <1>3, PTL DEF Spec

-----------------------------------------------------------------------------
(* The alarm. *)

\* Only modbus_callback and a restart touch the alarm.
LEMMA AlarmStep ==
  ASSUME [Next]_vars
  PROVE  UNCHANGED alarmVars \/ Alarm \/ Restart
<1>1. CASE SendThread
  BY <1>1 DEF SendThread, Tick, KeepRelay, SendRelay, RecvRelay, AskTemperature,
     RecvTemperature, MissTemperature, Trip, Clear
<1>2. CASE SlaveAnswers
  BY <1>2 DEF SlaveAnswers
<1>3. ASSUME NEW c \in Callers, Command(c) \/ WarnStep(c) PROVE UNCHANGED alarmVars
  BY <1>3 DEF Command, UpdateHeating, UpdateCooling, BeginWarn, WarnStep, CheckWarn,
     DrawWarnMax, DrawWarnMin, SetWarnMax, SetWarnMin
<1>4. CASE Redraw
  BY <1>4 DEF Redraw
<1>5. CASE SafeMode
  BY <1>5 DEF SafeMode, EnterSafe, SaveScores, ZeroCooling, ZeroHeating,
     RecoverCooling, RecoverHeating
<1>6. CASE UNCHANGED vars
  BY <1>6 DEF vars
<1> QED
  BY <1>1, <1>2, <1>3, <1>4, <1>5, <1>6 DEF Next

\* The icon on the screen agrees with start_warn and red, but for one that a
\* restart has left (modbus_callback, set_warn_icon).
THEOREM IconFollowsAlarm == Spec => []AlarmIcon
<1> DEFINE Inv == TypeOK /\ AlarmIcon
<1>1. Init => Inv
  BY InitType DEF Init, AlarmIcon
<1>2. Inv /\ [Next]_vars => Inv'
  <2> SUFFICES ASSUME Inv, [Next]_vars PROVE AlarmIcon'
    BY NextType
  <2>1. CASE UNCHANGED alarmVars
    BY <2>1 DEF alarmVars, AlarmIcon
  <2>2. CASE Alarm
    BY <2>2 DEF Alarm, AlarmIcon, TypeOK
  <2>3. CASE Restart
    BY <2>3 DEF Restart, AlarmIcon
  <2> QED
    BY <2>1, <2>2, <2>3, AlarmStep
<1>3. Inv => AlarmIcon
  OBVIOUS
<1> QED
  BY <1>1, <1>2, <1>3, PTL DEF Spec

-----------------------------------------------------------------------------
(* The scores. *)

\* What may change the cooling score while the latency screen stays closed.
LEMMA CoolingStep ==
  ASSUME [Next]_vars, ~LatencyScreen
  PROVE  \/ UNCHANGED <<extremity, cooling_score, asked_cooling>>
         \/ Trip \/ Clear \/ Restart
         \/ \E c \in Callers, s \in Scores : UpdateCooling(c, s)
<1>1. CASE SendThread
  BY <1>1 DEF SendThread, Tick, KeepRelay, SendRelay, RecvRelay, AskTemperature,
     RecvTemperature, MissTemperature, Alarm, scoreVars
<1>2. CASE SlaveAnswers
  BY <1>2 DEF SlaveAnswers, scoreVars
<1>3. ASSUME NEW c \in Callers, Command(c) \/ WarnStep(c)
      PROVE  \/ UNCHANGED <<extremity, cooling_score, asked_cooling>>
             \/ \E s \in Scores : UpdateCooling(c, s)
  BY <1>3 DEF Command, UpdateHeating, BeginWarn, WarnStep, CheckWarn,
     DrawWarnMax, DrawWarnMin, SetWarnMax, SetWarnMin, scoreVars
<1>4. CASE Redraw
  BY <1>4 DEF Redraw, scoreVars
<1>5. ~SafeMode
  BY DEF SafeMode
<1>6. CASE UNCHANGED vars
  BY <1>6 DEF vars, scoreVars
<1> QED
  BY <1>1, <1>2, <1>3, <1>4, <1>5, <1>6 DEF Next

\* While nobody opens the latency screen, no cooling is left behind by an
\* emergency: without one, the score is what was asked for, or zero
\* (modbus_callback's Trip and Clear, modbus_update_cooling_score).
THEOREM CoolingIsAccounted ==
  ASSUME ~LatencyScreen
  PROVE  Spec => []CoolingAccounted
<1>1. Init => CoolingAccounted
  BY DEF Init, CoolingAccounted
<1>2. CoolingAccounted /\ [Next]_vars => CoolingAccounted'
  <2> SUFFICES ASSUME CoolingAccounted, [Next]_vars PROVE CoolingAccounted'
    OBVIOUS
  <2>1. CASE UNCHANGED <<extremity, cooling_score, asked_cooling>>
    BY <2>1 DEF CoolingAccounted
  <2>2. CASE Trip
    BY <2>2 DEF Trip, CoolingAccounted
  <2>3. CASE Clear
    BY <2>3 DEF Clear, CoolingAccounted
  <2>4. ASSUME NEW c \in Callers, NEW s \in Scores, UpdateCooling(c, s)
        PROVE  CoolingAccounted'
    BY <2>4 DEF UpdateCooling, CoolingAccounted
  <2>5. CASE Restart
    BY <2>5 DEF Restart, CoolingAccounted
  <2> QED
    BY <2>1, <2>2, <2>3, <2>4, <2>5, CoolingStep
<1> QED
  BY <1>1, <1>2, PTL DEF Spec

\* What may change the heating score, or the place of the user interface in
\* block_me, in the build without OPC UA.
LEMMA HeatingStep ==
  ASSUME [Next]_vars, "opc" \notin Callers
  PROVE  \/ UNCHANGED <<heating_score, asked_heating, heating_save, safe>>
         \/ SafeMode \/ Restart
         \/ \E s \in Scores : safe = "live" /\ UpdateHeating("user", s)
<1>1. CASE SendThread
  BY <1>1 DEF SendThread, Tick, KeepRelay, SendRelay, RecvRelay, AskTemperature,
     RecvTemperature, MissTemperature, Alarm, Trip, Clear, scoreVars, saveVars
<1>2. CASE SlaveAnswers
  BY <1>2 DEF SlaveAnswers, scoreVars, saveVars
<1>3. ASSUME NEW c \in Callers, Command(c) \/ WarnStep(c)
      PROVE  \/ UNCHANGED <<heating_score, asked_heating, heating_save, safe>>
             \/ \E s \in Scores : safe = "live" /\ UpdateHeating("user", s)
  <2>1. c = "user"
    BY ModbusAssumption
  <2>2. ASSUME NEW s \in Scores, UpdateHeating(c, s)
        PROVE  safe = "live" /\ UpdateHeating("user", s)
    BY <2>1, <2>2 DEF UpdateHeating, Idle
  <2> QED
    BY <1>3, <2>2 DEF Command, UpdateCooling, BeginWarn, WarnStep, CheckWarn,
       DrawWarnMax, DrawWarnMin, SetWarnMax, SetWarnMin, scoreVars, saveVars
<1>4. CASE Redraw
  BY <1>4 DEF Redraw, scoreVars, saveVars
<1>5. CASE UNCHANGED vars
  BY <1>5 DEF vars, scoreVars, saveVars
<1> QED
  BY <1>1, <1>2, <1>3, <1>4, <1>5 DEF Next

\* Without OPC UA, safe mode is transparent to heating: outside of it the score
\* in force is the one last asked for, however often the latency screen was
\* opened (modbus_safe_mode, modbus_recover_from_safe, block_me).
THEOREM HeatingSurvives ==
  ASSUME "opc" \notin Callers
  PROVE  Spec => []HeatingSurvivesSafeMode
<1>1. Init => SafeModeKeepsHeating
  BY DEF Init, SafeModeKeepsHeating
<1>2. SafeModeKeepsHeating /\ [Next]_vars => SafeModeKeepsHeating'
  <2> SUFFICES ASSUME SafeModeKeepsHeating, [Next]_vars PROVE SafeModeKeepsHeating'
    OBVIOUS
  <2> USE DEF SafeModeKeepsHeating
  <2>1. CASE UNCHANGED <<heating_score, asked_heating, heating_save, safe>>
    BY <2>1
  <2>2. CASE SafeMode
    BY <2>2 DEF SafeMode, EnterSafe, SaveScores, ZeroCooling, ZeroHeating,
       RecoverCooling, RecoverHeating, scoreVars
  <2>3. CASE Restart
    BY <2>3 DEF Restart
  <2>4. ASSUME NEW s \in Scores, safe = "live", UpdateHeating("user", s)
        PROVE  SafeModeKeepsHeating'
    BY <2>4 DEF UpdateHeating, saveVars
  <2> QED
    BY <2>1, <2>2, <2>3, <2>4, HeatingStep
<1>3. SafeModeKeepsHeating => HeatingSurvivesSafeMode
  BY DEF SafeModeKeepsHeating, HeatingSurvivesSafeMode
<1> QED
  BY <1>1, <1>2, <1>3, PTL DEF Spec

-----------------------------------------------------------------------------
(* The warn values. *)

\* What may change the warn values, or what the screen shows of them, in the
\* build without OPC UA.
LEMMA WarnChange ==
  ASSUME [Next]_vars, "opc" \notin Callers
  PROVE  \/ UNCHANGED warnVars
         \/ Restart
         \/ WarnStep("user") /\ "user" \in Callers
         \/ \E w \in WarnRequests : BeginWarn("user", w[1], w[2]) /\ "user" \in Callers
<1>1. CASE SendThread
  BY <1>1 DEF SendThread, Tick, KeepRelay, SendRelay, RecvRelay, AskTemperature,
     RecvTemperature, MissTemperature, Alarm, Trip, Clear
<1>2. CASE SlaveAnswers
  BY <1>2 DEF SlaveAnswers
<1>3. ASSUME NEW c \in Callers, Command(c) \/ WarnStep(c)
      PROVE  \/ UNCHANGED warnVars
             \/ WarnStep("user") /\ "user" \in Callers
             \/ \E w \in WarnRequests : BeginWarn("user", w[1], w[2]) /\ "user" \in Callers
  <2>1. c = "user"
    BY ModbusAssumption
  <2> QED
    BY <1>3, <2>1 DEF Command, UpdateHeating, UpdateCooling
<1>4. ~Redraw
  BY DEF Redraw
<1>5. CASE SafeMode
  BY <1>5 DEF SafeMode, EnterSafe, SaveScores, ZeroCooling, ZeroHeating,
     RecoverCooling, RecoverHeating
<1>6. CASE UNCHANGED vars
  BY <1>6 DEF vars
<1> QED
  BY <1>1, <1>2, <1>3, <1>4, <1>5, <1>6 DEF Next

\* The values in force are those on the screen, or both are the first ones.
Agree ==
  \/ warn_max = shown_max /\ warn_min = shown_min
  \/ warn_max = WARN_MAX /\ warn_min = WARN_MIN
     /\ shown_max = SHOWN_MAX /\ shown_min = SHOWN_MIN

\* How far one modbus_update_warn_vaules has come: the inductive form of WarnShown.
WarnProgress ==
  /\ (\A c \in Callers : pending[c].stage \in {"none", "check", "draw_max"}) => Agree
  /\ \A c \in Callers :
       LET p == pending[c] IN
       /\ p.stage \in {"draw_min", "set_max", "set_min"} => shown_max = p.max
       /\ p.stage \in {"set_max", "set_min"} => shown_min = p.min
       /\ p.stage = "set_min" => warn_max = p.max

\* Without OPC UA the values in force are the ones on the screen whenever no
\* update is under way, except before the first accepted one, as vgus_init draws
\* others (modbus_update_warn_vaules, temperature_draw_warn, vgus_init).
THEOREM WarnIsShown ==
  ASSUME "opc" \notin Callers
  PROVE  Spec => []WarnShown
<1> DEFINE Inv == TypeOK /\ WarnProgress
<1>1. Init => Inv
  <2> SUFFICES ASSUME Init PROVE WarnProgress
    BY InitType
  <2>1. \A c \in Callers : pending[c].stage = "none"
    BY DEF Init, NoUpdate
  <2>2. Agree
    BY DEF Init, Agree
  <2> QED
    BY <2>1, <2>2 DEF WarnProgress
<1>2. Inv /\ [Next]_vars => Inv'
  <2> SUFFICES ASSUME Inv, [Next]_vars PROVE WarnProgress'
    BY NextType
  <2>1. CASE UNCHANGED warnVars
    BY <2>1 DEF warnVars, WarnProgress, Agree
  <2>2. CASE Restart
    <3>1. pending' = [c \in Callers |-> NoUpdate] /\ Agree'
      BY <2>2 DEF Restart, Agree
    <3>2. \A c \in Callers : pending'[c].stage = "none"
      BY <3>1 DEF NoUpdate
    <3> QED
      BY <3>1, <3>2 DEF WarnProgress
  <2>3. ASSUME "user" \in Callers,
               WarnStep("user") \/ \E w \in WarnRequests : BeginWarn("user", w[1], w[2])
        PROVE  WarnProgress'
    <3> DEFINE p == pending["user"]
    <3>1. Callers = {"user"}
      BY <2>3, ModbusAssumption
    <3>2. pending \in [Callers -> Update] /\ p \in Update
      BY <2>3 DEF TypeOK, Update
    <3>3. /\ p.stage \in {"none", "check", "draw_max"} => Agree
          /\ p.stage \in {"draw_min", "set_max", "set_min"} => shown_max = p.max
          /\ p.stage \in {"set_max", "set_min"} => shown_min = p.min
          /\ p.stage = "set_min" => warn_max = p.max
      BY <3>1 DEF WarnProgress
    <3>4. SUFFICES LET q == pending'["user"] IN
            /\ q.stage \in {"none", "check", "draw_max"} => Agree'
            /\ q.stage \in {"draw_min", "set_max", "set_min"} => shown_max' = q.max
            /\ q.stage \in {"set_max", "set_min"} => shown_min' = q.min
            /\ q.stage = "set_min" => warn_max' = q.max
      BY <3>1 DEF WarnProgress
    <3>5. ASSUME NEW w \in WarnRequests, BeginWarn("user", w[1], w[2])
          PROVE  /\ pending'["user"].stage = "check"
                 /\ UNCHANGED <<warn_max, warn_min, shown_max, shown_min>>
                 /\ p.stage = "none"
      BY <3>1, <3>2, <3>5 DEF BeginWarn, Idle, NoUpdate
    <3>6. CASE CheckWarn("user")
      <4>1. /\ p.stage = "check" /\ UNCHANGED <<warn_max, warn_min, shown_max, shown_min>>
            /\ pending'["user"] \in {NoUpdate, [p EXCEPT !.stage = "draw_max"]}
        BY <3>1, <3>2, <3>6 DEF CheckWarn
      <4>2. pending'["user"].stage \in {"none", "draw_max"}
        BY <3>2, <4>1 DEF NoUpdate, Update
      <4> QED
        BY <3>3, <4>1, <4>2 DEF Agree
    <3>7. ASSUME NEW st \in Stages,
                 pending' = [pending EXCEPT !["user"].stage = st]
          PROVE  /\ pending'["user"].stage = st
                 /\ pending'["user"].max = p.max /\ pending'["user"].min = p.min
      BY <3>1, <3>2, <3>7 DEF Update
    <3>8. CASE DrawWarnMax("user")
      BY <3>3, <3>7, <3>8 DEF DrawWarnMax, Stages
    <3>9. CASE DrawWarnMin("user")
      BY <3>3, <3>7, <3>9 DEF DrawWarnMin, Stages
    <3>10. CASE SetWarnMax("user")
      BY <3>3, <3>7, <3>10 DEF SetWarnMax, Stages
    <3>11. CASE SetWarnMin("user")
      <4>1. pending'["user"].stage = "none" /\ Agree'
        BY <3>1, <3>2, <3>3, <3>11 DEF SetWarnMin, NoUpdate, Agree
      <4> QED
        BY <4>1
    <3>12. CASE \E w \in WarnRequests : BeginWarn("user", w[1], w[2])
      BY <3>3, <3>5, <3>12 DEF Agree
    <3> QED
      BY <2>3, <3>6, <3>8, <3>9, <3>10, <3>11, <3>12 DEF WarnStep
  <2> QED
    BY <2>1, <2>2, <2>3, WarnChange
<1>3. Inv => WarnShown
  BY DEF WarnProgress, Agree, WarnShown, NoWarnUpdate
<1> QED
  BY <1>1, <1>2, <1>3, PTL DEF Spec

-----------------------------------------------------------------------------
(* The relay. *)

\* The board's output is set by set_relay alone.
LEMMA RelayStep ==
  ASSUME [Next]_vars, ~Restarts
  PROVE  \/ UNCHANGED relay_out
         \/ \E acts, answered \in BOOLEAN : SendRelay(acts, answered)
<1>1. CASE SendThread
  BY <1>1 DEF SendThread, Tick, KeepRelay, RecvRelay, AskTemperature,
     RecvTemperature, MissTemperature, Alarm, Trip, Clear, relayVars
<1>2. CASE SlaveAnswers
  BY <1>2 DEF SlaveAnswers, relayVars
<1>3. ASSUME NEW c \in Callers, Command(c) \/ WarnStep(c) PROVE UNCHANGED relay_out
  BY <1>3 DEF Command, UpdateHeating, UpdateCooling, BeginWarn, WarnStep, CheckWarn,
     DrawWarnMax, DrawWarnMin, SetWarnMax, SetWarnMin, relayVars
<1>4. CASE Redraw
  BY <1>4 DEF Redraw, relayVars
<1>5. CASE SafeMode
  BY <1>5 DEF SafeMode, EnterSafe, SaveScores, ZeroCooling, ZeroHeating,
     RecoverCooling, RecoverHeating, relayVars
<1>6. ~Restart
  BY DEF Restart
<1>7. CASE UNCHANGED vars
  BY <1>7 DEF vars, relayVars
<1> QED
  BY <1>1, <1>2, <1>3, <1>4, <1>5, <1>6, <1>7 DEF Next

\* On a bus that loses nothing, every change of the board's output implements a
\* step of Actuator: the board is only ever driven to what the scores ask for at
\* that moment (set_relay, get_relay_value).
THEOREM DrivesWhatIsWanted ==
  ASSUME ~BusLossy, ~Restarts
  PROVE  Spec => Wanted!Safety
<1>1. Init => Wanted!Init
  BY InitType, RelayValueType DEF Wanted!Init, TypeOK
<1>2. TypeOK /\ [Next]_vars => [Wanted!Next]_<<RelayValue, relay_out>>
  <2> SUFFICES ASSUME TypeOK, [Next]_vars
               PROVE  Wanted!Request \/ Wanted!Apply
    BY DEF Wanted!Next
  <2>1. RelayValue' \in RelayValues
    <3>1. TypeOK'
      BY NextType
    <3> QED
      BY <3>1 DEF TypeOK, RelayValue, RelayValues
  <2>2. CASE UNCHANGED relay_out
    BY <2>1, <2>2 DEF Wanted!Request
  <2>3. ASSUME NEW acts \in BOOLEAN, NEW answered \in BOOLEAN, SendRelay(acts, answered)
        PROVE  Wanted!Apply
    BY <2>3 DEF SendRelay, scoreVars, RelayValue, Wanted!Apply
  <2> QED
    BY <2>2, <2>3, RelayStep
<1> QED
  BY <1>1, <1>2, TypeCorrect, PTL DEF Spec, Wanted!Safety

-----------------------------------------------------------------------------
(* The cycle. *)

\* How many steps of the send thread are left until it is at set_relay again.
ToRelay ==
  CASE step = "relay_recv" -> 10
    [] step = "temp_recv"  -> 5
    [] step = "alarm"      -> 4
    [] step = "trip"       -> 3
    [] step = "clear"      -> 2
    [] OTHER -> IF interval_value <= 1 THEN 1 - interval_value ELSE 11 - interval_value

\* Where modbus_callback is in the cycle.
InCycle ==
  /\ step = "relay_recv" => interval_value = 2
  /\ step = "temp_recv" => interval_value = 5
  /\ step \in {"alarm", "trip", "clear"} => interval_value = 0

\* Each step of the send thread is one of them, and at set_relay the board ends up
\* driving what the scores ask for at that moment.
CycleTurns ==
  \/ UNCHANGED cycleVars /\ ~SendThread
  \/ SendThread /\ ToRelay' = ToRelay - 1
  \/ SendThread /\ ToRelay = 0 /\ relay_out' = RelayValue

\* Every step keeps the place in the cycle and either leaves it alone or moves it on.
LEMMA CycleStep ==
  ASSUME TypeOK, InCycle, relay_buf = relay_out, [Next]_vars, ~BusLossy, ~Restarts
  PROVE  InCycle' /\ relay_buf' = relay_out' /\ (CycleTurns \/ UNCHANGED vars)
<1> USE DEF InCycle, CycleTurns, ToRelay, cycleVars, relayVars
<1>1. CASE SendThread
  <2> USE <1>1
  <2>1. CASE Tick
    BY <2>1 DEF Tick, TypeOK
  <2>2. CASE KeepRelay
    BY <2>2 DEF KeepRelay, TypeOK
  <2>3. ASSUME NEW acts \in BOOLEAN, NEW answered \in BOOLEAN, SendRelay(acts, answered)
        PROVE  InCycle' /\ relay_buf' = relay_out' /\ CycleTurns
    BY <2>3 DEF SendRelay, TypeOK
  <2>4. CASE RecvRelay
    BY <2>4 DEF RecvRelay, TypeOK
  <2>5. ASSUME NEW val \in Readings, NEW answered \in BOOLEAN, AskTemperature(val, answered)
        PROVE  InCycle' /\ relay_buf' = relay_out' /\ CycleTurns
    BY <2>5 DEF AskTemperature, TypeOK
  <2>6. CASE RecvTemperature
    BY <2>6 DEF RecvTemperature, TypeOK
  <2>7. CASE MissTemperature
    BY <2>7 DEF MissTemperature, TypeOK
  <2>8. CASE Alarm
    BY <2>8 DEF Alarm, TypeOK
  <2>9. CASE Trip
    BY <2>9 DEF Trip, TypeOK
  <2>10. CASE Clear
    BY <2>10 DEF Clear, TypeOK
  <2> QED
    BY <2>1, <2>2, <2>3, <2>4, <2>5, <2>6, <2>7, <2>8, <2>9, <2>10 DEF SendThread
<1>2. ASSUME ~SendThread, UNCHANGED <<cycleVars, relayVars>>
      PROVE  InCycle' /\ relay_buf' = relay_out' /\ CycleTurns
  BY <1>2
<1>3. CASE ~SendThread /\ SlaveAnswers
  BY <1>2, <1>3 DEF SlaveAnswers
<1>4. ASSUME ~SendThread, NEW c \in Callers, Command(c) \/ WarnStep(c)
      PROVE  UNCHANGED <<cycleVars, relayVars>>
  BY <1>4 DEF Command, UpdateHeating, UpdateCooling, BeginWarn, WarnStep, CheckWarn,
     DrawWarnMax, DrawWarnMin, SetWarnMax, SetWarnMin
<1>5. CASE ~SendThread /\ Redraw
  BY <1>2, <1>5 DEF Redraw
<1>6. CASE ~SendThread /\ SafeMode
  BY <1>2, <1>6 DEF SafeMode, EnterSafe, SaveScores, ZeroCooling, ZeroHeating,
     RecoverCooling, RecoverHeating
<1>7. ~Restart
  BY DEF Restart
<1>8. CASE UNCHANGED vars
  BY <1>8 DEF vars
<1> QED
  BY <1>1, <1>2, <1>3, <1>4, <1>5, <1>6, <1>7, <1>8 DEF Next

\* On a bus that loses nothing, the send thread needs at most ten steps of its own to
\* come back to set_relay, whatever the other threads do, and each time it passes it
\* the board drives what the scores ask for (modbus_callback, set_relay).  It is the
\* safety half of what FollowsScores and HeatingOff promise.
THEOREM EveryCycleDrives ==
  ASSUME ~BusLossy, ~Restarts
  PROVE  Spec => [][CycleTurns]_vars
<1> DEFINE Inv == InCycle /\ relay_buf = relay_out
<1>1. Init => Inv
  BY DEF Init, InCycle
<1>2. TypeOK /\ Inv /\ [Next]_vars => Inv' /\ [CycleTurns]_vars
  BY CycleStep
<1> QED
  BY <1>1, <1>2, TypeCorrect, PTL DEF Spec
=============================================================================
