--------------------------- MODULE BlockingProofs ---------------------------
(***************************************************************************)
(* Theorems about Blocking: GateInv is inductive, and the safety           *)
(* properties follow from it.                                              *)
(***************************************************************************)
EXTENDS Blocking, SequenceTheorems, TLAPS

-----------------------------------------------------------------------------
(* Types. *)

LEMMA InitType == Init => TypeOK
<1> SUFFICES ASSUME Init PROVE TypeOK
  OBVIOUS
<1>1. WarmStart \in BOOLEAN
  BY BlockingAssumption
<1>2. sensed \in BOOLEAN /\ stale \in BOOLEAN
  BY <1>1, Zenon DEF Init
<1>3. tx \in Seq({"t", "x", "redraw"})
  BY DEF Init
<1>4. slips \in [{"user", "opc"} -> 0..2]
  BY DEF Init
<1> QED
  BY <1>2, <1>3, <1>4 DEF Init, TypeOK, Calls

LEMMA SlippedType == TypeOK => \A c \in {"user", "opc"} : Slipped(c) \in [{"user", "opc"} -> 0..2]
BY DEF TypeOK, Slipped

LEMMA NextType ==
  ASSUME TypeOK, [Next]_vars
  PROVE  TypeOK'
<1> USE DEF TypeOK, Calls, TouchTop, Cleared, deviceVars, historyVars
<1>1. CASE Press
  BY <1>1 DEF Press
<1>2. ASSUME NEW d \in {"left", "none", "right"}, Slide(d) PROVE TypeOK'
  BY <1>2 DEF Slide
<1>3. CASE TouchLock \/ TouchFlag \/ TouchUnflag \/ TouchUnlock
  BY <1>3 DEF TouchLock, TouchFlag, TouchUnflag, TouchUnlock
<1>4. CASE ShowLatency \/ ShowTemperature
  <2>1. tx' \in Seq({"t", "x", "redraw"})
    BY <1>4 DEF ShowLatency, ShowTemperature
  <2> QED
    BY <1>4, <2>1 DEF ShowLatency, ShowTemperature
<1>5. CASE Device
  <2>1. tx' \in Seq({"t", "x", "redraw"})
    BY <1>5 DEF Device
  <2> QED
    BY <1>5, <2>1 DEF Device
<1>6. CASE User
  BY <1>6 DEF User, UserTop, UserSave, UserLock, UserRecover, UserUnlock, UserGet, UserKill
<1>7. ASSUME NEW get \in BOOLEAN, UserCommand(get) PROVE TypeOK'
  BY <1>7, SlippedType DEF UserCommand
<1>8. ASSUME NEW call \in Calls, OpcCall(call) PROVE TypeOK'
  BY <1>8 DEF OpcCall
<1>9. CASE OpcGate \/ OpcLock \/ OpcUnlock \/ OpcExit \/ EndServer
  BY <1>9 DEF OpcGate, OpcLock, OpcUnlock, OpcExit, EndServer
<1>10. CASE OpcRun
  <2>1. tx' \in Seq({"t", "x", "redraw"})
    BY <1>10 DEF OpcRun
  <2> QED
    BY <1>10, <2>1, SlippedType DEF OpcRun
<1>11. CASE Sense \/ IssueKill
  BY <1>11 DEF Sense, IssueKill
<1>12. CASE UNCHANGED vars
  BY <1>12 DEF vars
<1> QED
  BY <1>1, <1>2, <1>3, <1>4, <1>5, <1>6, <1>7, <1>8, <1>9, <1>10, <1>11, <1>12
     DEF Next, Step, Gone, Touch, Opc

\* Every variable keeps its type.
THEOREM TypeCorrect == Spec => []TypeOK
<1>1. TypeOK /\ [Next]_vars => TypeOK'
  BY NextType
<1> QED
  BY <1>1, InitType, PTL DEF Spec

-----------------------------------------------------------------------------
(* The gate. *)

\* What GateInv says while no press was stale.
GateCore ==
  /\ Holders /\ FlagFollows /\ OneSwitch
  /\ LatencyOnlyBlocked /\ BlockedShowsLatency /\ SlippedWaits

LEMMA InitGate == Init => GateInv
<1> SUFFICES ASSUME Init PROVE GateCore /\ (opc_call = "redraw" => Redraws)
  BY InitType DEF GateInv, GateCore
<1>1. Holders /\ FlagFollows /\ SlippedWaits /\ BlockedShowsLatency
  BY DEF Init, Holders, FlagFollows, SlippedWaits, BlockedShowsLatency
<1>2. OneSwitch /\ LatencyOnlyBlocked
  BY DEF Init, OneSwitch, LatencyOnlyBlocked, OwnSwitchPending, Own
<1> QED
  BY <1>1, <1>2 DEF GateCore, Init

\* The steps of the touch thread up to its sends.
LEMMA TouchGate ==
  ASSUME TypeOK, GateCore,
         \/ \E d \in {"left", "none", "right"} : Slide(d)
         \/ TouchLock \/ TouchFlag \/ TouchUnflag \/ TouchUnlock
  PROVE  GateCore'
<1> USE DEF GateCore, deviceVars, historyVars, TypeOK
<1>1. ASSUME NEW d \in {"left", "none", "right"}, Slide(d) PROVE GateCore'
  <2>1. ~OwnSwitchPending
    BY <1>1 DEF Slide, OneSwitch
  <2>2. touch' \in {"lock", "unflag", "press", "done"}
    BY <1>1 DEF Slide, TouchTop, Cleared
  <2>3. OneSwitch' /\ LatencyOnlyBlocked'
    BY <1>1, <2>1, <2>2 DEF Slide, OneSwitch, LatencyOnlyBlocked, OwnSwitchPending, Own
  <2>4. BlockedShowsLatency'
    BY <1>1 DEF Slide, BlockedShowsLatency, NoSlip
  <2>5. Holders' /\ SlippedWaits'
    BY <1>1, <2>2 DEF Slide, Holders, SlippedWaits
  <2>6. FlagFollows'
    BY <1>1, <2>2 DEF Slide, FlagFollows, NoSlip, TouchTop, Cleared
  <2> QED
    BY <2>3, <2>4, <2>5, <2>6
<1>2. ASSUME TouchLock \/ TouchFlag \/ TouchUnflag \/ TouchUnlock PROVE GateCore'
  <2>1. ~OwnSwitchPending
    BY <1>2 DEF OneSwitch, TouchLock, TouchFlag, TouchUnflag, TouchUnlock
  <2>2. touch \in {"lock", "flag", "unflag", "unlock"} /\ UNCHANGED <<tx, screen>>
    BY <1>2 DEF TouchLock, TouchFlag, TouchUnflag, TouchUnlock
  <2>3. OneSwitch'
    BY <2>1, <2>2 DEF OneSwitch, OwnSwitchPending, Own
  <2>4. \A i \in DOMAIN tx : tx[i] = "redraw"
    BY <2>1 DEF OwnSwitchPending
  <2>5. LatencyOnlyBlocked'
    BY <1>2, <2>1, <2>2, <2>4
       DEF LatencyOnlyBlocked, OwnSwitchPending, TouchLock, TouchFlag, TouchUnflag, TouchUnlock
  <2>6. BlockedShowsLatency'
    BY <1>2 DEF BlockedShowsLatency, NoSlip, FlagFollows, TouchLock, TouchFlag,
       TouchUnflag, TouchUnlock
  <2>7. Holders'
    BY <1>2 DEF Holders, FlagFollows, TouchLock, TouchFlag, TouchUnflag, TouchUnlock
  <2>8. SlippedWaits'
    BY <1>2 DEF SlippedWaits, FlagFollows, TouchLock, TouchFlag, TouchUnflag, TouchUnlock
  <2>9. FlagFollows'
    BY <1>2 DEF FlagFollows, Holders, NoSlip, TouchLock, TouchFlag, TouchUnflag, TouchUnlock
  <2> QED
    BY <2>3, <2>5, <2>6, <2>7, <2>8, <2>9
<1> QED
  BY <1>1, <1>2

\* What appending a switch does to the ones under way.
LEMMA AppendTx ==
  ASSUME TypeOK, NEW e \in {"t", "x", "redraw"}, tx' = Append(tx, e)
  PROVE  /\ Len(tx) \in Nat /\ DOMAIN tx = 1..Len(tx)
         /\ Len(tx') = Len(tx) + 1 /\ DOMAIN tx' = 1..(Len(tx) + 1)
         /\ \A i \in 1..Len(tx) : tx'[i] = tx[i]
         /\ tx'[Len(tx) + 1] = e
         /\ tx' # <<>>
BY DEF TypeOK

\* The touch thread sends a switch: the only one of its own under way.
LEMMA SendGate ==
  ASSUME TypeOK, GateCore, ShowLatency \/ ShowTemperature
  PROVE  GateCore'
<1> USE DEF GateCore
<1> DEFINE n == Len(tx)
<1>1. touch \in {"show_x", "show_t"} /\ touch' \in {"press", "done"}
  BY DEF ShowLatency, ShowTemperature, TouchTop, Cleared
<1>2. \A i \in DOMAIN tx : tx[i] = "redraw"
  BY <1>1 DEF OneSwitch, OwnSwitchPending
<1>3. PICK e \in {"x", "t"} : /\ tx' = Append(tx, e)
                              /\ e = "x" <=> touch = "show_x"
                              /\ e = "x" <=> blocking = 1
  BY DEF ShowLatency, ShowTemperature, FlagFollows
<1>4. UNCHANGED <<blocking, mutex, user, opc, screen, slips>>
  BY DEF ShowLatency, ShowTemperature, historyVars
<1>5. /\ n \in Nat /\ DOMAIN tx = 1..n
      /\ Len(tx') = n + 1 /\ DOMAIN tx' = 1..(n + 1)
      /\ \A i \in 1..n : tx'[i] = tx[i]
      /\ tx'[n + 1] = e /\ tx' # <<>>
  BY <1>3, AppendTx
<1>6. \A i \in DOMAIN tx' : tx'[i] # "redraw" => i = n + 1
  BY <1>2, <1>5
<1>7. OneSwitch'
  BY <1>1, <1>6 DEF OneSwitch, Own
<1>8. OwnSwitchPending'
  BY <1>5 DEF OwnSwitchPending
<1>9. LatencyOnlyBlocked'
  BY <1>3, <1>4, <1>5, <1>6, <1>8 DEF LatencyOnlyBlocked
<1>10. BlockedShowsLatency'
  BY <1>3, <1>4, <1>5 DEF BlockedShowsLatency
<1>11. Holders' /\ FlagFollows' /\ SlippedWaits'
  BY <1>1, <1>4 DEF Holders, FlagFollows, SlippedWaits
<1> QED
  BY <1>7, <1>9, <1>10, <1>11

\* A press that is not stale.
LEMMA PressGate ==
  ASSUME TypeOK, GateCore, Press, ~stale'
  PROVE  GateCore'
<1> USE DEF GateCore, deviceVars
<1>1. ~OwnSwitchPending /\ touch = "press" /\ touch' = "slide" /\ pressed' = screen
  BY DEF Press
<1>2. UNCHANGED <<blocking, mutex, user, opc, tx, screen, slips>>
  BY DEF Press
<1>3. \A i \in DOMAIN tx : tx[i] = "redraw"
  BY <1>1 DEF OwnSwitchPending
<1>4. OneSwitch' /\ LatencyOnlyBlocked'
  BY <1>1, <1>2, <1>3 DEF OneSwitch, LatencyOnlyBlocked, OwnSwitchPending, Own
<1>5. BlockedShowsLatency'
  BY <1>1, <1>2 DEF BlockedShowsLatency, NoSlip
<1>6. screen = "x" => blocking = 1
  BY <1>1 DEF LatencyOnlyBlocked
<1>7. screen = "t" /\ blocking = 1 => ~NoSlip
  <2> SUFFICES ASSUME screen = "t", blocking = 1, NoSlip PROVE FALSE
    OBVIOUS
  <2>1. tx # <<>> /\ tx[Len(tx)] = "x"
    BY <1>1 DEF BlockedShowsLatency
  <2>2. Len(tx) \in DOMAIN tx
    BY <2>1 DEF TypeOK
  <2> QED
    BY <2>1, <2>2, <1>3
<1>8. NoSlip' = NoSlip
  BY <1>2 DEF NoSlip
<1>9. FlagFollows'
  BY <1>1, <1>2, <1>6, <1>7, <1>8 DEF FlagFollows
<1>10. Holders' /\ SlippedWaits'
  BY <1>1, <1>2 DEF Holders, SlippedWaits
<1> QED
  BY <1>4, <1>5, <1>9, <1>10

\* What executing the oldest switch does to the ones under way.
LEMMA TailTx ==
  ASSUME TypeOK, tx # <<>>, tx' = Tail(tx)
  PROVE  /\ Len(tx) \in Nat \ {0} /\ DOMAIN tx = 1..Len(tx)
         /\ Len(tx') = Len(tx) - 1 /\ DOMAIN tx' = 1..(Len(tx) - 1)
         /\ \A i \in 1..(Len(tx) - 1) : tx'[i] = tx[i + 1]
         /\ tx' = <<>> <=> Len(tx) = 1
         /\ Head(tx) = tx[1]
<1> DEFINE n == Len(tx)
<1>1. n \in Nat \ {0} /\ DOMAIN tx = 1..n /\ Head(tx) = tx[1]
  BY DEF TypeOK
<1>2. /\ tx' \in Seq({"t", "x", "redraw"})
      /\ Len(tx') = n - 1
      /\ \A i \in 1..(n - 1) : tx'[i] = tx[i + 1]
  BY <1>1, HeadTailProperties DEF TypeOK
<1>3. DOMAIN tx' = 1..(n - 1)
  BY <1>1, <1>2
<1>4. tx' = <<>> <=> Len(tx') = 0
  BY <1>2, EmptySeq
<1>5. tx' = <<>> <=> n = 1
  BY <1>1, <1>2, <1>4
<1> QED
  BY <1>1, <1>2, <1>3, <1>5

LEMMA DeviceGate ==
  ASSUME TypeOK, GateCore, Device
  PROVE  GateCore'
<1> USE DEF GateCore
<1> DEFINE n == Len(tx)
<1>1. UNCHANGED <<blocking, mutex, touch, user, opc, pressed, slips>>
  BY DEF Device, historyVars
<1>2. /\ n \in Nat \ {0} /\ DOMAIN tx = 1..n
      /\ Len(tx') = n - 1 /\ DOMAIN tx' = 1..(n - 1)
      /\ \A i \in 1..(n - 1) : tx'[i] = tx[i + 1]
      /\ tx' = <<>> <=> n = 1
      /\ screen' = IF tx[1] = "x" THEN "x" ELSE "t"
  BY TailTx DEF Device
<1>3. \A i \in DOMAIN tx' : i + 1 \in DOMAIN tx /\ tx'[i] = tx[i + 1]
  BY <1>2
<1>4. OwnSwitchPending' => OwnSwitchPending
  BY <1>3 DEF OwnSwitchPending
<1>5. OneSwitch'
  <2>1. ASSUME NEW i \in DOMAIN tx', NEW j \in DOMAIN tx', Own(i)', Own(j)' PROVE i = j
    <3>1. Own(i + 1) /\ Own(j + 1)
      BY <1>3, <2>1 DEF Own
    <3>2. i + 1 = j + 1
      BY <1>3, <3>1 DEF OneSwitch
    <3> QED
      BY <1>2, <3>2
  <2> QED
    BY <1>1, <1>4, <2>1 DEF OneSwitch
<1>6. LatencyOnlyBlocked'
  <2>1. \A i \in DOMAIN tx' : tx'[i] = "x" => blocking' = 1
    BY <1>1, <1>3 DEF LatencyOnlyBlocked
  <2>2. screen' = "x" => blocking' = 1
    BY <1>1, <1>2 DEF LatencyOnlyBlocked
  <2> QED
    BY <2>1, <2>2 DEF LatencyOnlyBlocked
<1>7. BlockedShowsLatency'
  <2> SUFFICES ASSUME blocking = 1, touch \notin {"show_x", "unflag"}, NoSlip
               PROVE  IF tx' = <<>> THEN screen' = "x" ELSE tx'[Len(tx')] = "x"
    BY <1>1 DEF BlockedShowsLatency, NoSlip
  <2>1. tx[n] = "x"
    BY <1>2 DEF BlockedShowsLatency
  <2>2. CASE n = 1
    BY <1>2, <2>1, <2>2
  <2>3. CASE n # 1
    <3>1. n - 1 \in 1..(n - 1) /\ (n - 1) + 1 = n
      BY <1>2, <2>3
    <3>2. tx'[n - 1] = tx[n]
      BY <1>2, <3>1
    <3> QED
      BY <1>2, <2>1, <2>3, <3>2
  <2> QED
    BY <2>2, <2>3
<1>8. Holders' /\ FlagFollows' /\ SlippedWaits'
  BY <1>1 DEF Holders, FlagFollows, SlippedWaits, NoSlip
<1> QED
  BY <1>5, <1>6, <1>7, <1>8

\* Parts of GateCore that a step of a client which sends nothing leaves alone.
LEMMA QuietGate ==
  ASSUME GateCore, UNCHANGED <<blocking, touch, pressed, tx, screen>>,
         NoSlip' => NoSlip
  PROVE  FlagFollows' /\ OneSwitch' /\ LatencyOnlyBlocked' /\ BlockedShowsLatency'
<1> USE DEF GateCore
<1>1. OneSwitch' /\ LatencyOnlyBlocked'
  BY DEF OneSwitch, LatencyOnlyBlocked, OwnSwitchPending, Own
<1>2. BlockedShowsLatency'
  BY DEF BlockedShowsLatency
<1>3. FlagFollows'
  BY DEF FlagFollows
<1> QED
  BY <1>1, <1>2, <1>3

LEMMA UserGate ==
  ASSUME TypeOK, GateCore, User \/ \E get \in BOOLEAN : UserCommand(get)
  PROVE  GateCore'
<1> USE DEF GateCore
<1>1. UNCHANGED <<blocking, touch, pressed, tx, screen, opc>>
  BY DEF User, UserTop, UserSave, UserLock, UserRecover, UserUnlock, UserGet,
         UserKill, UserCommand, deviceVars
<1>2. slips'["opc"] = slips["opc"]
  BY DEF User, UserTop, UserSave, UserLock, UserRecover, UserUnlock, UserGet,
         UserKill, UserCommand, Slipped, historyVars, TypeOK
<1>3. FlagFollows' /\ OneSwitch' /\ LatencyOnlyBlocked' /\ BlockedShowsLatency'
  BY <1>1, <1>2, QuietGate DEF NoSlip
<1>4. Holders'
  BY <1>1 DEF Holders, User, UserTop, UserSave, UserLock, UserRecover, UserUnlock,
              UserGet, UserKill, UserCommand
<1>5. SlippedWaits'
  <2>1. CASE User
    BY <1>1, <1>2, <2>1
       DEF SlippedWaits, Holders, User, UserTop, UserSave, UserLock, UserRecover,
           UserUnlock, UserGet, UserKill, historyVars
  <2>2. ASSUME NEW get \in BOOLEAN, UserCommand(get) PROVE SlippedWaits'
    <3> SUFFICES ASSUME blocking = 1
                 PROVE  /\ slips'["user"] <= 1 /\ slips'["opc"] <= 1
                        /\ slips'["user"] = 1 => user' \in {"top", "get", "save", "lock", "done"}
                        /\ slips'["opc"] = 1 => opc' \in {"idle", "gate", "lock", "done"}
      BY <1>1 DEF SlippedWaits
    <3>1. user = "open" /\ user' \in {"get", "top"} /\ slips' = Slipped("user")
      BY <2>2 DEF UserCommand
    <3>2. slips["user"] = 0
      BY <3>1 DEF SlippedWaits, TypeOK
    <3>3. slips'["user"] = 1
      BY <3>1, <3>2 DEF Slipped, TypeOK
    <3> QED
      BY <1>1, <1>2, <3>1, <3>3 DEF SlippedWaits
  <2> QED
    BY <2>1, <2>2
<1> QED
  BY <1>3, <1>4, <1>5

LEMMA OpcGates ==
  ASSUME TypeOK, GateCore, opc_call = "redraw" => Redraws,
         Opc \/ EndServer \/ \E call \in Calls : OpcCall(call)
  PROVE  GateCore'
<1> USE DEF GateCore
<1>1. CASE OpcRun
  <2>1. UNCHANGED <<blocking, mutex, touch, pressed, screen, user>>
    BY <1>1 DEF OpcRun
  <2>2. slips'["user"] = slips["user"]
    BY <1>1 DEF OpcRun, Slipped, TypeOK
  <2>3. blocking = 1 => slips'["opc"] = 1
    BY <1>1 DEF OpcRun, Slipped, TypeOK, SlippedWaits
  <2>4. Holders' /\ SlippedWaits'
    BY <1>1, <2>1, <2>2, <2>3 DEF Holders, SlippedWaits, OpcRun
  <2>5. CASE opc_call = "redraw"
    <3> DEFINE n == Len(tx)
    <3>1. tx' = Append(tx, "redraw")
      BY <1>1, <2>5 DEF OpcRun
    <3>2. /\ n \in Nat /\ DOMAIN tx = 1..n
          /\ Len(tx') = n + 1 /\ DOMAIN tx' = 1..(n + 1)
          /\ \A i \in 1..n : tx'[i] = tx[i]
          /\ tx'[n + 1] = "redraw" /\ tx' # <<>>
      BY <3>1, AppendTx
    <3>3. \A i \in DOMAIN tx' : tx'[i] # "redraw" => i \in DOMAIN tx /\ tx[i] = tx'[i]
      BY <3>2
    <3>4. OwnSwitchPending' <=> OwnSwitchPending
      BY <3>2, <3>3 DEF OwnSwitchPending
    <3>5. OneSwitch'
      BY <2>1, <3>3, <3>4 DEF OneSwitch, Own
    <3>6. \A i \in DOMAIN tx' : tx'[i] = "x" => i \in DOMAIN tx /\ tx[i] = "x"
      BY <3>3
    <3>7. LatencyOnlyBlocked'
      BY <2>1, <3>4, <3>6 DEF LatencyOnlyBlocked
    <3>8. blocking = 1 => ~NoSlip'
      BY <2>3, <2>5 DEF NoSlip
    <3>9. BlockedShowsLatency' /\ FlagFollows'
      BY <2>1, <3>8 DEF BlockedShowsLatency, FlagFollows
    <3> QED
      BY <2>4, <3>5, <3>7, <3>9
  <2>6. CASE opc_call # "redraw"
    <3>1. tx' = tx
      BY <1>1, <2>6 DEF OpcRun
    <3>2. NoSlip' /\ blocking = 1 => NoSlip
      BY <2>3 DEF NoSlip
    <3>3. OneSwitch' /\ LatencyOnlyBlocked'
      BY <2>1, <3>1 DEF OneSwitch, LatencyOnlyBlocked, OwnSwitchPending, Own
    <3>4. BlockedShowsLatency' /\ FlagFollows'
      BY <2>1, <3>1, <3>2 DEF BlockedShowsLatency, FlagFollows
    <3> QED
      BY <2>4, <3>3, <3>4
  <2> QED
    BY <2>5, <2>6
<1>2. ASSUME \/ OpcGate \/ OpcLock \/ OpcUnlock \/ OpcExit \/ EndServer
             \/ \E call \in Calls : OpcCall(call)
      PROVE  GateCore'
  <2>1. UNCHANGED <<blocking, touch, pressed, tx, screen, user, slips>>
    BY <1>2 DEF OpcGate, OpcLock, OpcUnlock, OpcExit, EndServer, OpcCall,
                deviceVars, historyVars
  <2>2. FlagFollows' /\ OneSwitch' /\ LatencyOnlyBlocked' /\ BlockedShowsLatency'
    BY <2>1, QuietGate DEF NoSlip
  <2>3. Holders'
    BY <1>2, <2>1 DEF Holders, OpcGate, OpcLock, OpcUnlock, OpcExit, EndServer, OpcCall
  <2>4. SlippedWaits'
    BY <1>2, <2>1 DEF SlippedWaits, Holders, OpcGate, OpcLock, OpcUnlock, OpcExit,
                      EndServer, OpcCall
  <2> QED
    BY <2>2, <2>3, <2>4
<1> QED
  BY <1>1, <1>2 DEF Opc

LEMMA NextGate ==
  ASSUME GateInv, [Next]_vars
  PROVE  GateInv'
<1>1. TypeOK /\ TypeOK'
  BY NextType DEF GateInv
<1>2. (opc_call = "redraw" => Redraws)'
  <2>1. opc_call' \in {opc_call, "none"} \/ \E call \in Calls : OpcCall(call)
    BY DEF Next, Step, Gone, vars, Press, Touch, Slide, TouchLock, TouchFlag, ShowLatency,
       TouchUnflag, TouchUnlock, ShowTemperature, Device, User, UserTop, UserSave,
       UserLock, UserRecover, UserUnlock, UserGet, UserKill, UserCommand, Opc, OpcGate,
       OpcLock, OpcUnlock, OpcRun, OpcExit, EndServer, Sense, IssueKill
  <2> QED
    BY <2>1 DEF GateInv, OpcCall
<1>3. ~stale' => ~stale
  BY DEF Next, Step, Gone, vars, Press, Touch, Slide, TouchLock, TouchFlag, ShowLatency,
     TouchUnflag, TouchUnlock, ShowTemperature, Device, User, UserTop, UserSave,
     UserLock, UserRecover, UserUnlock, UserGet, UserKill, UserCommand, Opc, OpcGate,
     OpcLock, OpcUnlock, OpcRun, OpcExit, OpcCall, EndServer, Sense, IssueKill, historyVars
<1>4. ASSUME ~stale' PROVE GateCore'
  <2>1. GateCore /\ (opc_call = "redraw" => Redraws)
    BY <1>3, <1>4 DEF GateInv, GateCore
  <2>2. CASE Press
    BY <1>1, <1>4, <2>1, <2>2, PressGate
  <2>3. CASE Touch
    BY <1>1, <2>1, <2>3, TouchGate, SendGate DEF Touch
  <2>4. CASE Device
    BY <1>1, <2>1, <2>4, DeviceGate
  <2>5. CASE User \/ \E get \in BOOLEAN : UserCommand(get)
    BY <1>1, <2>1, <2>5, UserGate
  <2>6. CASE Opc \/ EndServer \/ \E call \in Calls : OpcCall(call)
    BY <1>1, <2>1, <2>6, OpcGates
  <2>7. CASE Sense \/ IssueKill \/ UNCHANGED vars
    <3>1. UNCHANGED <<blocking, mutex, touch, user, opc, pressed, tx, screen, slips>>
      BY <2>7 DEF Sense, IssueKill, vars, deviceVars, historyVars
    <3>2. FlagFollows' /\ OneSwitch' /\ LatencyOnlyBlocked' /\ BlockedShowsLatency'
      BY <2>1, <3>1, QuietGate DEF NoSlip
    <3> QED
      BY <2>1, <3>1, <3>2 DEF GateCore, Holders, SlippedWaits
  <2> QED
    BY <2>2, <2>3, <2>4, <2>5, <2>6, <2>7 DEF Next, Step, Gone
<1> QED
  BY <1>1, <1>2, <1>4 DEF GateInv, GateCore

LEMMA GateAlways == Spec => []GateInv
<1>1. GateInv /\ [Next]_vars => GateInv'
  BY NextGate
<1> QED
  BY <1>1, InitGate, PTL DEF Spec

\* While blocking is set and no press was stale, the touch thread holds the
\* mutex: nobody gets past the wait (block_client, block_me, unblock_client).
THEOREM GateHolds == Spec => []HeldWhileBlocking
<1>1. GateInv => HeldWhileBlocking
  BY DEF GateInv, HeldWhileBlocking, Holders
<1> QED
  BY <1>1, GateAlways, PTL

\* Each client gets at most one command past the gate each time the latency
\* screen is shown (the test of blocking in block_me and block_client).
THEOREM AtMostOneSlip == Spec => []SlipOnce
<1>1. GateInv => SlipOnce
  BY DEF GateInv, SlipOnce, SlippedWaits
<1> QED
  BY <1>1, GateAlways, PTL

\* The clients are blocked exactly while the latency screen is shown, unless a
\* ReDraw slipped past the gate (switch_screen, vgus_init).
THEOREM ScreenAndGateAgree == Spec => []ScreenAgrees
<1>1. GateInv => ScreenAgrees
  <2> SUFFICES ASSUME GateInv, touch = "press", ~OwnSwitchPending, ~stale,
                      Redraws => slips["opc"] = 0
               PROVE  screen = "x" <=> blocking = 1
    BY DEF ScreenAgrees
  <2>1. screen = "x" => blocking = 1
    BY DEF GateInv, LatencyOnlyBlocked
  <2>2. ASSUME blocking = 1 PROVE screen = "x"
    <3>1. IF tx = <<>> THEN screen = "x" ELSE tx[Len(tx)] = "x"
      BY <2>2 DEF GateInv, BlockedShowsLatency, NoSlip
    <3>2. tx # <<>> => Len(tx) \in DOMAIN tx
      BY DEF GateInv, TypeOK
    <3> QED
      BY <3>1, <3>2 DEF OwnSwitchPending
  <2> QED
    BY <2>1, <2>2
<1> QED
  BY <1>1, GateAlways, PTL

\* The touch thread waits for its own mutex only after a ReDraw slipped past the
\* gate or a press was stale (block_client locks a mutex of the default type).
THEOREM SelfLockIsSlip == Spec => []SelfLockNeedsSlip
<1>1. GateInv => SelfLockNeedsSlip
  <2> SUFFICES ASSUME GateInv, touch = "lock", mutex = "touch", ~stale
               PROVE  Redraws /\ slips["opc"] > 0
    BY DEF SelfLockNeedsSlip
  <2>1. blocking = 1 /\ pressed = "t"
    BY DEF GateInv, Holders, FlagFollows
  <2>2. ~NoSlip
    BY <2>1 DEF GateInv, FlagFollows
  <2> QED
    BY <2>2 DEF NoSlip, GateInv, TypeOK
<1> QED
  BY <1>1, GateAlways, PTL

\* The thread that holds the mutex is at a step that waits for nothing and leads to
\* its unlock.
HolderGoesOn ==
  \/ mutex = "user" /\ user \in {"recover", "unlock"}
  \/ mutex = "opc" /\ opc = "unlock"
  \/ mutex = "touch" /\ touch \in {"flag", "unlock"}

\* Off the latency screen nobody keeps the mutex, so that no two threads can wait for
\* each other: who waits for it waits for a thread that goes on (block_me and both
\* block_client).  It is the safety half of BlockedClientsWake.
THEOREM NobodyKeepsTheMutex ==
  Spec => [](~stale /\ blocking = 0 => mutex = "none" \/ HolderGoesOn)
<1>1. GateInv => (~stale /\ blocking = 0 => mutex = "none" \/ HolderGoesOn)
  BY DEF GateInv, TypeOK, Holders, HolderGoesOn
<1> QED
  BY <1>1, GateAlways, PTL
=============================================================================
