---------------------------- MODULE ScreenProofs ----------------------------
(***************************************************************************)
(* Theorems about Screen, for any latencies, any number of redraws and any *)
(* width of the counter: what the descriptions hold at each step of        *)
(* vgus_init, that the marker follows the curve, and that no item on the   *)
(* screens overwrites another.                                             *)
(***************************************************************************)
EXTENDS Screen, TLAPS

Allocated == {"vernier", "curve", "screen_idX"}

\* The steps of vgus_init the invariants speak of.
LEMMA Steps ==
  /\ Len(Plan) = 34
  /\ Plan[1] = "mallocX" /\ Plan[2] = "vernier" /\ Plan[3] = "curve"
  /\ Plan[4] = "screen_idX" /\ Plan[5] = "mallocT" /\ Plan[6] = "screen_idT"
  /\ Plan[7] = "title" /\ Plan[8] = "clear" /\ Plan[9] = "send" /\ Plan[34] = "send"
  /\ \A k \in 10..34 : Plan[k] \notin {"mallocX", "vernier", "curve", "screen_idX",
                                       "mallocT", "screen_idT", "title", "clear"}
BY DEF Plan

\* The descriptions as far as vgus_init has come, and what it means that the
\* threads run.
Descriptions ==
  /\ at > 2 => "vernier" \in assignedX
  /\ at > 3 => "curve" \in assignedX
  /\ at > 4 => "screen_idX" \in assignedX
  /\ at > 6 => assignedT # {}
  /\ at = 0 => Allocated \subseteq assignedX /\ assignedT # {}
  /\ at = 1 /\ started => Allocated \subseteq assignedX /\ assignedT # {}
  /\ started /\ redraws = 0 => at = 0
  /\ at > 0 /\ "clear" \in buf => at = 9
  /\ at = 0 => "clear" \notin buf

\* Types, as far as the arguments need them.
Typed ==
  /\ at \in 0..34 /\ started \in BOOLEAN
  /\ object \in Nat /\ vernier \in 0..(WORD - 1)
  /\ reg \in [object : Nat, value : 0..(WORD - 1)]
  /\ points \in Nat /\ data \in Nat /\ newest \in Nat
  /\ redraws \in Nat /\ wrapped \in BOOLEAN /\ crossed \in BOOLEAN
  /\ wild \in BOOLEAN
  /\ xat \in {"read", "point", "load", "store", "mark", "send", "ended"}

\* The place of the marker for point number n of value v.
OnCurve(m, n, v) ==
  /\ m.x = IF n > STEPS THEN STEPS ELSE n - 1
  /\ m.y - CurveY(v) \in -4..4

\* The counter and the marker, relative to the points on the curve, unless a point
\* crossed a redraw.
Following ==
  ~crossed =>
    /\ xat \in {"point", "load", "store", "mark"} => InRange(data)
    /\ Window => xat \notin {"store", "mark", "send"}
    /\ Window /\ at # 2 => vernier = 0
    /\ ~Window /\ ~wrapped =>
         /\ points > 0 => OnCurve(marker, points, newest)
         /\ xat \in {"read", "point", "load", "store", "ended"} => vernier = points
         /\ xat = "store" => reg.object = object /\ reg.value = points
         /\ xat \in {"mark", "send"} => vernier = points + 1
         /\ xat = "send" => OnCurve(place, points + 1, data)

-----------------------------------------------------------------------------
(* Lemmas. *)

\* The height of the marker and that of the point on the curve, which the screen
\* scales by a whole number of 256ths, differ by four pixels at most.
LEMMA HeightsAgree ==
  ASSUME NEW v \in Nat, InRange(v)
  PROVE  MarkerY(v) - CurveY(v) \in -4..4
BY DEF InRange, MarkerY, CurveY, Scale, CentreY, CentreV, WIDTH, APEX, Y_MIN, Y_MAX

\* No drawing routine has the name of another step.
LEMMA ItemNames ==
  Items \cap {"mallocX", "vernier", "curve", "screen_idX", "mallocT", "screen_idT",
              "clear", "send"} = {}
BY DEF Items, Drawing

\* Where vgus_init is when it takes a step.
LEMMA DoAt ==
  ASSUME at \in 0..34, NEW step, Do(step)
  PROVE  /\ at \in 1..34 /\ at' = IF at = 34 THEN 0 ELSE at + 1
         /\ step = "mallocX" <=> at = 1
         /\ step = "vernier" <=> at = 2
         /\ step = "curve" <=> at = 3
         /\ step = "screen_idX" <=> at = 4
         /\ step = "mallocT" <=> at = 5
         /\ step = "screen_idT" <=> at = 6
         /\ step = "title" <=> at = 7
         /\ step = "clear" <=> at = 8
         /\ at = 9 => step = "send"
         /\ at = 34 => step = "send"
<1>1. at \in 1..34 /\ Plan[at] = step
  BY DEF Do
<1>2. CASE at \in 10..34
  BY <1>1, <1>2, Steps DEF Do
<1>3. CASE at \in 1..9
  BY <1>1, <1>3, Steps DEF Do
<1> QED
  BY <1>1, <1>2, <1>3

\* The counter goes up by one until it wraps.
LEMMA UpValue ==
  ASSUME NEW v \in 0..(WORD - 1)
  PROVE  Up(v) = IF v + 1 = WORD THEN 0 ELSE v + 1
BY ScreenAssumption DEF Up

\* Window, by the number of the step.
LEMMA WindowAt ==
  /\ at \in 0..34 => (Window <=> at \in 2..8 \/ "clear" \in buf)
  /\ at' \in 0..34 => (Window' <=> at' \in 2..8 \/ "clear" \in buf')
BY Steps DEF Window

\* Every step keeps the types.
LEMMA TypedStep ==
  ASSUME Typed, [Next]_vars
  PROVE  Typed'
<1> USE ScreenAssumption DEF Typed, Deliver, XenoAt, NoCopy, Up,
       descr, xeno, screen, history
<1>a. Window \in BOOLEAN
  BY DEF Window
<1>1. CASE MallocX
  BY <1>1, DoAt DEF MallocX
<1>2. CASE AssignVernier
  BY <1>2, DoAt DEF AssignVernier
<1>3. CASE MallocT
  BY <1>3, DoAt DEF MallocT
<1>4. CASE AssignT
  BY <1>4, DoAt DEF AssignT
<1>5. CASE Send
  BY <1>5, DoAt DEF Send
<1>6. CASE Start
  BY <1>6 DEF Start
<1>7. CASE ReDraw
  BY <1>7 DEF ReDraw
<1>8. CASE Read
  BY <1>8 DEF Read, Uses
<1>9. CASE Point
  BY <1>9 DEF Point, Uses
<1>10. CASE Load
  BY <1>10, <1>a DEF Load, Cross, Uses
<1>11. CASE Store
  BY <1>11, <1>a DEF Store, Cross
<1>12. CASE Mark
  BY <1>12, <1>a DEF Mark, Cross, Uses
<1>13. CASE SendPoint
  BY <1>13, <1>a DEF SendPoint, Cross
<1>14. CASE Show
  BY <1>14 DEF Show
<1>15. CASE Flush
  BY <1>15 DEF Flush
<1>16. CASE Touch
  BY <1>16 DEF Touch
<1>17. ASSUME NEW field \in {"curve", "screen_idX"}, AssignX(field) PROVE Typed'
  BY <1>17, DoAt DEF AssignX
<1>18. ASSUME NEW item \in Items \cup {"clear", "clearT", "switch"}, Draw(item)
      PROVE  Typed'
  BY <1>18, DoAt, ItemNames DEF Draw
<1>19. CASE UNCHANGED vars
  BY <1>19 DEF vars
<1> QED
  BY <1>1, <1>2, <1>3, <1>4, <1>5, <1>6, <1>7, <1>8, <1>9, <1>10, <1>11,
     <1>12, <1>13, <1>14, <1>15, <1>16, <1>17, <1>18, <1>19
  DEF Next, Drawer, Xenomai, Others

\* The rest of the types.
LEMMA TypeOKStep ==
  ASSUME Typed, Typed', TypeOK, [Next]_vars
  PROVE  TypeOK'
<1> USE Steps DEF Typed, TypeOK, Deliver, XenoAt, descr, xeno, screen, history
<1>a. {"temp", "led", "icon", "warnMax", "warnMin", "target", "offset", "marker", "hint"}
        \subseteq Items
  BY DEF Items, Drawing
<1>1. CASE MallocX
  BY <1>1 DEF MallocX
<1>2. CASE AssignVernier
  BY <1>2 DEF AssignVernier
<1>3. CASE MallocT
  BY <1>3 DEF MallocT
<1>4. CASE AssignT
  BY <1>4 DEF AssignT
<1>5. CASE Send
  BY <1>5 DEF Send
<1>6. CASE Start
  BY <1>6 DEF Start
<1>7. CASE ReDraw
  BY <1>7, ScreenAssumption DEF ReDraw
<1>8. CASE Read
  BY <1>8 DEF Read, Uses
<1>9. CASE Point
  BY <1>9 DEF Point, Uses
<1>10. CASE Load
  BY <1>10 DEF Load, Uses, Cross
<1>11. CASE Store
  BY <1>11 DEF Store, Cross
<1>12. CASE Mark
  <2>1. MarkerY(data) \in Int /\ NoMarker \in [x : Int, y : Int]
    BY DEF MarkerY, NoMarker, WIDTH, APEX, Y_MIN, Y_MAX
  <2>2. STEPS \in Int /\ vernier - 1 \in Int
    BY ScreenAssumption
  <2>3. place' \in [x : Int, y : Int]
    BY <1>12, <2>1, <2>2 DEF Mark
  <2>4. wild' \in BOOLEAN /\ alive' \in BOOLEAN /\ crossed' \in BOOLEAN
    BY <1>12 DEF Mark
  <2> QED
    BY <1>12, <2>3, <2>4 DEF Mark
<1>13. CASE SendPoint
  BY <1>13, <1>a DEF SendPoint, Cross, NoMarker
<1>14. CASE Show
  BY <1>14, <1>a DEF Show
<1>15. CASE Flush
  BY <1>15 DEF Flush
<1>16. CASE Touch
  BY <1>16, <1>a DEF Touch
<1>17. ASSUME NEW field \in {"curve", "screen_idX"}, AssignX(field) PROVE TypeOK'
  BY <1>17 DEF AssignX
<1>18. ASSUME NEW item \in Items \cup {"clear", "clearT", "switch"}, Draw(item)
      PROVE  TypeOK'
  BY <1>18 DEF Draw
<1>19. CASE UNCHANGED vars
  BY <1>19 DEF vars
<1> QED
  BY <1>1, <1>2, <1>3, <1>4, <1>5, <1>6, <1>7, <1>8, <1>9, <1>10, <1>11,
     <1>12, <1>13, <1>14, <1>15, <1>16, <1>17, <1>18, <1>19
  DEF Next, Drawer, Xenomai, Others

\* What is assigned stays assigned until vgus_init begins anew.
LEMMA DescriptionsStep ==
  ASSUME Typed, Descriptions, [Next]_vars
  PROVE  Descriptions'
<1> USE ScreenAssumption DEF Typed, Descriptions, Allocated, Deliver, XenoAt,
       descr, xeno, screen, history
<1>1. CASE MallocX
  BY <1>1, DoAt DEF MallocX
<1>2. CASE AssignVernier
  BY <1>2, DoAt DEF AssignVernier
<1>3. CASE MallocT
  BY <1>3, DoAt DEF MallocT
<1>4. CASE AssignT
  BY <1>4, DoAt DEF AssignT
<1>5. CASE Send
  BY <1>5, DoAt DEF Send
<1>6. CASE Start
  BY <1>6 DEF Start
<1>7. CASE ReDraw
  BY <1>7 DEF ReDraw
<1>8. CASE Read
  BY <1>8 DEF Read
<1>9. CASE Point
  BY <1>9 DEF Point
<1>10. CASE Load
  BY <1>10 DEF Load
<1>11. CASE Store
  BY <1>11 DEF Store
<1>12. CASE Mark
  BY <1>12 DEF Mark
<1>13. CASE SendPoint
  BY <1>13 DEF SendPoint
<1>14. CASE Show
  BY <1>14 DEF Show
<1>15. CASE Flush
  BY <1>15 DEF Flush
<1>16. CASE Touch
  BY <1>16 DEF Touch
<1>17. ASSUME NEW field \in {"curve", "screen_idX"}, AssignX(field) PROVE Descriptions'
  BY <1>17, DoAt DEF AssignX
<1>18. ASSUME NEW item \in Items \cup {"clear", "clearT", "switch"}, Draw(item)
      PROVE  Descriptions'
  BY <1>18, DoAt, ItemNames DEF Draw
<1>19. CASE UNCHANGED vars
  BY <1>19 DEF vars
<1> QED
  BY <1>1, <1>2, <1>3, <1>4, <1>5, <1>6, <1>7, <1>8, <1>9, <1>10, <1>11,
     <1>12, <1>13, <1>14, <1>15, <1>16, <1>17, <1>18, <1>19
  DEF Next, Drawer, Xenomai, Others

\* A point that does not cross a redraw finds the counter where the curve is.
LEMMA FollowingStep ==
  ASSUME Typed, Descriptions, Following, [Next]_vars
  PROVE  Following'
<1> USE ScreenAssumption DEF Typed, Descriptions, Allocated, Following, MidPoint, Cross,
       Deliver, XenoAt, descr, xeno, screen, history
<1>a. Typed'
  BY TypedStep
<1>1. CASE MallocX
  <2>1. Window' /\ at' = 2
    BY <1>1, DoAt, <1>a, WindowAt DEF MallocX
  <2> QED
    BY <1>1, <2>1 DEF MallocX
<1>2. CASE AssignVernier
  BY <1>2, DoAt, <1>a, WindowAt DEF AssignVernier
<1>3. CASE MallocT
  BY <1>3, DoAt, <1>a, WindowAt DEF MallocT
<1>4. CASE AssignT
  BY <1>4, DoAt, <1>a, WindowAt DEF AssignT
<1>5. CASE Send
  <2>1. CASE "clear" \in buf
    <3>1. Window /\ at' = 10 /\ at = 9 /\ "clear" \notin buf' /\ points' = 0 /\ ~Window'
      BY <1>5, <2>1, DoAt, <1>a, WindowAt DEF Send
    <3> QED
      BY <1>5, <2>1, <3>1 DEF Send
  <2>2. CASE "clear" \notin buf
    <3>1. ~Window /\ ~Window' /\ points' = points /\ (wrapped' <=> wrapped)
      BY <1>5, <2>2, DoAt, <1>a, WindowAt DEF Send
    <3> QED
      BY <1>5, <3>1 DEF Send
  <2> QED
    BY <2>1, <2>2
<1>6. CASE Start
  BY <1>6, <1>a, WindowAt DEF Start
<1>7. CASE ReDraw
  BY <1>7, <1>a, WindowAt DEF ReDraw
<1>8. CASE Read
  <2>1. Window <=> Window'
    BY <1>8, <1>a, WindowAt DEF Read
  <2>2. ~crossed' => ~crossed /\ (xat' = "point" => InRange(data'))
    BY <1>8 DEF Read
  <2> QED
    BY <1>8, <2>1, <2>2 DEF Read
<1>9. CASE Point
  BY <1>9, <1>a, WindowAt DEF Point
<1>10. CASE Load
  BY <1>10, <1>a, WindowAt DEF Load
<1>11. CASE Store
  <2> SUFFICES ASSUME ~crossed' PROVE Following'
    OBVIOUS
  <2>1. ~crossed /\ ~Window /\ ~Window'
    BY <1>11, <1>a, WindowAt DEF Store
  <2>2. ~wrapped' => ~wrapped /\ Up(reg.value) = reg.value + 1
    BY <1>11, ScreenAssumption, UpValue DEF Store
  <2> QED
    BY <1>11, <2>1, <2>2 DEF Store
<1>12. CASE Mark
  <2> SUFFICES ASSUME ~crossed' PROVE Following'
    OBVIOUS
  <2>1. ~crossed /\ ~Window /\ ~Window' /\ "curve" \in assignedX
    BY <1>12, <1>a, WindowAt DEF Mark
  <2>2. InRange(data) /\ data \in Nat
    BY <1>12, <2>1 DEF Mark
  <2>3. MarkerY(data) - CurveY(data) \in -4..4
    BY <2>2, HeightsAgree
  <2>4. /\ place'.x = IF vernier > STEPS THEN STEPS ELSE vernier - 1
        /\ place'.y = MarkerY(data)
    BY <1>12, <2>1 DEF Mark
  <2>5. ~wrapped => vernier = points + 1
    BY <1>12, <2>1 DEF Mark
  <2>6. ~wrapped => OnCurve(place', points + 1, data)
    BY <2>3, <2>4, <2>5 DEF OnCurve
  <2> QED
    BY <1>12, <2>1, <2>6 DEF Mark
<1>13. CASE SendPoint
  <2> SUFFICES ASSUME ~crossed' PROVE Following'
    OBVIOUS
  <2>1. ~crossed /\ ~Window /\ ~Window'
    BY <1>13, <1>a, WindowAt DEF SendPoint
  <2> QED
    BY <1>13, <2>1 DEF SendPoint
<1>14. CASE Show
  BY <1>14, <1>a, WindowAt DEF Show
<1>15. CASE Flush
  <2>1. CASE "clear" \in buf
    <3>1. Window /\ at' = 9 /\ "clear" \notin buf' /\ points' = 0 /\ ~Window'
      BY <1>15, <2>1, <1>a, WindowAt DEF Flush
    <3> QED
      BY <1>15, <2>1, <3>1 DEF Flush
  <2>2. CASE "clear" \notin buf
    <3>1. (Window <=> Window') /\ points' = points /\ (wrapped' <=> wrapped)
      BY <1>15, <2>2, <1>a, WindowAt DEF Flush
    <3> QED
      BY <1>15, <3>1 DEF Flush
  <2> QED
    BY <2>1, <2>2
<1>16. CASE Touch
  BY <1>16, <1>a, WindowAt DEF Touch
<1>17. ASSUME NEW field \in {"curve", "screen_idX"}, AssignX(field) PROVE Following'
  BY <1>17, DoAt, <1>a, WindowAt DEF AssignX
<1>18. ASSUME NEW item \in Items \cup {"clear", "clearT", "switch"}, Draw(item)
      PROVE  Following'
  <2>1. "clear" \in buf' => Window' /\ (at = 8 \/ "clear" \in buf)
    BY <1>18, DoAt, ItemNames, <1>a, WindowAt DEF Draw
  <2>2. Window <=> Window'
    BY <1>18, DoAt, ItemNames, <1>a, WindowAt DEF Draw
  <2> QED
    BY <1>18, <2>2, DoAt, ItemNames DEF Draw
<1>19. CASE UNCHANGED vars
  BY <1>19, <1>a, WindowAt DEF vars
<1> QED
  BY <1>1, <1>2, <1>3, <1>4, <1>5, <1>6, <1>7, <1>8, <1>9, <1>10, <1>11,
     <1>12, <1>13, <1>14, <1>15, <1>16, <1>17, <1>18, <1>19
  DEF Next, Drawer, Xenomai, Others

-----------------------------------------------------------------------------
(* The words of the items. *)

\* Which item word w belongs to, by address: the marker has words in two places, the
\* temperature none of its own.
Owner(w) ==
  IF w < \h0301 THEN "curveX"
  ELSE IF w < \h1025 THEN "marker"
  ELSE IF w < \h1180 THEN "curveT"
  ELSE IF w < \h1260 THEN "xColorT"
  ELSE IF w < \h4000 THEN "yColorT"
  ELSE IF w < \h4020 THEN "title"
  ELSE IF w < \h4180 THEN "xLabelX"
  ELSE IF w < \h42e0 THEN "yLabelX"
  ELSE IF w < \h4300 THEN "marker"
  ELSE IF w < \h4500 THEN "axisX"
  ELSE IF w < \h5000 THEN "gridX"
  ELSE IF w < \h5180 THEN "icon"
  ELSE IF w < \h5260 THEN "xLabelT"
  ELSE IF w < \h53c0 THEN "yLabelT"
  ELSE IF w < \h53e0 THEN "gridT"
  ELSE IF w < \h5420 THEN "axisT"
  ELSE IF w < \h5440 THEN "warnMax"
  ELSE IF w < \h5510 THEN "warnMin"
  ELSE IF w < \h5520 THEN "led"
  ELSE IF w < \h5620 THEN "hint"
  ELSE IF w < \h5640 THEN "target"
  ELSE "offset"

\* An item's frames fit their buffer, and its words are its own.
Fits(name, item) ==
  /\ item.size <= item.room
  /\ \A w \in item.words : w \in Shared \/ Owner(w) = name

\* So it is of the curves, ...
LEMMA CurvesFit ==
  Fits("curveX", CurveItem(\h0020)) /\ Fits("curveT", CurveItem(\h1020))
BY DEF Fits, CurveItem, Item, Owner

\* ... the grids and axes, ...
LEMMA WiresFit ==
  /\ Fits("gridX", WireItem(\h4500, GridNumber("X")))
  /\ Fits("gridT", WireItem(\h53c0, GridNumber("T")))
  /\ Fits("axisX", WireItem(\h4300, AXIS_WIRES))
  /\ Fits("axisT", WireItem(\h53e0, AXIS_WIRES))
BY DEF Fits, WireItem, Wires, Block, Item, Owner, GridNumber, AXIS_WIRES

\* ... their labels and the labels' colours, ...
LEMMA LabelsFit ==
  /\ Fits("xLabelX", LabelItem(\h4020, LabelNumber("X", "x")))
  /\ Fits("yLabelX", LabelItem(\h4180, LabelNumber("X", "y")))
  /\ Fits("xLabelT", LabelItem(\h5180, LabelNumber("T", "x")))
  /\ Fits("yLabelT", LabelItem(\h5260, LabelNumber("T", "y")))
  /\ Fits("xColorT", LabelItem(\h1180 + 6, LabelNumber("T", "x")))
  /\ Fits("yColorT", LabelItem(\h1260 + 6, LabelNumber("T", "y")))
BY DEF Fits, LabelItem, Labels, Item, Owner, LabelNumber

\* ... the numbers and lights, ...
LEMMA VarsFit ==
  /\ Fits("warnMax", Var(\h5420)) /\ Fits("warnMin", Var(\h5440))
  /\ Fits("target", Var(\h5620)) /\ Fits("offset", Var(\h5640))
  /\ Fits("temp", Var(\h5400)) /\ Fits("led", Var(\h5510)) /\ Fits("icon", Var(\h5000))
BY DEF Fits, Var, Item, Owner, Shared

\* ... and the title, the hints and the marker.
LEMMA OthersFit ==
  /\ Fits("title", Item(Block(\h4000, (TITLE + 1) \div 2), TITLE + 6, 32))
  /\ Fits("hint", Item({\h5520, \h5530}, 8, 16))
  /\ Fits("marker", Item({\h42e0, \h0301, \h0302}, 8 + 10, 32))
BY DEF Fits, Item, Owner, Block, TITLE

\* No other item is drawn.
LEMMA AllFit ==
  ASSUME NEW a \in Items
  PROVE  Fits(a, Drawing[a])
BY CurvesFit, WiresFit, LabelsFit, VarsFit, OthersFit DEF Items, Drawing

-----------------------------------------------------------------------------
(* The theorems. *)

ScreenInv == Typed /\ Descriptions /\ Following

\* Nothing is drawn yet.
LEMMA InitInv == Init => ScreenInv
<1> SUFFICES ASSUME Init PROVE ScreenInv
  OBVIOUS
<1>1. Typed
  <2>1. 0 \in 0..(WORD - 1) /\ 1 \in 0..34
    BY ScreenAssumption
  <2>2. NoCopy \in [object : Nat, value : 0..(WORD - 1)]
    BY <2>1 DEF NoCopy
  <2> QED
    BY <2>1, <2>2 DEF Init, Typed
<1>2. Descriptions
  BY DEF Init, Descriptions
<1>3. ~Window
  BY <1>1, WindowAt DEF Init, Typed
<1>4. Following
  BY <1>3 DEF Init, Following
<1> QED
  BY <1>1, <1>2, <1>4 DEF ScreenInv

\* The invariant holds, for any latencies and any number of redraws and points.
THEOREM Inductive == Spec => []ScreenInv
<1>1. ScreenInv /\ [Next]_vars => ScreenInv'
  BY TypedStep, DescriptionsStep, FollowingStep DEF ScreenInv
<1> QED
  BY <1>1, InitInv, PTL DEF Spec

\* Every variable keeps its type; the counter stays within its WORD values
\* (up_vernier).
THEOREM TypeCorrect == Spec => []TypeOK
<1>1. Init => TypeOK
  <2> SUFFICES ASSUME Init PROVE TypeOK
    OBVIOUS
  <2>1. Typed
    BY InitInv DEF ScreenInv
  <2>2. NoMarker \in [x : Int, y : Int]
    BY DEF NoMarker
  <2> QED
    BY <2>1, <2>2, Steps, ScreenAssumption DEF Init, Typed, TypeOK
<1>2. ScreenInv /\ TypeOK /\ ScreenInv' /\ [Next]_vars => TypeOK'
  BY TypeOKStep DEF ScreenInv
<1> QED
  BY <1>1, <1>2, Inductive, PTL DEF Spec

\* Whatever has been drawn, in whatever order and however often, no two items write
\* the same word but for the temperature, and every routine's frames fit its buffer
\* (vgus_init and the routines of vgus.c).
THEOREM NothingOverdrawn == Spec => []DrawnIntact
<1>1. TypeOK => DrawnIntact
  BY AllFit DEF TypeOK, DrawnIntact, Fits
<1> QED
  BY <1>1, TypeCorrect, PTL

\* The marker stands on the newest point, unless a redraw or the wrapping of the
\* counter came between (up_vernier, set_vernier_value, realtime_curve_init).
THEOREM MarkerOnCurve == Spec => []MarkerFollows
<1>1. ScreenInv => MarkerFollows
  BY DEF ScreenInv, Following, OnCurve, MarkerFollows
<1> QED
  BY <1>1, Inductive, PTL

\* Unassigned fields are only found while a client's ReDraw is under way
\* (vgus_init, start_server, reDrawMethod).
THEOREM WildIsRedraw == Spec => WildNeedsRedraw
<1>1. ScreenInv /\ [Next]_vars
        => [wild' # wild \/ alive' # alive => at # 0 /\ redraws > 0]_vars
  <2> SUFFICES ASSUME ScreenInv, Next, at = 0 \/ ~(redraws > 0)
               PROVE  UNCHANGED <<wild, alive>>
    OBVIOUS
  <2>1. wild \in BOOLEAN /\ redraws \in Nat /\ (started => at = 0)
    BY DEF ScreenInv, Typed, Descriptions
  <2>2. started => Allocated \subseteq assignedX /\ assignedT # {}
    BY <2>1 DEF ScreenInv, Descriptions
  <2>3. CASE Drawer
    BY <2>3 DEF Drawer, MallocX, AssignVernier, AssignX, MallocT, AssignT, Draw, Send,
       Start, ReDraw, history
  <2>4. CASE Xenomai
    BY <2>1, <2>2, <2>4 DEF Xenomai, Read, Point, Load, Store, Mark, SendPoint, XenoAt,
       Uses, Allocated
  <2>5. CASE Others
    BY <2>1, <2>2, <2>5 DEF Others, Show, Flush, Touch, Allocated
  <2> QED
    BY <2>3, <2>4, <2>5 DEF Next
<1> QED
  BY <1>1, Inductive, PTL DEF Spec, WildNeedsRedraw
=============================================================================
