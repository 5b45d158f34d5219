-------------------------------- MODULE Screen --------------------------------
(***************************************************************************)
(* vgus.c and start_xenomai of server.c: vgus_init builds the descriptions *)
(* of the two screens in fresh memory and draws them, once before the      *)
(* threads start and then whenever a client calls ReDraw, while the other  *)
(* threads go on reading the same global pointers.  The Xenomai thread     *)
(* adds points to the latency curve and moves the marker behind them.      *)
(*                                                                         *)
(* The send buffers are module SendInfo: here the frames of one buffer go  *)
(* out together, and those of the drawing thread also when the send thread *)
(* sends, as the two share it.  Which screen is shown is module Blocking.  *)
(***************************************************************************)
EXTENDS Layout, Sequences

CONSTANTS
  WORD,        \* values of the 16-bit counter of points
  STEPS,       \* points that fit the frame: length / x_interval
  Data,        \* latencies written to the FIFO
  MaxRedraws,  \* bound: calls of ReDraw
  MaxPoints    \* bound: points on the curve

ASSUME ScreenAssumption ==
  /\ WORD \in Nat \ {0} /\ STEPS \in Nat
  /\ Data \subseteq Nat
  /\ MaxRedraws \in Nat /\ MaxPoints \in Nat

VARIABLES
  at,          \* the next step of vgus_init, 0 when it is not running
  started,     \* the threads have been created
  assignedX, assignedT,  \* fields of the newest descriptions that are assigned
  object,      \* which memory x_screen points to
  vernier,     \* x_screen->vernier.vernier
  buf,         \* drawn into the buffer of the screen and not yet sent
  xat,         \* where the Xenomai thread is
  data,        \* the latency it draws
  reg,         \* its copy of vernier, and the memory it belongs to
  place,       \* the marker it is about to send
  drawn,       \* the items the screen has received
  points, newest, marker,  \* the curve on the screen and the marker
  wild,        \* history: unassigned fields were used
  alive,       \* no access through an unassigned pointer has ended the process
  redraws,     \* history: calls of ReDraw
  crossed,     \* history: a point was read or drawn while vgus_init put the curve
               \* back, since the last vgus_init began
  wrapped      \* history: vernier has passed its last value since then

descr == <<assignedX, assignedT, object, vernier>>
xeno == <<xat, data, reg, place>>
screen == <<drawn, points, newest, marker>>
history == <<wild, alive, redraws, crossed, wrapped>>
vars == <<at, started, descr, buf, xeno, screen, history>>

Items == DOMAIN Drawing
NoCopy == [object |-> 0, value |-> 0]
NoMarker == [x |-> 0, y |-> 0]

\* The steps of vgus_init: allocation and assignments of xenomai_screen_init and
\* temperature_screen_init, then drawing routines and calls of send_data.
Plan ==
  <<"mallocX", "vernier", "curve", "screen_idX", "mallocT", "screen_idT",
    "title", "clear", "send", "clearT", "send",
    "curveT", "curveX", "send", "gridX", "gridT", "send", "axisX", "axisT", "send",
    "xLabelX", "yLabelX", "send",
    "xLabelT", "yLabelT", "yColorT", "xColorT", "send",
    "warnMax", "warnMin", "target", "offset", "switch", "send">>

Init ==
  /\ at = 1 /\ started = FALSE
  /\ assignedX = {} /\ assignedT = {}
  /\ object = 0 /\ vernier = 0
  /\ buf = {}
  /\ xat = "read" /\ data = 0 /\ place = NoMarker
  /\ reg = NoCopy
  /\ drawn = {} /\ points = 0 /\ newest = 0 /\ marker = NoMarker
  /\ wild = FALSE /\ alive = TRUE /\ redraws = 0
  /\ crossed = FALSE /\ wrapped = FALSE

-----------------------------------------------------------------------------
(* vgus_init, on the main thread and later on the one of the OPC UA server. *)

\* The rest of vgus_init.
Do(step) ==
  /\ at # 0 /\ Plan[at] = step
  /\ at' = IF at = Len(Plan) THEN 0 ELSE at + 1

\* From the new counter to the moment the screen has forgotten the old curve.
Window == (at # 0 /\ Plan[at] \in {"vernier", "curve", "screen_idX", "mallocT",
                                   "screen_idT", "title", "clear"})
          \/ "clear" \in buf

\* The Xenomai thread is between reading its counter and sending the marker.
MidPoint == xat \in {"store", "mark", "send"}

\* The frames in the shared buffer arrive.
Deliver ==
  /\ buf' = {}
  /\ drawn' = drawn \cup (buf \cap Items)
  /\ points' = IF "clear" \in buf THEN 0 ELSE points
  /\ wrapped' = (wrapped /\ "clear" \notin buf)
  /\ UNCHANGED <<newest, marker>>

\* What malloc returns holds anything.
MallocX ==
  /\ Do("mallocX")
  /\ object' = object + 1
  /\ assignedX' = {}
  /\ \E v \in 0..(WORD - 1) : vernier' = v
  /\ crossed' = (MidPoint \/ (crossed /\ xat \in {"point", "load"}))
  /\ UNCHANGED <<started, assignedT, buf, xeno, screen, wild, alive, redraws, wrapped>>

\* Mutant: the counter of the new memory is not set.
AssignVernierNot ==
  /\ Do("vernier")
  /\ assignedX' = assignedX \cup {"vernier"}
  /\ UNCHANGED <<started, assignedT, object, vernier, buf, xeno, screen, history>>

AssignVernier ==
  /\ Do("vernier")
  /\ assignedX' = assignedX \cup {"vernier"}
  /\ vernier' = 0
  /\ UNCHANGED <<started, assignedT, object, buf, xeno, screen, history>>

\* The fields of the curve, and at last the rest.
AssignX(field) ==
  /\ Do(field)
  /\ assignedX' = assignedX \cup {field}
  /\ UNCHANGED <<started, assignedT, object, vernier, buf, xeno, screen, history>>

MallocT ==
  /\ Do("mallocT")
  /\ assignedT' = {}
  /\ UNCHANGED <<started, assignedX, object, vernier, buf, xeno, screen, history>>

AssignT ==
  /\ Do("screen_idT")
  /\ assignedT' = {"screen_idT"}
  /\ UNCHANGED <<started, assignedX, object, vernier, buf, xeno, screen, history>>

\* A drawing routine, or a command to the screen, copies its frames.
Draw(item) ==
  /\ Do(item)
  /\ buf' = buf \cup {item}
  /\ UNCHANGED <<started, descr, xeno, screen, history>>

Send ==
  /\ Do("send")
  /\ Deliver
  /\ UNCHANGED <<started, descr, xeno, wild, alive, redraws, crossed>>

\* Mutant: the threads are created before the screens are drawn.
StartEarly ==
  /\ ~started
  /\ started' = TRUE
  /\ UNCHANGED <<at, descr, buf, xeno, screen, history>>

\* start_server creates the threads once all is drawn.
Start ==
  /\ at = 0 /\ ~started
  /\ started' = TRUE
  /\ UNCHANGED <<at, descr, buf, xeno, screen, history>>

\* A client calls the method ReDraw.
ReDraw ==
  /\ at = 0 /\ started /\ redraws < MaxRedraws
  /\ at' = 1
  /\ redraws' = redraws + 1
  /\ UNCHANGED <<started, descr, buf, xeno, screen, wild, alive, crossed, wrapped>>

Drawer ==
  \/ MallocX \/ AssignVernier \/ MallocT \/ AssignT
  \/ \E field \in {"curve", "screen_idX"} : AssignX(field)
  \/ \E item \in Items \cup {"clear", "clearT", "switch"} : Draw(item)
  \/ Send \/ Start \/ ReDraw

-----------------------------------------------------------------------------
(* start_xenomai and xenomai_update_curve. *)

XenoAt(here) == started /\ xat = here

\* Whether a use of `field` finds it unassigned.
Uses(field) == wild' = (wild \/ field \notin assignedX)

Cross == crossed' = (crossed \/ Window)

\* open, read, and the test of the range, which may look at unassigned bounds;
\* "exit" ends the thread.
Read ==
  /\ XenoAt("read")
  /\ \/ xat' = "ended" /\ UNCHANGED <<data, wild, crossed>>
     \/ \E d \in Data :
          /\ InRange(d) \/ "curve" \notin assignedX
          /\ points < MaxPoints
          /\ data' = d /\ xat' = "point"
          /\ Uses("curve")
          /\ crossed' = (crossed \/ "curve" \notin assignedX)
  /\ UNCHANGED <<at, started, descr, buf, reg, place, screen, alive, redraws, wrapped>>

\* set_curve_value.
Point ==
  /\ XenoAt("point") /\ xat' = "load"
  /\ Uses("curve")
  /\ UNCHANGED <<at, started, descr, buf, data, reg, place, screen, alive, redraws,
                 crossed, wrapped>>

\* up_vernier: reads the counter ...
Load ==
  /\ XenoAt("load") /\ xat' = "store"
  /\ reg' = [object |-> object, value |-> vernier]
  /\ Uses("vernier") /\ Cross
  /\ UNCHANGED <<at, started, descr, buf, data, place, screen, alive, redraws, wrapped>>

\* Mutant: the counter is wider than 16 bits.
UpWide(v) == v + 1

\* The test for a value above 0xffff never holds: the counter wraps.
Up(v) == (v + 1) % WORD

\* ... and writes it back, where it read it.
Store ==
  /\ XenoAt("store") /\ xat' = "mark"
  /\ reg' = NoCopy
  /\ vernier' = IF reg.object = object THEN Up(reg.value) ELSE vernier
  /\ wrapped' = (wrapped \/ Up(reg.value) = 0)
  /\ Cross
  /\ UNCHANGED <<at, started, assignedX, assignedT, object, buf, data, place, screen,
                 wild, alive, redraws>>

\* set_vernier_value: an unassigned curve_frame points anywhere.
Mark ==
  /\ XenoAt("mark") /\ xat' = "send"
  /\ \/ /\ "curve" \in assignedX
        /\ place' = [x |-> IF vernier > STEPS THEN STEPS ELSE vernier - 1,
                     y |-> MarkerY(data)]
        /\ UNCHANGED alive
     \/ /\ "curve" \notin assignedX
        /\ place' = NoMarker
        /\ alive' \in BOOLEAN
  /\ Uses("curve") /\ Cross
  /\ UNCHANGED <<at, started, descr, buf, data, reg, screen, redraws, wrapped>>

\* send_data: the buffer is the thread's own.
SendPoint ==
  /\ XenoAt("send") /\ xat' = "read"
  /\ points' = points + 1 /\ newest' = data /\ marker' = place
  /\ drawn' = drawn \cup {"marker"}
  /\ data' = 0 /\ place' = NoMarker
  /\ Cross
  /\ UNCHANGED <<at, started, descr, buf, reg, wild, alive, redraws, wrapped>>

Xenomai == Read \/ Point \/ Load \/ Store \/ Mark \/ SendPoint

-----------------------------------------------------------------------------
(* The other threads. *)

\* modbus_callback and the clients' updates draw on the temperature screen.
Show ==
  /\ started
  /\ buf' = buf \cup {"temp", "led", "icon", "warnMax", "warnMin", "target", "offset"}
  /\ wild' = (wild \/ assignedT = {})
  /\ UNCHANGED <<at, started, descr, xeno, screen, alive, redraws, crossed, wrapped>>

\* start_send_data sends what is in the buffer, whoever put it there.
Flush ==
  /\ started /\ buf # {}
  /\ Deliver
  /\ UNCHANGED <<at, started, descr, xeno, wild, alive, redraws, crossed>>

\* The touch thread looks up a screen_id or a hint's address.
Touch ==
  /\ started
  /\ drawn' = drawn \cup {"hint"}
  /\ wild' = (wild \/ assignedT = {} \/ "screen_idX" \notin assignedX)
  /\ UNCHANGED <<at, started, descr, buf, xeno, points, newest, marker, alive, redraws,
                 crossed, wrapped>>

Others == Show \/ Flush \/ Touch

Next == alive /\ (Drawer \/ Xenomai \/ Others)

Spec == Init /\ [][Next]_vars

-----------------------------------------------------------------------------
(* Properties. *)

TypeOK ==
  /\ at \in 0..Len(Plan) /\ started \in BOOLEAN
  /\ assignedX \subseteq {"vernier", "curve", "screen_idX"}
  /\ assignedT \subseteq {"screen_idT"}
  /\ object \in Nat /\ vernier \in 0..(WORD - 1)
  /\ buf \subseteq Items \cup {"clear", "clearT", "switch"}
  /\ xat \in {"read", "point", "load", "store", "mark", "send", "ended"}
  /\ data \in Nat
  /\ reg \in [object : Nat, value : 0..(WORD - 1)]
  /\ place \in [x : Int, y : Int] /\ marker \in [x : Int, y : Int]
  /\ drawn \subseteq Items
  /\ points \in Nat /\ newest \in Nat
  /\ wild \in BOOLEAN /\ alive \in BOOLEAN /\ redraws \in 0..MaxRedraws
  /\ crossed \in BOOLEAN /\ wrapped \in BOOLEAN

\* No two items on the screens write the same word of its memory, but for the
\* temperature, and every routine's frames fit its local buffer and the length
\* byte of a frame.
DrawnIntact ==
  \A a \in drawn :
    /\ Drawing[a].size <= Drawing[a].room
    /\ \A b \in drawn \ {a} :
         Drawing[a].words \cap Drawing[b].words \subseteq Shared

\* The marker stands on the newest point of the curve, within the four pixels the
\* rounded scale of the curve costs, and at the right edge once the curve is
\* longer than its frame -- unless a point was read or drawn while a ReDraw put
\* the counter or the curve back, or the 16-bit counter has passed its last value.
MarkerFollows ==
  points > 0 /\ ~Window /\ ~crossed /\ ~wrapped =>
    /\ marker.x = IF points > STEPS THEN STEPS ELSE points - 1
    /\ marker.y - CurveY(newest) \in -4..4

\* A thread finds unassigned fields or an unassigned pointer only while a client's
\* ReDraw is under way: never at start-up, and never after it.
WildNeedsRedraw ==
  [][wild' # wild \/ alive' # alive => at # 0 /\ redraws > 0]_vars
=============================================================================
