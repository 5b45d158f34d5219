------------------------------ MODULE Blocking ------------------------------
(***************************************************************************)
(* server.c and opc_server.c: how the touch thread keeps the clients out   *)
(* while the latency screen is shown.  A slide to the right on the         *)
(* temperature screen locks a mutex, sets `blocking` and shows the latency *)
(* screen; a slide to the left takes it all back.  The user interface      *)
(* looks at `blocking` before each command and the OPC UA server before    *)
(* each callback; whoever sees it set waits for the mutex.                 *)
(***************************************************************************)
EXTENDS Integers, Sequences

CONSTANTS
  HaveOpc,    \* built with HAVE_OPC_SERVER (main runs the OPC UA server;
              \* without it main runs the user interface)
  Slides,     \* whether the operator slides on the screen
  Redraws,    \* whether OPC UA clients call ReDraw
  WarmStart,  \* whether the first temperature has been read at the start
  MaxTx       \* bound: fewer switches than this are under way when a press is
              \* read or ReDraw adds another

ASSUME BlockingAssumption ==
  /\ {HaveOpc, Slides, Redraws, WarmStart} \subseteq BOOLEAN
  /\ MaxTx \in Nat

VARIABLES
  blocking,   \* the flag, read without the mutex
  mutex,      \* the thread that locked blocking_lock, or "none"
  touch, user, opc,   \* where each thread is
  pressed,    \* touch.screen_id: the screen the slide began on, or "none"
  opc_call,   \* the callback the OPC UA server is in, or "none"
  screen,     \* what the device shows, and hence reports presses on
  tx,         \* screen switches sent and not yet executed, oldest first;
              \* "redraw" is the one of vgus_init, to the temperature screen
  running,
  sensed,     \* modbus_info.temperature # 0
  kill,       \* "temperature -k": not issued, waiting in its open, or read
  slips,      \* history: commands executed since blocking was last set
  stale       \* history: a press was read while a switch of the touch thread
              \* itself was still under way

deviceVars == <<screen, tx>>
historyVars == <<slips, stale>>
vars == <<blocking, mutex, touch, user, opc, pressed, opc_call, deviceVars,
          running, sensed, kill, historyVars>>

Calls == {"score", "read", "redraw"}

Init ==
  /\ blocking = 0 /\ mutex = "none"
  /\ touch = "press" /\ user = "top"
  /\ opc = IF HaveOpc THEN "idle" ELSE "done"
  /\ pressed = "none" /\ opc_call = "none"
  /\ screen = "t" /\ tx = <<>>
  /\ running = 1
  /\ sensed = WarmStart
  /\ kill = "none"
  /\ slips = [c \in {"user", "opc"} |-> 0]
  /\ stale = FALSE

\* main has returned: no thread takes another step.
Ended == IF HaveOpc THEN opc = "done" ELSE user = "done"

\* One more command of client c while blocking is set; two are as bad as more.
Slipped(c) ==
  IF blocking = 1 /\ slips[c] < 2 THEN [slips EXCEPT ![c] = @ + 1] ELSE slips

-----------------------------------------------------------------------------
(* Thread start_touch. *)

\* Whether a switch the touch thread sent is still under way.
OwnSwitchPending == \E i \in DOMAIN tx : tx[i] # "redraw"

\* get_touch_instructions: the device reports a press on the screen it shows.
Press ==
  /\ Slides
  /\ touch = "press"
  /\ Len(tx) < MaxTx
  /\ touch' = "slide"
  /\ pressed' = screen
  /\ stale' = (stale \/ OwnSwitchPending)
  /\ UNCHANGED <<blocking, mutex, user, opc, opc_call, deviceVars, running,
                 sensed, kill, slips>>

\* The loop of start_touch; the next get_touch_instructions clears `touch`.
TouchTop == IF running = 1 THEN "press" ELSE "done"
Cleared == IF running = 1 THEN "none" ELSE pressed

\* The finger is lifted; only a slide to the right on the temperature screen and
\* one to the left on the latency screen mean anything.
Slide(direction) ==
  /\ touch = "slide"
  /\ touch' = CASE direction = "right" /\ pressed = "t" -> "lock"
                [] direction = "left"  /\ pressed = "x" -> "unflag"
                [] OTHER                                -> TouchTop
  /\ pressed' = IF touch' \in {"lock", "unflag"} THEN pressed ELSE Cleared
  /\ UNCHANGED <<blocking, mutex, user, opc, opc_call, deviceVars,
                 running, sensed, kill, historyVars>>

\* Mutant: the touch thread does not wait for the mutex.
TouchTryLock ==
  /\ touch = "lock"
  /\ mutex' = IF mutex = "none" THEN "touch" ELSE mutex
  /\ touch' = "flag"
  /\ UNCHANGED <<blocking, user, opc, pressed, opc_call, deviceVars, running,
                 sensed, kill, historyVars>>

\* block_client: a mutex of the default type, so a thread that locks it twice
\* waits for itself.
TouchLock ==
  /\ touch = "lock"
  /\ mutex = "none"
  /\ mutex' = "touch"
  /\ touch' = "flag"
  /\ UNCHANGED <<blocking, user, opc, pressed, opc_call, deviceVars, running,
                 sensed, kill, historyVars>>

\* Mutant: blocking counts the slides.
TouchFlagCounts ==
  /\ touch = "flag"
  /\ blocking' = blocking + 1
  /\ slips' = [c \in DOMAIN slips |-> 0]
  /\ touch' = "show_x"
  /\ UNCHANGED <<mutex, user, opc, pressed, opc_call, deviceVars, running,
                 sensed, kill, stale>>

\* The second statement of block_client.
TouchFlag ==
  /\ touch = "flag"
  /\ blocking' = 1
  /\ slips' = [c \in DOMAIN slips |-> 0]
  /\ touch' = "show_x"
  /\ UNCHANGED <<mutex, user, opc, pressed, opc_call, deviceVars, running,
                 sensed, kill, stale>>

ShowLatency ==
  /\ touch = "show_x"
  /\ tx' = Append(tx, "x")
  /\ touch' = TouchTop /\ pressed' = Cleared
  /\ UNCHANGED <<blocking, mutex, user, opc, opc_call, screen, running,
                 sensed, kill, historyVars>>

\* Mutant: the flag stays set.
TouchKeepFlag ==
  /\ touch = "unflag"
  /\ touch' = "unlock"
  /\ UNCHANGED <<blocking, mutex, user, opc, pressed, opc_call, deviceVars,
                 running, sensed, kill, historyVars>>

\* unblock_client, in its two steps.
TouchUnflag ==
  /\ touch = "unflag"
  /\ blocking' = 0
  /\ touch' = "unlock"
  /\ UNCHANGED <<mutex, user, opc, pressed, opc_call, deviceVars, running,
                 sensed, kill, historyVars>>

\* Mutant: the mutex stays locked.
TouchKeepLock ==
  /\ touch = "unlock"
  /\ touch' = "show_t"
  /\ UNCHANGED <<blocking, mutex, user, opc, pressed, opc_call, deviceVars,
                 running, sensed, kill, historyVars>>

\* The mutex becomes free even when another thread had locked it (undefined by
\* POSIX, what glibc's default mutex does).
TouchUnlock ==
  /\ touch = "unlock"
  /\ mutex' = "none"
  /\ touch' = "show_t"
  /\ UNCHANGED <<blocking, user, opc, pressed, opc_call, deviceVars, running,
                 sensed, kill, historyVars>>

\* The switch was put in the thread's own buffer before unblock_client and is
\* sent after it.
ShowTemperature ==
  /\ touch = "show_t"
  /\ tx' = Append(tx, "t")
  /\ touch' = TouchTop /\ pressed' = Cleared
  /\ UNCHANGED <<blocking, mutex, user, opc, opc_call, screen, running,
                 sensed, kill, historyVars>>

Touch ==
  \/ \E direction \in {"left", "none", "right"} : Slide(direction)
  \/ TouchLock \/ TouchFlag \/ ShowLatency
  \/ TouchUnflag \/ TouchUnlock \/ ShowTemperature

\* The device executes the oldest switch (external).
Device ==
  /\ tx # <<>>
  /\ screen' = IF Head(tx) = "x" THEN "x" ELSE "t"
  /\ tx' = Tail(tx)
  /\ UNCHANGED <<blocking, mutex, touch, user, opc, pressed, opc_call, running,
                 sensed, kill, historyVars>>

-----------------------------------------------------------------------------
(* Thread start_user_interface. *)

\* Mutant: block_me is not in the loop.
UserTopUngated ==
  /\ user = "top"
  /\ user' = IF running = 0 THEN "done" ELSE "open"
  /\ UNCHANGED <<blocking, mutex, touch, opc, pressed, opc_call, deviceVars,
                 running, sensed, kill, historyVars>>

\* The loop condition and the test of block_me.
UserTop ==
  /\ user = "top"
  /\ user' = CASE running = 0  -> "done"
               [] blocking = 1 -> "save"
               [] OTHER        -> "open"
  /\ UNCHANGED <<blocking, mutex, touch, opc, pressed, opc_call, deviceVars,
                 running, sensed, kill, historyVars>>

\* modbus_safe_mode (module Modbus has its steps).
UserSave ==
  /\ user = "save"
  /\ user' = "lock"
  /\ UNCHANGED <<blocking, mutex, touch, opc, pressed, opc_call, deviceVars,
                 running, sensed, kill, historyVars>>

UserLock ==
  /\ user = "lock"
  /\ mutex = "none"
  /\ mutex' = "user"
  /\ user' = "recover"
  /\ UNCHANGED <<blocking, touch, opc, pressed, opc_call, deviceVars, running,
                 sensed, kill, historyVars>>

\* modbus_recover_from_safe (module Modbus has its steps).
UserRecover ==
  /\ user = "recover"
  /\ user' = "unlock"
  /\ UNCHANGED <<blocking, mutex, touch, opc, pressed, opc_call, deviceVars,
                 running, sensed, kill, historyVars>>

UserUnlock ==
  /\ user = "unlock"
  /\ mutex' = "none"
  /\ user' = "open"
  /\ UNCHANGED <<blocking, touch, opc, pressed, opc_call, deviceVars, running,
                 sensed, kill, historyVars>>

\* A command arrives through the FIFO and is executed; 'g' first waits for a
\* temperature.  One client at a time: none comes after -k.
UserCommand(get) ==
  /\ user = "open"
  /\ kill = "none"
  /\ user' = IF get THEN "get" ELSE "top"
  /\ slips' = Slipped("user")
  /\ UNCHANGED <<blocking, mutex, touch, opc, pressed, opc_call, deviceVars,
                 running, sensed, kill, stale>>

UserGet ==
  /\ user = "get"
  /\ sensed
  /\ user' = "top"
  /\ UNCHANGED <<blocking, mutex, touch, opc, pressed, opc_call, deviceVars,
                 running, sensed, kill, historyVars>>

\* Mutant: the thread ends without telling the others.
UserKillAlone ==
  /\ user = "open"
  /\ kill = "sent"
  /\ kill' = "read"
  /\ user' = "done"
  /\ UNCHANGED <<blocking, mutex, touch, opc, pressed, opc_call, deviceVars,
                 running, sensed, historyVars>>

\* 'k' arrives through the FIFO.
UserKill ==
  /\ user = "open"
  /\ kill = "sent"
  /\ kill' = "read"
  /\ running' = 0
  /\ user' = "done"
  /\ UNCHANGED <<blocking, mutex, touch, opc, pressed, opc_call, deviceVars,
                 sensed, historyVars>>

User ==
  \/ UserTop \/ UserSave \/ UserLock \/ UserRecover \/ UserUnlock
  \/ UserGet \/ UserKill

-----------------------------------------------------------------------------
(* The OPC UA server: main thread, one callback at a time. *)

OpcCall(call) ==
  /\ opc = "idle"
  /\ running = 1
  /\ call = "redraw" => Redraws
  /\ opc_call' = call
  /\ opc' = "gate"
  /\ UNCHANGED <<blocking, mutex, touch, user, pressed, deviceVars, running,
                 sensed, kill, historyVars>>

\* block_client of opc_server.c: the test, then the wait.
OpcGate ==
  /\ opc = "gate"
  /\ opc' = IF blocking = 1 THEN "lock" ELSE "run"
  /\ UNCHANGED <<blocking, mutex, touch, user, pressed, opc_call, deviceVars,
                 running, sensed, kill, historyVars>>

OpcLock ==
  /\ opc = "lock"
  /\ mutex = "none"
  /\ mutex' = "opc"
  /\ opc' = "unlock"
  /\ UNCHANGED <<blocking, touch, user, pressed, opc_call, deviceVars, running,
                 sensed, kill, historyVars>>

\* Mutant: the mutex stays locked.
OpcKeepLock ==
  /\ opc = "unlock"
  /\ opc' = "run"
  /\ UNCHANGED <<blocking, mutex, touch, user, pressed, opc_call, deviceVars,
                 running, sensed, kill, historyVars>>

OpcUnlock ==
  /\ opc = "unlock"
  /\ mutex' = "none"
  /\ opc' = "run"
  /\ UNCHANGED <<blocking, touch, user, pressed, opc_call, deviceVars, running,
                 sensed, kill, historyVars>>

\* The callback's own work.  Reading waits for a temperature; ReDraw ends with
\* a switch to the temperature screen.
OpcRun ==
  /\ opc = "run"
  /\ opc_call = "read" => sensed
  /\ opc_call = "redraw" => Len(tx) < MaxTx
  /\ tx' = IF opc_call = "redraw" THEN Append(tx, "redraw") ELSE tx
  /\ slips' = Slipped("opc")
  /\ opc' = "idle" /\ opc_call' = "none"
  /\ UNCHANGED <<blocking, mutex, touch, user, pressed, screen,
                 running, sensed, kill, stale>>

\* The EndServer method does not look at blocking.
EndServer ==
  /\ opc = "idle"
  /\ running = 1
  /\ running' = 0
  /\ UNCHANGED <<blocking, mutex, touch, user, opc, pressed, opc_call,
                 deviceVars, sensed, kill, historyVars>>

\* UA_Server_run returns.
OpcExit ==
  /\ opc = "idle"
  /\ running = 0
  /\ opc' = "done"
  /\ UNCHANGED <<blocking, mutex, touch, user, pressed, opc_call, deviceVars,
                 running, sensed, kill, historyVars>>

Opc == OpcGate \/ OpcLock \/ OpcUnlock \/ OpcRun \/ OpcExit

-----------------------------------------------------------------------------

\* Thread start_send_data reads the first temperature; it ends with running.
Sense ==
  /\ ~sensed
  /\ running = 1
  /\ sensed' = TRUE
  /\ UNCHANGED <<blocking, mutex, touch, user, opc, pressed, opc_call,
                 deviceVars, running, kill, historyVars>>

\* Somebody runs "temperature -k".
IssueKill ==
  /\ kill = "none"
  /\ kill' = "sent"
  /\ UNCHANGED <<blocking, mutex, touch, user, opc, pressed, opc_call,
                 deviceVars, running, sensed, historyVars>>

Step ==
  \/ Press \/ Touch \/ Device
  \/ User \/ \E get \in BOOLEAN : UserCommand(get)
  \/ \E call \in Calls : OpcCall(call)
  \/ Opc \/ EndServer
  \/ Sense \/ IssueKill

\* The process is gone.
Gone == Ended /\ UNCHANGED vars

Next ==
  \/ ~Ended /\ Step
  \/ Gone

Spec == Init /\ [][Next]_vars

\* Every thread that can go on does, the device executes what it is sent, and
\* the sensor answers.  Nothing is assumed of the operator, of the clients that
\* issue commands, or of who gets the mutex.
Fairness ==
  /\ WF_vars(~Ended /\ Touch)
  /\ WF_vars(~Ended /\ Device)
  /\ WF_vars(~Ended /\ User)
  /\ WF_vars(~Ended /\ Opc)
  /\ WF_vars(~Ended /\ Sense)

FairSpec == Spec /\ Fairness

-----------------------------------------------------------------------------
(* Properties. *)

TypeOK ==
  /\ blocking \in {0, 1} /\ running \in {0, 1}
  /\ mutex \in {"none", "touch", "user", "opc"}
  /\ touch \in {"press", "slide", "lock", "flag", "show_x", "unflag", "unlock",
                "show_t", "done"}
  /\ user \in {"top", "save", "lock", "recover", "unlock", "open", "get", "done"}
  /\ opc \in {"idle", "gate", "lock", "unlock", "run", "done"}
  /\ pressed \in {"none", "t", "x"} /\ screen \in {"t", "x"}
  /\ opc_call \in Calls \cup {"none"}
  /\ tx \in Seq({"t", "x", "redraw"})
  /\ sensed \in BOOLEAN /\ stale \in BOOLEAN
  /\ kill \in {"none", "sent", "read"}
  /\ slips \in [{"user", "opc"} -> 0..2]

\* The clients are kept out for as long as blocking is set: whoever waits for
\* the mutex cannot get it.
HeldWhileBlocking == blocking = 1 /\ ~stale => mutex = "touch"

\* The test of `blocking` and the work behind it are not atomic, but at most one
\* command of each client gets past it each time the latency screen is shown.
SlipOnce == blocking = 1 /\ ~stale => slips["user"] <= 1 /\ slips["opc"] <= 1

\* Whenever the touch thread waits for the operator and its switches are
\* executed, the clients are blocked exactly while the latency screen is shown
\* -- unless a ReDraw slipped past the gate.
ScreenAgrees ==
  touch = "press" /\ ~OwnSwitchPending /\ ~stale /\ (Redraws => slips["opc"] = 0)
    => (screen = "x" <=> blocking = 1)

\* The touch thread never waits for the mutex it holds itself, unless a ReDraw
\* slipped past the gate or a press was reported for a screen already left.
SelfLockNeedsSlip ==
  touch = "lock" /\ mutex = "touch" => stale \/ (Redraws /\ slips["opc"] > 0)

\* Once the operator has left the latency screen for good, no client waits for
\* ever.
BlockedClientsWake ==
  <>[](blocking = 0) => []<>(Ended \/ user # "lock") /\ []<>(Ended \/ opc # "lock")

\* Usage text of client.c: -k kills the current server.
KillStops == kill = "sent" ~> Ended

\* A -k issued after the first temperature has been read kills the server once
\* the operator has left the latency screen for good.
KillStopsAfterwards ==
  <>[](blocking = 0) /\ [](kill # "none" => sensed) => KillStops

-----------------------------------------------------------------------------
(* The inductive invariant behind the safety properties: as long as no press  *)
(* was stale, who holds the mutex, where the threads are and what the device  *)
(* has been told agree.                                                       *)

Own(i) == i \in DOMAIN tx /\ tx[i] # "redraw"

NoSlip == Redraws => slips["opc"] = 0

\* Each thread holds the mutex exactly between its lock and its unlock.
Holders ==
  /\ mutex = "user"  <=> user \in {"recover", "unlock"}
  /\ mutex = "opc"   <=> opc = "unlock"
  /\ mutex = "touch" <=> blocking = 1 \/ touch \in {"flag", "unlock"}

\* blocking follows the position of the touch thread.
FlagFollows ==
  /\ touch \in {"flag", "unlock", "show_t"} => blocking = 0
  /\ touch \in {"show_x", "unflag"} => blocking = 1
  /\ touch = "slide" /\ pressed = "x" => blocking = 1
  /\ touch \in {"lock", "slide"} /\ pressed = "t" /\ blocking = 1 => ~NoSlip
  /\ touch = "lock" => pressed = "t"

\* At most one switch of the touch thread is under way, and while one is, the
\* thread waits for the next press.
OneSwitch ==
  /\ \A i, j \in DOMAIN tx : Own(i) /\ Own(j) => i = j
  /\ OwnSwitchPending => touch \in {"press", "done"}

\* The latency screen is only shown, or about to be, while blocking is set (or
\* while the switch back is not yet sent or executed).
LatencyOnlyBlocked ==
  /\ \A i \in DOMAIN tx : tx[i] = "x" => blocking = 1
  /\ screen = "x" /\ ~OwnSwitchPending /\ touch \notin {"unlock", "show_t"}
       => blocking = 1

\* Once the latency screen is asked for, it is what the device ends up with,
\* unless a ReDraw slips.
BlockedShowsLatency ==
  blocking = 1 /\ touch \notin {"show_x", "unflag"} /\ NoSlip =>
    IF tx = <<>> THEN screen = "x" ELSE tx[Len(tx)] = "x"

\* A client that has used its slip is on its way to the gate.
SlippedWaits ==
  blocking = 1 =>
    /\ slips["user"] <= 1 /\ slips["opc"] <= 1
    /\ slips["user"] = 1 => user \in {"top", "get", "save", "lock", "done"}
    /\ slips["opc"] = 1 => opc \in {"idle", "gate", "lock", "done"}

GateInv ==
  /\ TypeOK
  /\ opc_call = "redraw" => Redraws
  /\ ~stale => /\ Holders /\ FlagFollows /\ OneSwitch
               /\ LatencyOnlyBlocked /\ BlockedShowsLatency /\ SlippedWaits
=============================================================================
