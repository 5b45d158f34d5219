------------------------------- MODULE Gesture -------------------------------
(***************************************************************************)
(* server.c, get_touch_instructions: from the press the screen reports to  *)
(* the direction of the slide.  While the finger is down the touch thread  *)
(* asks for its position again and again, keeps the positions in a ring    *)
(* and counts, for each one, whether it lies to the right or to the left   *)
(* of the ones before it.  A slide in the wrong direction lights a hint.   *)
(*                                                                         *)
(* The screen answers late or not at all and pushes texts of its own into  *)
(* the same stream, of which each recv takes up to 16 bytes.  What the     *)
(* caller does with the direction is module Blocking.                      *)
(***************************************************************************)
EXTENDS Frames, FiniteSets

CONSTANTS
  COORD_SAVE_MAX,   \* positions in the ring
  TRIES,            \* polls without a position before the gesture is given up
  Points,           \* positions <<x, y>> of the finger
  MaxMail,          \* bound: messages of the screen not yet read
  MaxRequests,      \* bound: requests the screen has not answered
  MaxSamples        \* bound: positions the screen reports in one gesture

ASSUME GestureAssumption ==
  /\ COORD_SAVE_MAX \in Nat /\ COORD_SAVE_MAX >= 3
  /\ TRIES \in Nat
  /\ MaxMail \in Nat /\ MaxRequests \in Nat /\ MaxSamples \in Nat

\* The screen has some hundred pixels each way: the high byte of a coordinate is
\* never the second byte of a header.
ASSUME PointsAssumption ==
  Points \subseteq (0..(HEAD_L * 256 - 1)) \X (0..(HEAD_L * 256 - 1))

VARIABLES
  phase,      \* "press": waits for a press; "poll": at the loop; "recv"
  screen_id, coord, len, index, trend,   \* the fields of `touch`; only x is kept
              \* of a position, and coord[COORD_SAVE_MAX] is what lies behind
  reversal,   \* its last bit
  try,
  hint,       \* per screen: the value of its touch_warn variable
  finger,     \* "up", or the screen it is on
  mail,       \* messages sent by the screen and not yet read, oldest first;
              \* the first may have lost its beginning to an earlier recv
  requests,   \* position requests the screen has not answered
  samples, last, stroke,    \* history of the gesture: positions taken, the last
              \* one, and how they moved
  given_up    \* history: screens whose last gesture ended without a lift

touchVars == <<screen_id, coord, len, index, trend, reversal, try>>
wireVars == <<finger, mail, requests>>
pathVars == <<samples, last, stroke>>
vars == <<phase, touchVars, hint, wireVars, pathVars, given_up>>

Screens == {"t", "x"}

\* memset(&touch, 0, sizeof(touch)) and the local variables.
Cleared ==
  /\ screen_id' = "none"
  /\ coord' = [i \in 0..COORD_SAVE_MAX |-> 0]
  /\ len' = 0 /\ index' = 0 /\ trend' = 0 /\ reversal' = 0 /\ try' = TRIES
  /\ samples' = 0 /\ last' = 0 /\ stroke' = "none"

Init ==
  /\ phase = "press"
  /\ screen_id = "none"
  /\ coord = [i \in 0..COORD_SAVE_MAX |-> 0]
  /\ len = 0 /\ index = 0 /\ trend = 0 /\ reversal = 0 /\ try = TRIES
  /\ hint = [s \in Screens |-> 0]
  /\ finger = "up" /\ mail = <<>> /\ requests = 0
  /\ samples = 0 /\ last = 0 /\ stroke = "none"
  /\ given_up = {}

-----------------------------------------------------------------------------
(* The screen (external). *)

Message(kind, bytes) == [kind |-> kind, bytes |-> bytes]

Push(kind, bytes) ==
  /\ Len(mail) < MaxMail
  /\ mail' = Append(mail, Message(kind, bytes))

\* The operator puts a finger on a screen.
PutDown(s) ==
  /\ finger = "up"
  /\ finger' = s
  /\ Push("press", PressText(IF s = "t" THEN 0 ELSE 1))
  /\ UNCHANGED <<phase, touchVars, hint, requests, pathVars, given_up>>

TakeOff ==
  /\ finger # "up"
  /\ finger' = "up"
  /\ Push("lift", LiftText)
  /\ UNCHANGED <<phase, touchVars, hint, requests, pathVars, given_up>>

\* The answer to a request: a position while the finger is down, otherwise that
\* it is off, or that nothing is new.
Respond(bytes) ==
  /\ requests > 0
  /\ requests' = requests - 1
  /\ Push("answer", bytes)
  /\ UNCHANGED <<phase, touchVars, hint, finger, pathVars, given_up>>

Position(x, y) ==
  /\ finger # "up"
  /\ samples + Len(mail) < MaxSamples /\ stroke # "mixed"
  /\ Respond(Answer(UPDATED, 1, x, y))

Off == finger = "up" /\ Respond(Answer(UPDATED, LIFTED, 0, 0))
Nothing == Respond(Answer(0, 0, 0, 0))

Screen ==
  \/ \E s \in Screens : PutDown(s)
  \/ TakeOff
  \/ \E p \in Points : Position(p[1], p[2])
  \/ Off \/ Nothing

-----------------------------------------------------------------------------
(* recv of up to RBUF bytes. *)

\* The unread bytes of the first i messages.
Stream[i \in 0..MaxMail] ==
  IF i = 0 THEN <<>> ELSE Stream[i - 1] \o mail[i].bytes

Unread == Stream[Len(mail)]
Chunk == SubSeq(Unread, 1, IF Len(Unread) < RBUF THEN Len(Unread) ELSE RBUF)

\* The messages once the first n bytes have been read.
Rest(n) ==
  LET whole == {i \in DOMAIN mail : Len(Stream[i]) <= n}
      k     == Cardinality(whole)
  IN  IF k = Len(mail) THEN <<>>
      ELSE <<[mail[k + 1] EXCEPT !.bytes =
                SubSeq(@, n - Len(Stream[k]) + 1, Len(@))]>>
           \o SubSeq(mail, k + 2, Len(mail))

Received == mail # <<>> /\ mail' = Rest(Len(Chunk))

-----------------------------------------------------------------------------
(* The touch thread. *)

\* Waiting for a press: whatever else arrives, or arrives in front of it, is
\* thrown away.
WaitPress ==
  /\ phase = "press"
  /\ Received
  /\ screen_id' = CASE Begins(Chunk, PressText(0)) -> "t"
                    [] Begins(Chunk, PressText(1)) -> "x"
                    [] OTHER -> "none"
  /\ phase' = IF screen_id' = "none" THEN "press" ELSE "poll"
  /\ UNCHANGED <<coord, len, index, trend, reversal, try, hint, finger, requests,
                 pathVars, given_up>>

\* The loop goes on: get_touch_coord asks for a position.
Ask ==
  /\ phase = "poll" /\ try > 0
  /\ try' = try - 1
  /\ requests' = IF requests < MaxRequests THEN requests + 1 ELSE requests
  /\ phase' = "recv"
  /\ UNCHANGED <<screen_id, coord, len, index, trend, reversal, hint, finger, mail,
                 pathVars, given_up>>

\* get_touch_instructions returns the trend (0 when there was no position), and
\* its caller starts it again.
Return ==
  /\ phase' = "press"
  /\ Cleared

\* The tries are used up.
GiveUp ==
  /\ phase = "poll" /\ try = 0
  /\ Return
  /\ given_up' = given_up \cup {screen_id}
  /\ UNCHANGED <<hint, wireVars>>

\* What get_touch_coord may make of the bytes recv returns.
Coords == {Coord(Chunk, junk) : junk \in BOOLEAN}

\* Mutant: the hint stays as it is.
SeeLiftLit(c) ==
  /\ c.kind = "lift"
  /\ given_up' = given_up \ {screen_id}
  /\ Return
  /\ UNCHANGED <<hint, finger, requests>>

\* The finger is off: the hint of the screen the slide began on goes out.
SeeLift(c) ==
  /\ c.kind = "lift"
  /\ hint' = [hint EXCEPT ![screen_id] = 0]
  /\ given_up' = given_up \ {screen_id}
  /\ Return
  /\ UNCHANGED <<finger, requests>>

\* Mutant: an empty answer gives its try back too.
MissFree(c) ==
  /\ c.kind = "none"
  /\ try' = try + 1
  /\ phase' = "poll"
  /\ UNCHANGED <<screen_id, coord, len, index, trend, reversal, hint, finger,
                 requests, pathVars, given_up>>

\* No position.
Miss(c) ==
  /\ c.kind = "none"
  /\ phase' = "poll"
  /\ UNCHANGED <<touchVars, hint, finger, requests, pathVars, given_up>>

\* Mutant: in slot 0 the position itself is taken for the one before it.
BeforeOwn(i) ==
  CASE i = 0 -> coord[0] + coord[COORD_SAVE_MAX - 1]
    [] i = 1 -> coord[1] + coord[0]
    [] OTHER -> coord[i] + coord[i - 1]

\* The sum of the two positions before slot i of the ring, as the code finds them.
Before(i) ==
  CASE i = 0 -> coord[COORD_SAVE_MAX - 1] + coord[COORD_SAVE_MAX - 2]
    [] i = 1 -> coord[0] + coord[COORD_SAVE_MAX - 1]
    [] OTHER -> coord[i - 1] + coord[i - 2]

\* 1: to the right of the average of the two, -1: to the left.
Side(i, x) ==
  LET average == Before(i) \div 4
      half    == x \div 2
  IN  IF average > half THEN -1 ELSE IF average < half THEN 1 ELSE 0

\* The hints: on the temperature screen a slide to the left is wrong, on the
\* latency screen one to the right; both blink, and stay as they are when the
\* finger moves the right way.
HintAfter(side, odd) ==
  CASE side = -1 /\ screen_id = "t" -> [hint EXCEPT !["t"] = odd]
    [] side = 1  /\ screen_id = "x" -> [hint EXCEPT !["x"] = 2 * odd]
    [] side = 0                     -> [hint EXCEPT ![screen_id] = 0]
    [] OTHER                        -> hint

\* How the path goes on with a position x.  To count as a move to the left, a
\* step of one is too small for the halving in the code.
Direction(x) ==
  IF x > last THEN "right" ELSE IF x = last THEN "still"
  ELSE IF x <= last - 2 THEN "left" ELSE "mixed"

StrokeAfter(x) ==
  IF samples = 0 THEN "first"
  ELSE IF samples = 1 \/ stroke = Direction(x) THEN Direction(x)
  ELSE "mixed"

\* Mutant: nothing puts index back.
SampleUnwrapped(x, y) ==
  LET n    == (IF index = COORD_SAVE_MAX THEN y ELSE len) + 1
      odd  == 1 - reversal
      side == Side(index, x)
  IN
  /\ coord' = [coord EXCEPT ![index] = x]
  /\ len' = n
  /\ IF n > 2
     THEN /\ reversal' = odd
          /\ trend' = trend + side
          /\ hint' = HintAfter(side, odd)
     ELSE UNCHANGED <<reversal, trend, hint>>
  /\ index' = index + 1
  /\ samples' = samples + 1 /\ last' = x /\ stroke' = StrokeAfter(x)

\* One more position.  The ring is turned back one late: the position after the
\* last slot lands behind the ring, where its y is the low half of len.
Sample(x, y) ==
  LET n    == (IF index = COORD_SAVE_MAX THEN y ELSE len) + 1
      odd  == 1 - reversal
      side == Side(index, x)
  IN
  /\ coord' = [coord EXCEPT ![index] = x]
  /\ len' = n
  /\ IF n > 2
     THEN /\ reversal' = odd
          /\ trend' = trend + side
          /\ hint' = HintAfter(side, odd)
     ELSE UNCHANGED <<reversal, trend, hint>>
  /\ index' = IF index >= COORD_SAVE_MAX THEN 0 ELSE index + 1
  /\ samples' = samples + 1 /\ last' = x /\ stroke' = StrokeAfter(x)

\* A position was read; it gives its try back.
Take(c) ==
  /\ c.kind = "at"
  /\ Sample(c.x, c.y)
  /\ try' = try + 1
  /\ phase' = "poll"
  /\ UNCHANGED <<screen_id, finger, requests, given_up>>

\* The recv of get_touch_coord returns something, or nothing within its second.
Recv ==
  /\ phase = "recv"
  /\ \/ Received /\ \E c \in Coords : SeeLift(c) \/ Miss(c) \/ Take(c)
     \/ mail = <<>> /\ Miss(NoCoord) /\ UNCHANGED mail

Thread == WaitPress \/ Ask \/ GiveUp \/ Recv

Next == Thread \/ Screen

Spec == Init /\ [][Next]_vars

\* The thread waits for nothing but a recv that times out.
FairSpec == Spec /\ WF_vars(Thread)

-----------------------------------------------------------------------------
(* Properties. *)

\* What is read as a position is one the finger can have, never bytes of something
\* else.
Readable ==
  phase = "recv" => \A c \in Coords : c.kind = "at" => <<c.x, c.y>> \in Points

TypeOK ==
  /\ Readable
  /\ phase \in {"press", "poll", "recv"}
  /\ screen_id \in Screens \cup {"none"}
  /\ phase # "press" => screen_id \in Screens
  /\ coord \in [0..COORD_SAVE_MAX -> Nat]
  /\ len \in Nat /\ index \in 0..COORD_SAVE_MAX
  /\ trend \in Int /\ reversal \in {0, 1}
  /\ try \in 0..TRIES
  /\ hint \in [Screens -> 0..2]
  /\ finger \in Screens \cup {"up"}
  /\ requests \in Nat
  /\ samples \in Nat /\ last \in Nat
  /\ stroke \in {"none", "first", "still", "right", "left", "mixed"}
  /\ given_up \subseteq Screens

\* The first whole answer among the first n unread bytes, by where the messages
\* really begin.
FirstAnswer(n) ==
  LET whole == {i \in DOMAIN mail : /\ mail[i].kind = "answer"
                                    /\ Len(mail[i].bytes) = 12
                                    /\ Len(Stream[i]) <= n}
  IN  IF whole = {} THEN 0
      ELSE Len(Stream[CHOOSE i \in whole : \A j \in whole : i <= j]) - 12 + 6

\* parse_read_reg finds exactly the first whole answer in whatever recv returns,
\* cut anywhere, in front of texts and behind the tail of an answer already half
\* read -- although it looks at bytes behind the received ones.
ParserAgrees ==
  phase = "recv" =>
    \A n \in 1..Len(Chunk), junk \in BOOLEAN :
      Parse(Buffer(SubSeq(Chunk, 1, n), junk), n, TOUCH_REG) = FirstAnswer(n)

\* A finger that keeps moving one way is seen to do so from the third position
\* on, and one that rests is not seen to move: neither the slot behind the ring
\* nor the wrong neighbours used after it, nor a len overwritten by a coordinate,
\* turns a slide around.
SteadyRecognised ==
  samples >= 3 =>
    /\ stroke = "right" => trend > 0
    /\ stroke = "left" => trend < 0
    /\ stroke = "still" => trend = 0

\* Outside a gesture a hint is lit only on a screen whose last gesture was given
\* up; during one, also on the screen it is on.
HintAccounted ==
  \A s \in Screens : hint[s] # 0 => s \in given_up \cup {screen_id}

\* Once the finger is off for good the thread comes back to waiting for a press,
\* whether or not the lift is ever seen.
GestureEnds == <>[](finger = "up") => []<>(phase = "press")

\* The answers under way that will be taken for a position.
IsPosition(m) ==
  m.kind = "answer" /\ Len(m.bytes) = 12 /\ m.bytes[7] = UPDATED /\ m.bytes[8] # LIFTED

Positions == {i \in DOMAIN mail : IsPosition(mail[i])}

\* How many steps the thread can still take before it waits for a press, if the
\* screen reports no further position.
Remaining ==
  2 * try + 2 * Cardinality(Positions) + (IF phase = "recv" THEN 1 ELSE 0)

\* Once the finger is off, every step of a gesture uses something up that nothing
\* gives back: an empty answer a try, a position still under way itself, although
\* it gives its try back.
CountsDown ==
  [][phase # "press" =>
       \/ phase' = "press"
       \/ phase' # phase /\ Remaining' < Remaining
       \/ phase' = phase /\ (finger = "up" => Remaining' = Remaining)]_vars
=============================================================================
