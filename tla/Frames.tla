-------------------------------- MODULE Frames --------------------------------
(***************************************************************************)
(* vgus.c: the bytes the screen sends to the touch thread, and the scan    *)
(* for the answer to a register read.  A buffer is a function from byte    *)
(* positions, counted from 0 as in the code.                               *)
(***************************************************************************)
EXTENDS Integers, Sequences

RBUF == 16          \* size of the buffers of recv
HEAD_H == 165       \* h_16(frame_heafer), l_16(frame_heafer)
HEAD_L == 90
READ_REG == 129     \* command 0x81
TOUCH_REG == 5      \* the register get_touch_coord reads
UPDATED == 90       \* first data byte of a fresh touch position
LIFTED == 2         \* touch status: the finger is off

\* read_regs(buf, 0x05, 6): what goes out, and what the buffer holds before recv.
ReadRequest == <<HEAD_H, HEAD_L, 3, READ_REG, TOUCH_REG, 6>>

\* The answer of the screen: a flag, a status, and the coordinates (external).
Answer(flag, status, x, y) ==
  <<HEAD_H, HEAD_L, 9, READ_REG, TOUCH_REG, 6, flag, status,
    x \div 256, x % 256, y \div 256, y % 256>>

\* What the screen sends of its own accord: "press0", "press1", "lift" (external).
PressText(n) == <<112, 114, 101, 115, 115, 48 + n>>
LiftText == <<108, 105, 102, 116>>

\* A byte read through the plain char of the code.
Signed(b) == IF b < 128 THEN b ELSE b - 256

\* Whether the sequence of received bytes begins with a text.
Begins(bytes, text) ==
  Len(bytes) >= Len(text) /\ SubSeq(bytes, 1, Len(text)) = text

\* The buffer once recv has put `bytes` into it.  Behind them lies what the
\* request left there, and then whatever an earlier call left on the stack: zeros
\* or, as the worst case, what would continue a header.
Buffer(bytes, junk) ==
  [i \in 0..(RBUF + 4) |->
     IF i < Len(bytes) THEN bytes[i + 1]
     ELSE IF i < Len(ReadRequest) THEN ReadRequest[i + 1]
     ELSE IF junk THEN <<HEAD_L, 9, READ_REG, TOUCH_REG>>[1 + ((i - Len(bytes)) % 4)]
     ELSE 0]

\* The three tests of parse_read_reg for the beginning of an answer.
Header(buf, p) ==
  buf[p] = HEAD_H /\ buf[p + 1] = HEAD_L /\ buf[p + 3] = READ_REG

\* A length byte of 0x80 or more does not move the scan forward.
STUCK == -1

\* Mutant: an incomplete answer is not told from a whole one.
ParseUnbounded(buf, n, addr) ==
  LET scan[p \in 0..n] ==
        LET size == Signed(buf[p + 2]) + 3 IN
        IF p = n THEN 0
        ELSE IF ~Header(buf, p) THEN scan[p + 1]
        ELSE IF buf[p + 4] = addr THEN p + 6
        ELSE IF size <= 0 THEN STUCK
        ELSE IF n < p + size THEN 0
        ELSE scan[p + size]
  IN  scan[0]

\* parse_read_reg(buf, addr, n): the position of the data in the first answer to
\* register addr, 0 when there is none.  `len` of the code is always n - p.
Parse(buf, n, addr) ==
  LET scan[p \in 0..n] ==
        LET size == Signed(buf[p + 2]) + 3 IN
        IF p = n THEN 0
        ELSE IF ~Header(buf, p) THEN scan[p + 1]
        ELSE IF n < p + size THEN 0
        ELSE IF buf[p + 4] = addr THEN p + 6
        ELSE IF size <= 0 THEN STUCK
        ELSE scan[p + size]
  IN  scan[0]

\* What get_touch_coord makes of the received bytes: "lift" (~0), "none" (0) or a
\* position.  The position (0, 0) cannot be told from "none".
NoCoord == [kind |-> "none", x |-> 0, y |-> 0]
Lift == [kind |-> "lift", x |-> 0, y |-> 0]

Coord(bytes, junk) ==
  LET buf   == Buffer(bytes, junk)
      index == Parse(buf, Len(bytes), TOUCH_REG)
      x     == buf[index + 2] * 256 + buf[index + 3]
      y     == buf[index + 4] * 256 + buf[index + 5]
  IN  IF Begins(bytes, LiftText) THEN Lift
      ELSE IF index <= 0 \/ buf[index] # UPDATED THEN NoCoord
      ELSE IF buf[index + 1] = LIFTED THEN Lift
      ELSE IF x = 0 /\ y = 0 THEN NoCoord
      ELSE [kind |-> "at", x |-> x, y |-> y]
=============================================================================
