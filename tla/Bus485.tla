------------------------------- MODULE Bus485 -------------------------------
(***************************************************************************)
(* The RS-485 port of the USR-410S converter, as the only thread that      *)
(* talks to it (start_send_data) uses it: a request is sent, then recv     *)
(* waits at most one second (SO_RCVTIMEO) for an answer.                   *)
(*                                                                         *)
(* The temperature sensor and the relay board answer in the order of the   *)
(* requests, through one TCP stream.  An answer that misses its timeout    *)
(* stays in the socket and is what the NEXT recv returns; two answers that *)
(* are both there are returned by one recv, and then the CRC over the      *)
(* received bytes does not match.                                          *)
(***************************************************************************)
EXTENDS Integers, Sequences

CONSTANTS
  MaxLate,    \* bound: at most this many timeouts leave an answer behind
  BusLossy    \* whether a request may stay without an answer for ever

ASSUME BusAssumption ==
  /\ MaxLate \in Nat
  /\ BusLossy \in BOOLEAN

VARIABLES
  line,       \* requests that will be answered and whose answer recv has not
              \* returned yet, oldest first
  ready,      \* the first `ready` of them are answered: the socket holds them
  exchange,   \* the request whose recv the thread is in, or "none"
  late,       \* timeouts so far that left an answer behind
  lag         \* how many requests were sent after the one whose answer the
              \* last accepted reading came from

busVars == <<line, ready, exchange, late, lag>>

Kinds == {"temperature", "relay"}

\* A request under way: what it asks for, the answer it will get, and how many
\* requests were sent after it.
Request == [kind : Kinds, val : Nat, age : Nat]

BusInit ==
  /\ line = <<>>
  /\ ready = 0
  /\ exchange = "none"
  /\ late = 0
  /\ lag = 0

-----------------------------------------------------------------------------

\* The entries of the line once one more request has been sent.
Aged == [i \in DOMAIN line |-> [line[i] EXCEPT !.age = @ + 1]]

\* send_and_recv_data up to its recv: the request goes out.  Whether the slave
\* will answer it is settled here, although the thread learns it only later.
Send(kind, val, answered) ==
  /\ exchange = "none"
  /\ answered \/ BusLossy
  /\ exchange' = kind
  /\ line' = IF answered
             THEN Append(Aged, [kind |-> kind, val |-> val, age |-> 0])
             ELSE Aged
  /\ UNCHANGED <<ready, late, lag>>

\* The slave's answer reaches the socket (external).
Answer ==
  /\ ready < Len(line)
  /\ ready' = ready + 1
  /\ UNCHANGED <<line, exchange, late, lag>>

\* recv returns everything the socket holds.
TakeReplies ==
  /\ ready > 0
  /\ line' = SubSeq(line, ready + 1, Len(line))
  /\ ready' = 0
  /\ exchange' = "none"

\* What recv returned is accepted by get_temperature: one whole answer, with a
\* matching CRC, of the sensor (address 1, function 3, 4 data bytes), not zero.
Accepted ==
  /\ ready = 1
  /\ line[1].kind = "temperature"
  /\ line[1].val > 0

\* recv returns an answer that the caller takes as a reading.
RecvReading ==
  /\ Accepted
  /\ TakeReplies
  /\ lag' = line[1].age
  /\ UNCHANGED late

\* recv returns bytes the caller does not use: an answer of the other device,
\* several answers at once, a zero reading, or the relay board's echo.
RecvUnused ==
  /\ TakeReplies
  /\ UNCHANGED <<late, lag>>

\* recv times out.  An answer still under way will be read by a later exchange.
RecvTimeout ==
  /\ ready = 0
  /\ line # <<>> => late < MaxLate
  /\ exchange' = "none"
  /\ late' = IF line # <<>> THEN late + 1 ELSE late
  /\ UNCHANGED <<line, ready, lag>>

\* The connection is made anew: nothing sent before is ever answered.
BusReset ==
  /\ line' = <<>>
  /\ ready' = 0
  /\ exchange' = "none"
  /\ late' = 0
  /\ lag' = 0

-----------------------------------------------------------------------------

BusTypeOK ==
  /\ line \in Seq(Request)
  /\ ready \in Nat
  /\ ready <= Len(line)
  /\ exchange \in Kinds \cup {"none"}
  /\ late \in Nat
  /\ lag \in Nat

\* Every answer that is still to come belongs to an exchange that timed out:
\* the i-th oldest is at most `late` requests old, less the i - 1 before it.
\* This is the inductive form of LagBounded.
LineBounded ==
  \A i \in DOMAIN line :
    line[i].age + i <= late + (IF exchange = "none" THEN 0 ELSE 1)

\* The reading in use is at most as many requests old as there were timeouts
\* that left an answer behind: no exchange but a timed-out one makes the
\* readings staler (get_temperature never tells a late answer from its own).
LagBounded == lag <= late

=============================================================================
