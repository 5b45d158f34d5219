------------------------------ MODULE SendInfo ------------------------------
(***************************************************************************)
(* usr-410s.c: the send buffers.  A thread copies frames into a send_info  *)
(* and then sends its whole content.  dup_send_info gives the Xenomai and  *)
(* the touch thread a buffer of their own on the screen's connection; the  *)
(* send thread, the user interface and the OPC UA server share the head of *)
(* the list.  copy_to_buf takes the buffer's rwlock for writing, send_data *)
(* only for READING, although it writes `len` too.                         *)
(*                                                                         *)
(* A frame is the number of its copy_to_buf.  The order of frames of       *)
(* different buffers is left out.                                          *)
(***************************************************************************)
EXTENDS Integers, Sequences

CONSTANTS
  Threads,    \* threads that draw
  Infos,      \* the send_infos of one connection
  Owner,      \* the send_info each thread was given
  Own,        \* a send_info that only one thread was given
  MaxFrames   \* bound: copies into one buffer

ASSUME SendInfoAssumption ==
  /\ Owner \in [Threads -> Infos]
  /\ Own \in Infos
  /\ \A s, t \in Threads : Owner[s] = Own /\ Owner[t] = Own => s = t
  /\ MaxFrames \in Nat

VARIABLES
  mem,        \* per buffer, info->buf: the frames in it, oldest first
  len,        \* per buffer, info->len, in frames
  at,         \* per thread: "idle", "filled" (has copied, will send), or how far
              \* it is in send_data: "sent" or "loaded"
  wlen,       \* per thread: what its send returned
  reg,        \* per thread: the value it is about to store into len
  wire,       \* per buffer: the frames sent, oldest first
  alive,      \* the process has not called exit or corrupted its heap
  copied,     \* history, per buffer: the frames copied into it so far
  overlap,    \* history, per buffer: a send began with frames in the buffer
              \* while another one was under way
  lost        \* history: the connection was lost

vars == <<mem, len, at, wlen, reg, wire, alive, copied, overlap, lost>>

Init ==
  /\ mem = [i \in Infos |-> <<>>] /\ len = [i \in Infos |-> 0]
  /\ at = [t \in Threads |-> "idle"]
  /\ wlen = [t \in Threads |-> 0] /\ reg = [t \in Threads |-> 0]
  /\ wire = [i \in Infos |-> <<>>]
  /\ alive = TRUE
  /\ copied = [i \in Infos |-> 0]
  /\ overlap = [i \in Infos |-> FALSE]
  /\ lost = FALSE

-----------------------------------------------------------------------------

\* Thread t holds the rwlock of its buffer for reading.
Sending(t) == at[t] \in {"sent", "loaded"}

Readers(i) == {t \in Threads : Owner[t] = i /\ Sending(t)}

\* The content of the buffer that send hands to the kernel.
Content(i) == SubSeq(mem[i], 1, len[i])

\* Mutant: copy_to_buf does not take the lock.
CopyUnlocked(t) ==
  LET i == Owner[t] IN
  /\ at[t] \in {"idle", "filled"}
  /\ copied[i] < MaxFrames
  /\ len[i] >= 0
  /\ copied' = [copied EXCEPT ![i] = @ + 1]
  /\ mem' = [mem EXCEPT ![i] = Append(Content(i), copied[i] + 1)]
  /\ len' = [len EXCEPT ![i] = @ + 1]
  /\ at' = [at EXCEPT ![t] = "filled"]
  /\ UNCHANGED <<wlen, reg, wire, alive, overlap, lost>>

\* Mutant: a handler draws without sending.
CopyOnly(t) ==
  LET i == Owner[t] IN
  /\ at[t] \in {"idle", "filled"}
  /\ Readers(i) = {}
  /\ copied[i] < MaxFrames
  /\ len[i] >= 0
  /\ copied' = [copied EXCEPT ![i] = @ + 1]
  /\ mem' = [mem EXCEPT ![i] = Append(Content(i), copied[i] + 1)]
  /\ len' = [len EXCEPT ![i] = @ + 1]
  /\ UNCHANGED <<at, wlen, reg, wire, alive, overlap, lost>>

\* copy_to_buf: waits for the readers, appends behind the first len frames.
\* (Growing the buffer keeps them.)
Copy(t) ==
  LET i == Owner[t] IN
  /\ at[t] \in {"idle", "filled"}
  /\ Readers(i) = {}
  /\ copied[i] < MaxFrames
  /\ len[i] >= 0
  /\ copied' = [copied EXCEPT ![i] = @ + 1]
  /\ mem' = [mem EXCEPT ![i] = Append(Content(i), copied[i] + 1)]
  /\ len' = [len EXCEPT ![i] = @ + 1]
  /\ at' = [at EXCEPT ![t] = "filled"]
  /\ UNCHANGED <<wlen, reg, wire, alive, overlap, lost>>

\* send_data up to its send.  Its socket blocks, so the kernel takes all of it.
SendBegin(t) ==
  LET i == Owner[t] IN
  /\ at[t] = "filled"
  /\ len[i] >= 0
  /\ wire' = [wire EXCEPT ![i] = @ \o Content(i)]
  /\ wlen' = [wlen EXCEPT ![t] = len[i]]
  /\ overlap' = [overlap EXCEPT ![i] = @ \/ (Readers(i) # {} /\ len[i] > 0)]
  /\ at' = [at EXCEPT ![t] = "sent"]
  /\ UNCHANGED <<mem, len, reg, alive, copied, lost>>

\* Mutant: the length is not reduced.
SendKeep(t) ==
  /\ at[t] = "sent"
  /\ reg' = [reg EXCEPT ![t] = len[Owner[t]]]
  /\ at' = [at EXCEPT ![t] = "loaded"]
  /\ UNCHANGED <<mem, len, wlen, wire, alive, copied, overlap, lost>>

\* Mutant: what send returned is taken off twice.
SendLoadTwice(t) ==
  /\ at[t] = "sent"
  /\ reg' = [reg EXCEPT ![t] = len[Owner[t]] - 2 * wlen[t]]
  /\ at' = [at EXCEPT ![t] = "loaded"]
  /\ UNCHANGED <<mem, len, wlen, wire, alive, copied, overlap, lost>>

\* info->len -= wlen reads len and writes it, with other readers in between.
SendLoad(t) ==
  /\ at[t] = "sent"
  /\ reg' = [reg EXCEPT ![t] = len[Owner[t]] - wlen[t]]
  /\ at' = [at EXCEPT ![t] = "loaded"]
  /\ UNCHANGED <<mem, len, wlen, wire, alive, copied, overlap, lost>>

SendStore(t) ==
  /\ at[t] = "loaded"
  /\ len' = [len EXCEPT ![Owner[t]] = reg[t]]
  /\ at' = [at EXCEPT ![t] = "idle"]
  /\ UNCHANGED <<mem, wlen, reg, wire, alive, copied, overlap, lost>>

\* Mutant: the -1 of a failed send is taken for a length.
DisconnectUnnoticed(t) ==
  /\ at[t] = "filled"
  /\ wlen' = [wlen EXCEPT ![t] = -1]
  /\ at' = [at EXCEPT ![t] = "sent"]
  /\ lost' = TRUE
  /\ UNCHANGED <<mem, len, reg, wire, alive, copied, overlap>>

\* send fails: the connection is gone, and exit(-1) follows.
Disconnect(t) ==
  /\ at[t] = "filled"
  /\ alive' = FALSE
  /\ lost' = TRUE
  /\ UNCHANGED <<mem, len, at, wlen, reg, wire, copied, overlap>>

\* A negative len: copy_to_buf writes in front of the buffer, send gets a huge
\* size.  The process is not followed any further.
Break(t) ==
  LET i == Owner[t] IN
  /\ len[i] < 0
  /\ \/ at[t] \in {"idle", "filled"} /\ Readers(i) = {}
     \/ at[t] = "filled"
  /\ alive' = FALSE
  /\ UNCHANGED <<mem, len, at, wlen, reg, wire, copied, overlap, lost>>

SendStep(t) == SendBegin(t) \/ SendLoad(t) \/ SendStore(t)

\* The process has ended, or nobody draws.
Rest ==
  /\ ~alive \/ \A t \in Threads : at[t] = "idle"
  /\ UNCHANGED vars

Next ==
  \/ /\ alive
     /\ \E t \in Threads : Copy(t) \/ SendStep(t) \/ Disconnect(t) \/ Break(t)
  \/ Rest

Spec == Init /\ [][Next]_vars

\* Every thread goes on; nobody has to draw.
FairSpec == Spec /\ \A t \in Threads : WF_vars(alive /\ SendStep(t))

-----------------------------------------------------------------------------

TypeOK ==
  /\ mem \in [Infos -> Seq(Nat)] /\ wire \in [Infos -> Seq(Nat)]
  /\ len \in [Infos -> Int] /\ copied \in [Infos -> Nat]
  /\ at \in [Threads -> {"idle", "filled", "sent", "loaded"}]
  /\ wlen \in [Threads -> Nat] /\ reg \in [Threads -> Int]
  /\ alive \in BOOLEAN /\ lost \in BOOLEAN
  /\ overlap \in [Infos -> BOOLEAN]

\* The frames of buffer i that no send has handed over yet.
Unsent(i) == IF Readers(i) = {} THEN Content(i) ELSE <<>>

\* As long as no two sends of a buffer overlapped, every frame copied into it is
\* on the wire or waits to be sent, once and in order.
DeliveredOnce ==
  \A i \in Infos :
    ~overlap[i] => wire[i] \o Unsent(i) = [n \in 1..copied[i] |-> n]

\* The process only ever ends because the connection was lost or because two
\* sends of one buffer overlapped.
EndsForAReason == ~alive => lost \/ \E i \in Infos : overlap[i]

\* Whoever copies sends afterwards: no frame waits in a buffer for ever.
Flushed == \A i \in Infos : []<>(~alive \/ len[i] <= 0)

\* A buffer of one thread is a Stream, whatever the others do.
Promised == INSTANCE Stream WITH
              Frame <- 1..MaxFrames, queued <- Unsent(Own), wire <- wire[Own]

OwnBufferStream == Promised!Spec
=============================================================================
