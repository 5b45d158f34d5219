-------------------------------- MODULE Fifo --------------------------------
(***************************************************************************)
(* client.c and start_user_interface of server.c: commands travel through  *)
(* one named pipe and the answer to -g through another.  The server opens  *)
(* the command pipe, reads once, closes it, executes what it read and      *)
(* starts over; a client opens it, writes and closes it.                   *)
(*                                                                         *)
(* open of a named pipe waits for the other side, and from then on counts  *)
(* as an end of the pipe; read waits for data or until no writer is left;  *)
(* what nobody has read is lost when the last end is closed; writing with  *)
(* no reader kills the writer (SIGPIPE).                                   *)
(***************************************************************************)
EXTENDS Naturals, Sequences, FiniteSets

CONSTANTS
  Setters,    \* clients that run "temperature -h", -c or -w
  Getters,    \* clients that run "temperature -g"
  Deaths      \* whether a client may be killed between two of its steps

ASSUME FifoAssumption ==
  /\ Setters \cap Getters = {}
  /\ "none" \notin Setters \cup Getters
  /\ Deaths \in BOOLEAN

Clients == Setters \cup Getters

VARIABLES
  client,     \* per client: where it is
  server,     \* where the user interface is
  pipe,       \* commands written and not read, oldest first; a command is the
              \* client that wrote it
  buf,        \* what buf[0] selects: the command last read, or "none"
  reply,      \* whether an answer waits in the reply pipe
  executed,   \* history: the commands executed
  missed,     \* history: the clients that opened the pipe while the server
              \* had still to read or to close it for another one
  met         \* history, per client: the clients that ran at the same time

vars == <<client, server, pipe, buf, reply, executed, missed,
          met>>

Init ==
  /\ client = [c \in Clients |-> "start"]
  /\ server = "top"
  /\ pipe = <<>>
  /\ buf = "none"
  /\ reply = FALSE
  /\ executed = {}
  /\ missed = {}
  /\ met = [c \in Clients |-> {}]

\* The ends of the command pipe.
Writers == {c \in Clients : client[c] \in {"opening", "write", "close"}}
ServerReads == server \in {"open", "read", "close"}

\* The ends of the reply pipe.
Readers == {c \in Clients : client[c] \in {"reply_opening", "reply_read"}}
ServerReplies == server \in {"reply_open", "reply_write", "reply_close"}

Ended(c) == client[c] \in {"done", "empty", "killed"}

-----------------------------------------------------------------------------
(* A client: write_pipe, and read_pipe after -g. *)

UnderWay == {c \in Clients : client[c] # "start" /\ ~Ended(c)}

\* The histories of a client that begins.
Noted(c) ==
  /\ missed' = IF server = "close" \/ (ServerReads /\ pipe # <<>>)
               THEN missed \cup {c} ELSE missed
  /\ met' = [d \in Clients |-> IF d = c THEN UnderWay
                              ELSE IF d \in UnderWay THEN met[d] \cup {c} ELSE met[d]]

\* Mutant: the client does not wait for the server.
EnterNonblocking(c) ==
  /\ client[c] = "start"
  /\ client' = [client EXCEPT ![c] = IF ServerReads THEN "write" ELSE "done"]
  /\ server' = IF server = "open" THEN "read" ELSE server
  /\ Noted(c)
  /\ UNCHANGED <<pipe, buf, reply, executed>>

\* open for writing: returns at once while the server has the pipe open, or is
\* in its own open, which then returns too.
Enter(c) ==
  /\ client[c] = "start"
  /\ client' = [client EXCEPT ![c] = IF ServerReads THEN "write" ELSE "opening"]
  /\ server' = IF server = "open" THEN "read" ELSE server
  /\ Noted(c)
  /\ UNCHANGED <<pipe, buf, reply, executed>>

Write(c) ==
  /\ client[c] = "write"
  /\ IF ServerReads
     THEN /\ pipe' = Append(pipe, c)
          /\ client' = [client EXCEPT ![c] = "close"]
     ELSE /\ client' = [client EXCEPT ![c] = "killed"]
          /\ pipe' = IF Writers = {c} THEN <<>> ELSE pipe
  /\ UNCHANGED <<server, buf, reply, executed, missed, met>>

Close(c) ==
  /\ client[c] = "close"
  /\ client' = [client EXCEPT ![c] = IF c \in Getters THEN "reply_enter" ELSE "done"]
  /\ pipe' = IF ServerReads \/ Writers # {c} THEN pipe ELSE <<>>
  /\ UNCHANGED <<server, buf, reply, executed, missed, met>>

\* open of the reply pipe for reading.
ReplyEnter(c) ==
  /\ client[c] = "reply_enter"
  /\ client' = [client EXCEPT ![c] = IF ServerReplies THEN "reply_read"
                                     ELSE "reply_opening"]
  /\ server' = IF server = "reply_open" THEN "reply_write" ELSE server
  /\ UNCHANGED <<pipe, buf, reply, executed, missed, met>>

\* Mutant: the reply pipe is opened with O_NONBLOCK.
ReplyReadAtOnce(c) ==
  /\ client[c] = "reply_read"
  /\ client' = [client EXCEPT ![c] = IF reply THEN "done" ELSE "empty"]
  /\ reply' = FALSE
  /\ UNCHANGED <<server, pipe, buf, executed, missed, met>>

\* The answer, or nothing when the server has closed the pipe: read_pipe does
\* not look at what read returns, and main prints its buffer as it is.
ReplyRead(c) ==
  /\ client[c] = "reply_read"
  /\ reply \/ ~ServerReplies
  /\ client' = [client EXCEPT ![c] = IF reply THEN "done" ELSE "empty"]
  /\ reply' = FALSE
  /\ UNCHANGED <<server, pipe, buf, executed, missed, met>>

\* The client is killed; its ends are closed.
Die(c) ==
  /\ Deaths
  /\ client[c] # "start" /\ ~Ended(c)
  /\ client' = [client EXCEPT ![c] = "killed"]
  /\ pipe' = IF ServerReads \/ Writers \ {c} # {} THEN pipe ELSE <<>>
  /\ reply' = IF ServerReplies \/ Readers \ {c} # {} THEN reply ELSE FALSE
  /\ UNCHANGED <<server, buf, executed, missed, met>>

ClientStep(c) ==
  \/ Write(c) \/ Close(c) \/ ReplyEnter(c) \/ ReplyRead(c)

-----------------------------------------------------------------------------
(* Thread start_user_interface. *)

\* open for reading: every client that waits in its own open goes on, and with
\* a writer there it returns at once.
ServerEnter ==
  /\ server = "top"
  /\ server' = IF Writers = {} THEN "open" ELSE "read"
  /\ client' = [c \in Clients |-> IF client[c] = "opening" THEN "write" ELSE client[c]]
  /\ UNCHANGED <<pipe, buf, reply, executed, missed, met>>

\* read returns up to 16 bytes: the oldest command and any number of the ones
\* behind it, which are not looked at.
ServerRead ==
  /\ server = "read"
  /\ \E n \in 1..Len(pipe) : pipe' = SubSeq(pipe, n + 1, Len(pipe))
  /\ buf' = Head(pipe)
  /\ server' = "close"
  /\ UNCHANGED <<client, reply, executed, missed, met>>

\* read returns 0, which nobody looks at: buf keeps the last command.
ServerReadNothing ==
  /\ server = "read"
  /\ pipe = <<>> /\ Writers = {}
  /\ server' = "close"
  /\ UNCHANGED <<client, pipe, buf, reply, executed, missed, met>>

ServerClose ==
  /\ server = "close"
  /\ server' = "switch"
  /\ pipe' = IF Writers = {} THEN <<>> ELSE pipe
  /\ UNCHANGED <<client, buf, reply, executed, missed, met>>

\* The commands of module Modbus.
ServerSet ==
  /\ server = "switch"
  /\ buf \notin Getters
  /\ executed' = executed \cup (Setters \cap {buf})
  /\ server' = "top"
  /\ UNCHANGED <<client, pipe, buf, reply, missed, met>>

\* Mutant: the temperature is formatted in a buffer of its own.
ServerGetApart ==
  /\ server = "switch"
  /\ buf \in Getters
  /\ server' = IF Readers = {} THEN "reply_open" ELSE "reply_write"
  /\ client' = [c \in Clients |-> IF client[c] = "reply_opening" THEN "reply_read"
                                  ELSE client[c]]
  /\ UNCHANGED <<pipe, buf, reply, executed, missed, met>>

\* 'g': the temperature is formatted into buf, which then selects no command;
\* open of the reply pipe for writing.
ServerGet ==
  /\ server = "switch"
  /\ buf \in Getters
  /\ buf' = "none"
  /\ server' = IF Readers = {} THEN "reply_open" ELSE "reply_write"
  /\ client' = [c \in Clients |-> IF client[c] = "reply_opening" THEN "reply_read"
                                  ELSE client[c]]
  /\ UNCHANGED <<pipe, reply, executed, missed, met>>

\* Without a reader the server itself is killed.
ServerReply ==
  /\ server = "reply_write"
  /\ server' = IF Readers = {} THEN "killed" ELSE "reply_close"
  /\ reply' = (Readers # {})
  /\ UNCHANGED <<client, pipe, buf, executed, missed, met>>

ServerReplyClose ==
  /\ server = "reply_close"
  /\ server' = "top"
  /\ reply' = (reply /\ Readers # {})
  /\ UNCHANGED <<client, pipe, buf, executed, missed, met>>

ServerStep ==
  \/ ServerEnter \/ ServerRead \/ ServerReadNothing \/ ServerClose
  \/ ServerSet \/ ServerGet \/ ServerReply \/ ServerReplyClose

Next ==
  \/ \E c \in Clients : Enter(c) \/ ClientStep(c) \/ Die(c)
  \/ ServerStep

Spec == Init /\ [][Next]_vars

\* Started processes and the server go on; nobody has to start a client.
FairSpec == Spec /\ WF_vars(ServerStep) /\ \A c \in Clients : WF_vars(ClientStep(c))

-----------------------------------------------------------------------------

Waiting == {"reply_enter", "reply_opening", "reply_read"}

TypeOK ==
  /\ client \in [Clients -> {"start", "opening", "write", "close", "done", "empty",
                             "killed"} \cup Waiting]
  /\ server \in {"top", "open", "read", "close", "switch", "reply_open",
                 "reply_write", "reply_close", "killed"}
  /\ pipe \in Seq(Clients) /\ buf \in Clients \cup {"none"}
  /\ reply \in BOOLEAN /\ executed \subseteq Setters /\ missed \subseteq Clients
  /\ met \in [Clients -> SUBSET Clients]

\* A command whose client ran alone and ended normally was executed by the time
\* the server waits for the next one (usage text of client.c: heating -- 0: off).
NothingLost ==
  server = "open" =>
    \A c \in Setters : client[c] = "done" /\ met[c] = {} => c \in executed

\* Such a command is lost in one way only: its client opened the pipe while the
\* server had still to read or to close it for the one before.  Kills of other
\* clients and whatever else they do never lose it.
LostWasMissed ==
  server = "open" =>
    \A c \in Setters \ missed : client[c] = "done" /\ met[c] = {} => c \in executed

\* As long as no two -g overlap and no client is killed, no client waits for ever
\* to hand over its command: the server is back at its open in the end, whatever
\* it reads again from a pipe that nobody writes to any more.
NobodyHangs ==
  [](\A c \in Clients : client[c] # "killed"
                       /\ (c \in Getters => met[c] \cap Getters = {}))
    => \A c \in Clients : client[c] = "opening" ~> client[c] # "opening"

\* The server is killed by its own answer (write at server.c:342 with nobody
\* reading) only if a client of -g was killed or two of them overlapped: the
\* first may still hold the pipe open when the server opens it for the second.
ServerSurvives ==
  server = "killed" =>
    \E c \in Getters : client[c] = "killed" \/ met[c] \cap Getters # {}

\* No client of -g was killed and no two of them overlapped.
Orderly == \A c \in Getters : client[c] # "killed" /\ met[c] \cap Getters = {}

\* Where the next step waits for nobody.
ServerGoesOn ==
  \/ server \in {"top", "close", "switch", "reply_write", "reply_close"}
  \/ server = "read" /\ (pipe # <<>> \/ Writers = {})

ClientGoesOn(c) ==
  \/ client[c] \in {"write", "close", "reply_enter"}
  \/ client[c] = "reply_read" /\ (reply \/ ~ServerReplies)

\* As long as all -g are orderly, the two pipes never end in everybody waiting for
\* somebody else: when nothing moves, the server is in the open of its loop, and no
\* client has yet to hand over its command.
RestsAtOpen ==
  Orderly /\ ~ServerGoesOn /\ (\A c \in Clients : ~ClientGoesOn(c))
    => server = "open" /\ Writers = {}
=============================================================================
