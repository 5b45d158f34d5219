------------------------------ MODULE LockFile ------------------------------
(***************************************************************************)
(* server.c: how start_server keeps a second server from running.  A       *)
(* process first asks who holds the record lock of LOCK_FILE and gives up  *)
(* when somebody does; then it sets the lock -- and goes on even when that *)
(* fails, because lock_running says 1 and start_server looks for < 0.      *)
(* The kernel releases the lock when the process ends.                     *)
(***************************************************************************)
EXTENDS Naturals

CONSTANTS
  Processes,  \* the temp_server processes that are started
  Serial      \* whether no process asks while another is between asking and
              \* setting, as when systemd alone starts servers

ASSUME LockFileAssumption ==
  /\ Serial \in BOOLEAN
  /\ "none" \notin Processes

VARIABLES
  at,       \* per process: "off", "test", "set", "connect" or "serving"
  holder,   \* the process that holds the lock, or "none"
  raced     \* history, per process: somebody took the lock between its test
            \* and its set

vars == <<at, holder, raced>>

Init ==
  /\ at = [p \in Processes |-> "off"]
  /\ holder = "none"
  /\ raced = [p \in Processes |-> FALSE]

\* Somebody starts temp_server, or systemctl reload does.
Start(p) ==
  /\ at[p] = "off"
  /\ at' = [at EXCEPT ![p] = "test"]
  /\ raced' = [raced EXCEPT ![p] = FALSE]
  /\ UNCHANGED holder

\* Mutant: the answer of F_GETLK is not looked at.
TestUnread(p) ==
  /\ at[p] = "test"
  /\ Serial => \A q \in Processes : at[q] # "set"
  /\ at' = [at EXCEPT ![p] = "set"]
  /\ UNCHANGED <<holder, raced>>

\* is_already_running.
Test(p) ==
  /\ at[p] = "test"
  /\ Serial => \A q \in Processes : at[q] # "set"
  /\ at' = [at EXCEPT ![p] = IF holder = "none" THEN "set" ELSE "off"]
  /\ UNCHANGED <<holder, raced>>

\* Mutant: lock_running closes the file it has locked.
SetLockAndClose(p) ==
  /\ at[p] = "set"
  /\ raced' = [q \in Processes |-> IF at[q] = "set" /\ q # p /\ holder = "none"
                                   THEN TRUE ELSE raced[q]]
  /\ at' = [at EXCEPT ![p] = "connect"]
  /\ UNCHANGED holder

\* lock_running: its failure stops nobody.
SetLock(p) ==
  /\ at[p] = "set"
  /\ holder' = IF holder = "none" THEN p ELSE holder
  /\ raced' = [q \in Processes |-> IF at[q] = "set" /\ q # p /\ holder = "none"
                                   THEN TRUE ELSE raced[q]]
  /\ at' = [at EXCEPT ![p] = "connect"]

\* open_port has connected to both ports of the converter.
Connect(p) ==
  /\ at[p] = "connect"
  /\ at' = [at EXCEPT ![p] = "serving"]
  /\ UNCHANGED <<holder, raced>>

\* The process ends, by itself or killed.
End(p) ==
  /\ at[p] # "off"
  /\ at' = [at EXCEPT ![p] = "off"]
  /\ holder' = IF holder = p THEN "none" ELSE holder
  /\ UNCHANGED raced

Next == \E p \in Processes : Start(p) \/ Test(p) \/ SetLock(p) \/ Connect(p) \/ End(p)

Spec == Init /\ [][Next]_vars

-----------------------------------------------------------------------------

Running(p) == at[p] \in {"connect", "serving"}

TypeOK ==
  /\ at \in [Processes -> {"off", "test", "set", "connect", "serving"}]
  /\ holder \in Processes \cup {"none"}
  /\ raced \in [Processes -> BOOLEAN]

\* One server at a time drives the converter (the message "the server is
\* already running", and "multiple processes lock" in vgus.h).
OneServer == \A p, q \in Processes : Running(p) /\ Running(q) => p = q

\* A server without the lock was overtaken between its test and its set: with
\* nobody starting at the same moment, whoever serves has the lock.
UnlockedWasRaced == \A p \in Processes : Running(p) => holder = p \/ raced[p]

\* Only a process that runs, or is about to, ever keeps others out.
HolderRuns == \A p \in Processes : holder = p => Running(p)
=============================================================================
