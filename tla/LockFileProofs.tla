--------------------------- MODULE LockFileProofs ---------------------------
(***************************************************************************)
(* Theorems about LockFile, for any number of processes.                   *)
(***************************************************************************)
EXTENDS LockFile, TLAPS

-----------------------------------------------------------------------------
(* Whoever serves without the lock was overtaken. *)

\* A process between its test and its set found the lock free, and it still is
\* unless somebody has overtaken it.
SetMayFail == \A p \in Processes : at[p] = "set" => holder = "none" \/ raced[p]

RaceInv == TypeOK /\ HolderRuns /\ UnlockedWasRaced /\ SetMayFail

LEMMA RaceInit == Init => RaceInv
BY LockFileAssumption
   DEF Init, RaceInv, TypeOK, HolderRuns, UnlockedWasRaced, SetMayFail, Running

LEMMA RaceNext == RaceInv /\ [Next]_vars => RaceInv'
<1> SUFFICES ASSUME RaceInv, [Next]_vars PROVE RaceInv'
  OBVIOUS
<1> USE LockFileAssumption
    DEF RaceInv, TypeOK, HolderRuns, UnlockedWasRaced, SetMayFail, Running
<1>1. ASSUME NEW p \in Processes, Start(p) PROVE RaceInv'
  BY <1>1 DEF Start
<1>2. ASSUME NEW p \in Processes, Test(p) PROVE RaceInv'
  BY <1>2 DEF Test
<1>3. ASSUME NEW p \in Processes, SetLock(p) PROVE RaceInv'
  BY <1>3 DEF SetLock
<1>4. ASSUME NEW p \in Processes, Connect(p) PROVE RaceInv'
  BY <1>4 DEF Connect
<1>5. ASSUME NEW p \in Processes, End(p) PROVE RaceInv'
  BY <1>5 DEF End
<1>6. CASE UNCHANGED vars
  BY <1>6 DEF vars
<1> QED
  BY <1>1, <1>2, <1>3, <1>4, <1>5, <1>6 DEF Next

\* A server runs without the lock only if another process took the lock between
\* its is_already_running and its lock_running.
THEOREM UnlockedIsRaced == Spec => []UnlockedWasRaced
<1>1. RaceInv => UnlockedWasRaced
  BY DEF RaceInv
<1> QED
  BY RaceInit, RaceNext, <1>1, PTL DEF Spec

-----------------------------------------------------------------------------
(* One server, as long as start-ups do not overlap. *)

\* A process that is about to set the lock is alone with that, and finds the
\* lock free; a server that runs has it.
AloneInSet ==
  \A p \in Processes : at[p] = "set" =>
    holder = "none" /\ \A q \in Processes : at[q] = "set" => q = p

RunningHolds == \A p \in Processes : Running(p) => holder = p

SerialInv == TypeOK /\ HolderRuns /\ AloneInSet /\ RunningHolds

LEMMA SerialInit == Init => SerialInv
BY LockFileAssumption
   DEF Init, SerialInv, TypeOK, HolderRuns, AloneInSet, RunningHolds, Running

LEMMA SerialNext == ASSUME Serial PROVE SerialInv /\ [Next]_vars => SerialInv'
<1> SUFFICES ASSUME SerialInv, [Next]_vars PROVE SerialInv'
  OBVIOUS
<1> USE LockFileAssumption
    DEF SerialInv, TypeOK, HolderRuns, AloneInSet, RunningHolds, Running
<1>1. ASSUME NEW p \in Processes, Start(p) PROVE SerialInv'
  BY <1>1 DEF Start
<1>2. ASSUME NEW p \in Processes, Test(p) PROVE SerialInv'
  BY <1>2, Serial DEF Test
<1>3. ASSUME NEW p \in Processes, SetLock(p) PROVE SerialInv'
  BY <1>3 DEF SetLock
<1>4. ASSUME NEW p \in Processes, Connect(p) PROVE SerialInv'
  BY <1>4 DEF Connect
<1>5. ASSUME NEW p \in Processes, End(p) PROVE SerialInv'
  BY <1>5 DEF End
<1>6. CASE UNCHANGED vars
  BY <1>6 DEF vars
<1> QED
  BY <1>1, <1>2, <1>3, <1>4, <1>5, <1>6 DEF Next

\* With start-ups that do not overlap, at most one server drives the converter.
THEOREM OneServerAtATime == ASSUME Serial PROVE Spec => []OneServer
<1>1. SerialInv => OneServer
  BY DEF SerialInv, RunningHolds, OneServer
<1> QED
  BY SerialInit, SerialNext, <1>1, PTL DEF Spec
=============================================================================
