---------------------------- MODULE EnergyTables ----------------------------
(***************************************************************************)
(* What a display adds to the tables of Records: the energies of the last   *)
(* Interval seconds (energy.c), kept in rows of device_energy and           *)
(* process_energy (display.c, database.c).                                  *)
(*                                                                          *)
(* A row is told by the seconds that its energies sum up; that a query which*)
(* fails yields 0 is not told apart.  Nothing removes a row of the two      *)
(* tables (freeup_device_energy and freeup_process_energy are not called);  *)
(* rows of earlier runs of the program are left out of account.             *)
(***************************************************************************)
EXTENDS Records

VARIABLES
  device,       \* device[t]: rows of device_energy that include the second t
  process       \* process[t]: rows of the process in process_energy that do

energies == <<device, process>>
enVars   == <<recVars, energies>>

EnInit ==
  /\ RecInit
  /\ device = NoRows
  /\ process = NoRows

\* The energies of a process sum up its rows in the window, each by a query of its own
\* on process_info (NtwkEnergy, DiskEnergy, MemoryEnergy; CPUEnergy where it finds a
\* row of sys_info as well).
ProcessRow == {t \in Window : ps[t] > 0}

\* The energies of the device sum up the rows of sys_info (systemEnergy).
DeviceRow == {t \in Window : sys[t] > 0}

\* INSERT of a row that sums up some seconds; its failure is ignored.
Inserted(rows, seconds) ==
  {rows, [t \in Times |-> rows[t] + (IF t \in seconds THEN 1 ELSE 0)]}

\* persist_device_energy; persists_process_energy, if the followed process is among
\* those listed.
Display ==
  /\ device' \in Inserted(device, DeviceRow)
  /\ process' \in Inserted(process, ProcessRow)

EnNext ==
  /\ RecNext
  /\ IF pc = "show" /\ pc' = "select" THEN Display ELSE UNCHANGED energies

EnSpec == EnInit /\ [][EnNext]_enVars

-----------------------------------------------------------------------------
\* A resize made a cycle begin after the second t, so early that both can be in the
\* window of one display.
Disturbed(t) == \E e \in early : t <= e /\ e < t + Interval

Claimed(t) == device[t] > 0 \/ process[t] > 0

\* "Process level energy consumption in a time interval" (database.h:48): the rows of
\* the two tables may be added up, for no second is in two of them - although the
\* interval counts seconds, displays count cycles, and a prompt makes a cycle
\* shorter - unless a resize made a cycle begin after that second.
ClaimedOnce ==
  \A t \in Times : Disturbed(t) \/ (device[t] <= 1 /\ process[t] <= 1)

-----------------------------------------------------------------------------
(***************************************************************************)
(* The inductive invariant, next to those of Records and MainLoop.          *)
(***************************************************************************)

DisplayDue == cycle % ShowEvery = 0

\* What a display has claimed, it or the pause after it still sees ...
InDisplay(t) ==
  /\ t <= ctime
  /\ \/ pc \in {"select", "key", "prune"} \cup Prompts /\ DisplayDue
     \/ pc = "pause" /\ ~ DisplayDue

\* ... in the next cycle, which does not display, the alarm of the one after it is
\* a whole interval away from that second ...
NextCycleLong(t) ==
  /\ t <= ctime
  /\ t + Interval <= now + timer
  /\ pending => timer = 0
  /\ pc = "pause" \/ (pc \in {"wake", "sample", "prune"} /\ ~ DisplayDue)

\* ... so the alarm comes when the second is out of the window, while a resize disturbs
\* it if it is not ...
NextCycleOver(t) ==
  /\ t <= ctime
  /\ pc = "wake"
  /\ woken = "resize" \/ t + Interval <= now

\* ... and then the second is out of every window to come.
OutOfWindow(t) == t + Interval <= ctime

Settled(t) == InDisplay(t) \/ NextCycleLong(t) \/ NextCycleOver(t) \/ OutOfWindow(t)

EnergyInv ==
  /\ device \in [Times -> Nat] /\ process \in [Times -> Nat]
  /\ ClaimedOnce
  /\ pc \in {"show", "select", "key"} \cup Prompts => DisplayDue
  /\ pc \notin {"stop", "ended"} => \A t \in Times :
       Claimed(t) /\ ~ Disturbed(t) => Settled(t)

=============================================================================
