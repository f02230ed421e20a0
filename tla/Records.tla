------------------------------ MODULE Records ------------------------------
(***************************************************************************)
(* The tables ptop keeps its samples in, composed with the main loop that   *)
(* fills, reads and prunes them: insert_ps, insert_sys_info, freeup_all of  *)
(* database.c and the windows of energy.c.                                  *)
(*                                                                          *)
(* Rows are told apart by their time stamp only, the second in which their  *)
(* cycle called time(NULL): some time after the signal that began it, whose *)
(* handler has set the next alarm already.  One active process is followed; *)
(* it has a row per cycle.                                                  *)
(***************************************************************************)
EXTENDS MainLoop, FiniteSets

CONSTANTS
  MaxTime,      \* bound: the clock
  MaxRows,      \* bound: cycles that begin in one second
  MaxEarly,     \* bound: seconds in which a resize makes a cycle begin
  MaxFails,     \* bound: statements that the server fails
  MaxLag,       \* bound: seconds that begin between the end of pause() and time(NULL)
  MaxSignals    \* bound: signals that start a cleanup

ASSUME RecordsAssumption ==
  /\ MaxTime \in Nat
  /\ MaxRows \in Nat
  /\ MaxEarly \in Nat
  /\ MaxFails \in Nat
  /\ MaxLag \in Nat
  /\ MaxSignals \in Nat

VARIABLES
  now,          \* time(NULL)
  ctime,        \* the time stamp of the current cycle
  ps,           \* ps[t]: rows of the process in process_info with time t
  sys,          \* sys[t]: rows of sys_info with time t
  \* History, not in the program:
  written,      \* written[t]: rows of the process with time t ever stored
  early,        \* time stamps of the cycles that a resize made begin
  woken,        \* what ended the last pause
  lag,          \* seconds that have begun since
  fails         \* how many statements have failed

tables  == <<ps, sys, written, fails>>
waking  == <<woken, lag>>
recVars == <<vars, now, ctime, tables, early, waking>>

Times == 0 .. MaxTime
NoRows == [t \in Times |-> 0]

RecordsTypeOK ==
  /\ TypeOK
  /\ now \in Times
  /\ ctime \in 0 .. now
  /\ ps \in [Times -> Nat]
  /\ sys \in [Times -> Nat]
  /\ written \in [Times -> Nat]
  /\ early \in SUBSET Times
  /\ woken \in {"alarm", "resize"}
  /\ lag \in 0 .. MaxLag
  /\ fails \in 0 .. MaxFails

\* system_init emptied the tables; alarm_handler(0) counts as the first alarm.
RecInit ==
  /\ Init
  /\ now = 0
  /\ ctime = 0
  /\ ps = NoRows
  /\ sys = NoRows
  /\ written = NoRows
  /\ early = {}
  /\ woken = "alarm" /\ lag = 0
  /\ fails = 0

-----------------------------------------------------------------------------
\* Mutant: the time stamp is rounded up.
RecBeginRoundsUp ==
  /\ Begin
  /\ ctime' = now + 1
  /\ early' = IF woken = "resize" THEN early \cup {now} ELSE early
  /\ UNCHANGED <<now, tables, waking>>

\* ctime = time(NULL).
RecBegin ==
  /\ Begin
  /\ ctime' = now
  /\ early' = IF woken = "resize" THEN early \cup {now} ELSE early
  /\ UNCHANGED <<now, tables, waking>>

\* Two statements, one after the other: each opens a connection of its own, each may
\* fail on its own, and the failure is ignored.
Statements(okPs, okSys) ==
  /\ fails' = fails + (IF okPs THEN 0 ELSE 1) + (IF okSys THEN 0 ELSE 1)
  /\ fails' <= MaxFails

\* INSERT of a row with time t.
Stored(table, t, ok) == IF ok THEN [table EXCEPT ![t] = @ + 1] ELSE table

\* The rows of a cycle carry its time stamp.
RecSample ==
  /\ Sample
  /\ written[ctime] < MaxRows
  /\ \E okPs, okSys \in BOOLEAN :
       /\ Statements(okPs, okSys)
       /\ ps' = Stored(ps, ctime, okPs)
       /\ written' = Stored(written, ctime, okPs)
       /\ sys' = Stored(sys, ctime, okSys)
  /\ UNCHANGED <<now, ctime, early, waking>>

\* Mutant: DELETE ... where time <= now - interval.
WithoutOldest(table, interval, ok) ==
  [t \in Times |-> IF ok /\ t + interval <= now THEN 0 ELSE table[t]]

\* DELETE ... where time < now - interval.
Without(table, interval, ok) ==
  [t \in Times |-> IF ok /\ t + interval < now THEN 0 ELSE table[t]]

\* freeup_all: a statement per table.
Freeup(interval) ==
  /\ \E okPs, okSys \in BOOLEAN :
       /\ Statements(okPs, okSys)
       /\ ps' = Without(ps, interval, okPs)
       /\ sys' = Without(sys, interval, okSys)
  /\ UNCHANGED written

\* cycle % CLEAN_INTERVAL == 0: freeup_all(CLEAN_INTERVAL).
RecPrune ==
  /\ Prune
  /\ IF cycle % CleanEvery = 0 THEN Freeup(CleanEvery) ELSE UNCHANGED tables
  /\ UNCHANGED <<now, ctime, early, waking>>

\* clean_stat_data in the course of a cleanup: freeup_all(0).
RecCleanStep ==
  /\ CleanStep
  /\ IF stage = "rows" THEN Freeup(0) ELSE UNCHANGED tables
  /\ UNCHANGED <<now, ctime, early, waking>>

\* A second passes, with or without an alarm that is set.
RecClock ==
  /\ now < MaxTime
  /\ now' = now + 1
  /\ \/ Tick \/ Expire
     \/ timer = 0 /\ pc # "ended" /\ UNCHANGED vars
  /\ IF pc = "wake" THEN lag < MaxLag /\ lag' = lag + 1 ELSE UNCHANGED lag
  /\ UNCHANGED <<ctime, tables, early, woken>>

\* What ends a pause begins a cycle.
Wakes(signal) == IF pc = "pause" THEN woken' = signal /\ lag' = 0 ELSE UNCHANGED waking

RecDeliver ==
  /\ Deliver
  /\ Wakes("alarm")
  /\ UNCHANGED <<now, ctime, tables, early>>

RecResize ==
  /\ Resize
  /\ pc = "pause" => Cardinality(early \cup {now}) <= MaxEarly
  /\ Wakes("resize")
  /\ UNCHANGED <<now, ctime, tables, early>>

RecOther ==
  /\ \/ SampleAborts \/ NoTerminal \/ TooNarrow \/ Show
     \/ NoKey \/ Prompt \/ Quit \/ OtherKey \/ CleanExit \/ Crash
     \/ KeyPressed \/ Answer
     \/ \E sig \in Signals : Killed(sig) \/ Caught(sig)
  /\ Cardinality(blocked') <= MaxSignals
  /\ UNCHANGED <<now, ctime, tables, early, waking>>

\* The end of the program, and of the bounded time.
RecEnded ==
  /\ pc = "ended" \/ now = MaxTime \/ written[ctime] = MaxRows
  /\ UNCHANGED recVars

RecNext ==
  \/ RecBegin \/ RecSample \/ RecPrune \/ RecCleanStep
  \/ RecClock \/ RecDeliver \/ RecResize \/ RecOther
  \/ RecEnded

RecSpec == RecInit /\ [][RecNext]_recVars

-----------------------------------------------------------------------------
\* The window of a display: show_proc_stat asks energy.c for the last Interval
\* seconds up to the time stamp of the cycle.
Window == {t \in Times : t <= ctime /\ ctime < t + Interval}

\* CPUEnergy joins the two tables on the time stamp: each pair adds the power of one
\* row of sys_info, in the share of one row of process_info.
Charges(t) == ps[t] * sys[t]

(***************************************************************************)
(* Properties.                                                              *)
(***************************************************************************)

\* CPUEnergy computes what the process consumed in the window (energy.c:111): no row
\* of it is charged more than once, although nothing but the time stamp says which
\* rows belong together, and the stamp is taken some time after the alarm.  (Of seconds
\* in which a resize made a cycle begin see below.)
ChargedOnce == pc = "select" => \A t \in Window \ early : Charges(t) <= ps[t]

\* A display sees every row stored for its window: pruning every CLEAN_INTERVAL cycles
\* by CLEAN_INTERVAL seconds never takes one away too early, however long a cycle
\* or a prompt lasts.
WindowIntact == pc = "select" => \A t \in Window : ps[t] = written[t]

\* The same for every second: a display is about length seconds, resizes or not.
ChargedOnceAlways == pc = "select" => \A t \in Window : Charges(t) <= ps[t]

-----------------------------------------------------------------------------
(***************************************************************************)
(* The inductive invariant, next to that of MainLoop.                       *)
(***************************************************************************)

\* No row has a time stamp that is still to come.
StampInv ==
  \A t \in Times : t > ctime => ps[t] = 0 /\ sys[t] = 0 /\ written[t] = 0

\* A second has at most one row of sys_info, unless a resize made cycles begin in it.
PairInv == MaxLag < Interval =>
  /\ \A t \in Times \ early : sys[t] <= 1
  /\ pc = "sample" /\ ctime \notin early => sys[ctime] = 0

\* For a cycle has its time stamp before the next alarm expires.
AlarmInv == MaxLag < Interval =>
  /\ pending => ctime < now \/ ctime \in early
  /\ pc = "wake" /\ woken = "alarm" =>
       /\ ~ pending
       /\ timer + lag >= Interval
       /\ sys[now] = 0 \/ now \in early

\* What is missing was pruned, and so long ago that no later window reaches it.
PrunedInv ==
  pc \notin {"stop", "ended"} =>
    \A t \in Times : ps[t] # written[t] =>
      t + CleanEvery < (IF pc \in {"pause", "wake"} THEN now ELSE ctime)

RecInv == RecordsTypeOK /\ StampInv /\ PairInv /\ AlarmInv /\ PrunedInv

=============================================================================
