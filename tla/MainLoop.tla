------------------------------ MODULE MainLoop ------------------------------
(***************************************************************************)
(* The control of ptop: main_loop and alarm_handler of ptop.c, the keys of  *)
(* show_proc_stat, the signals, and the ways the program ends (display.c).  *)
(*                                                                          *)
(* One thread does everything.  It is paced by alarm() and pause() only:    *)
(* the SIGALRM handler re-arms the alarm and does nothing else, so pause()  *)
(* returns for ever as long as an alarm is set or its signal is still to be *)
(* delivered whenever it is called - also after the prompts, which cancel   *)
(* the alarm.  SIGINT and SIGTERM may arrive at any point, also while an    *)
(* earlier one is being handled; their handler calls libraries that it may  *)
(* just have interrupted.                                                   *)
(***************************************************************************)
EXTENDS Naturals

CONSTANTS
  Interval,     \* the sample rate, in seconds
  KeyTimer,     \* alarm(3) after a prompt
  ShowEvery,    \* cycle % 3 == 0 displays
  CleanEvery    \* cycle % CLEAN_INTERVAL == 0 prunes

ASSUME MainLoopAssumption ==
  /\ Interval \in Nat \ {0}
  /\ KeyTimer \in Nat \ {0}
  /\ ShowEvery \in Nat \ {0}
  /\ CleanEvery \in Nat \ {0}

VARIABLES
  pc,           \* where main_loop is; "stop" inside cleanstop
  timer,        \* seconds until the alarm expires; 0: none is set
  pending,      \* SIGALRM has been raised and not been delivered
  cycle,        \* the cycle count, modulo what is asked of it
  tty,          \* isatty(1)
  screen,       \* the global screen: displays are wanted
  curses,       \* initscr() has been called and endwin() not
  traps,        \* SIGINT and SIGTERM are caught by cleanstop
  blocked,      \* signals blocked by the handlers on the stack
  stage,        \* where the innermost cleanstop is
  counters,     \* perf counters are open
  frees,        \* how often empty() has been called on the tree
  inside,       \* libraries in the midst of a call that cleanstop interrupted
  how           \* how the program ended

vars == <<pc, timer, pending, cycle, tty, screen, curses, traps, blocked, stage,
          counters, frees, inside, how>>

display  == <<tty, screen, curses, traps>>
handled  == <<blocked, counters, frees, inside>>
shutdown == <<handled, stage, how>>

Signals == {"INT", "TERM"}
Stages  == {"none", "endwin", "rows", "close", "free", "exit"}
Prompts == {"help", "kill"}
Libs    == {"curses", "heap", "exit"}
Cycles  == 0 .. (ShowEvery * CleanEvery - 1)

TypeOK ==
  /\ pc \in {"wake", "sample", "show", "select", "key", "prune", "pause", "stop", "ended"}
            \cup Prompts
  /\ timer \in 0 .. Interval + KeyTimer
  /\ pending \in BOOLEAN
  /\ cycle \in Cycles
  /\ tty \in BOOLEAN /\ screen \in BOOLEAN
  /\ curses \in BOOLEAN /\ traps \in BOOLEAN
  /\ blocked \in SUBSET Signals
  /\ stage \in Stages
  /\ counters \in BOOLEAN
  /\ frees \in 0 .. 1 + 2        \* main's own call and one per signal
  /\ inside \in SUBSET Libs
  /\ how \in {"running", "cleaned", "killed", "aborted"}

\* main_loop calls alarm_handler(0) first, which sets the alarm.
Init ==
  /\ pc = "wake"
  /\ timer = Interval
  /\ pending = FALSE
  /\ cycle = 1 % (ShowEvery * CleanEvery)
  /\ tty \in BOOLEAN
  /\ screen = TRUE
  /\ curses = FALSE
  /\ traps = FALSE
  /\ blocked = {}
  /\ stage = "none"
  /\ counters = TRUE
  /\ frees = 0
  /\ inside = {}
  /\ how = "running"

-----------------------------------------------------------------------------
\* A cycle begins: memset(), and time(NULL), which dates its rows.
Begin ==
  /\ pc = "wake"
  /\ pc' = "sample"
  /\ UNCHANGED <<timer, pending, cycle, display, shutdown>>

\* Mutant: every cycle is displayed.
SampleShowsAlways ==
  /\ pc = "sample"
  /\ pc' = IF screen THEN "show" ELSE "prune"
  /\ UNCHANGED <<timer, pending, cycle, display, shutdown>>

\* One cycle: statistics are read and written.
Sample ==
  /\ pc = "sample"
  /\ pc' = IF screen /\ cycle % ShowEvery = 0 THEN "show" ELSE "prune"
  /\ UNCHANGED <<timer, pending, cycle, display, shutdown>>

\* exit(2) and exit(4) of the readers (a process that vanished before its smaps
\* was read, /proc that cannot be opened).
SampleAborts ==
  /\ pc = "sample"
  /\ pc' = "ended"
  /\ how' = "aborted"
  /\ UNCHANGED <<timer, pending, cycle, display, handled, stage>>

\* cleanstop(): the cleanup begins, whether called or run as a signal handler.
Cleanstop ==
  /\ pc' = "stop"
  /\ stage' = "endwin"

\* show_proc_stat without a terminal: displays are given up for good.
NoTerminal ==
  /\ pc = "show"
  /\ ~ tty
  /\ screen' = FALSE
  /\ pc' = "prune"
  /\ UNCHANGED <<timer, pending, cycle, tty, curses, traps, shutdown>>

\* A terminal with too few columns ends the program.
TooNarrow ==
  /\ pc = "show"
  /\ tty
  /\ screen' = TRUE
  /\ curses' = TRUE
  /\ Cleanstop
  /\ UNCHANGED <<timer, pending, cycle, tty, traps, handled, how>>

\* The display is drawn; signals are caught from the first display on.
Show ==
  /\ pc = "show"
  /\ tty
  /\ screen' = TRUE
  /\ curses' = TRUE
  /\ traps' = TRUE
  /\ pc' = "select"
  /\ UNCHANGED <<timer, pending, cycle, tty, shutdown>>

\* select() times out, or a key is there.
NoKey ==
  /\ pc = "select"
  /\ pc' = "prune"
  /\ UNCHANGED <<timer, pending, cycle, display, shutdown>>

KeyPressed ==
  /\ pc = "select"
  /\ pc' = "key"
  /\ UNCHANGED <<timer, pending, cycle, display, shutdown>>

\* MHELP, MKILLPROC: alarm(0) cancels the alarm, but not a signal that it has raised.
Prompt ==
  /\ pc = "key"
  /\ timer' = 0
  /\ pc' \in Prompts
  /\ UNCHANGED <<pending, cycle, display, shutdown>>

\* MQUIT.
Quit ==
  /\ pc = "key"
  /\ Cleanstop
  /\ UNCHANGED <<timer, pending, cycle, display, handled, how>>

\* Any other key, ERR, or a resize.
OtherKey ==
  /\ pc = "key"
  /\ pc' = "prune"
  /\ UNCHANGED <<timer, pending, cycle, display, shutdown>>

\* Mutant: the clock stays stopped.
AnswerLeavesClock ==
  /\ pc \in Prompts
  /\ pc' = "prune"
  /\ UNCHANGED <<timer, pending, cycle, display, shutdown>>

\* Mutant: the new sample is taken at once.
AnswerSamplesAtOnce ==
  /\ pc \in Prompts
  /\ timer' = KeyTimer
  /\ pc' = "wake"
  /\ UNCHANGED <<pending, cycle, display, shutdown>>

\* The user answers the prompt: alarm(3) forces a new sample.
Answer ==
  /\ pc \in Prompts
  /\ timer' = KeyTimer
  /\ pc' = "prune"
  /\ UNCHANGED <<pending, cycle, display, shutdown>>

\* freeup_all when it is due; cycle++; pause().
Prune ==
  /\ pc = "prune"
  /\ cycle' = (cycle + 1) % (ShowEvery * CleanEvery)
  /\ pc' = "pause"
  /\ UNCHANGED <<timer, pending, display, shutdown>>

-----------------------------------------------------------------------------
\* Mutant: the counters stay open.
NextStageLeaky == [endwin |-> "rows", rows |-> "free", free |-> "exit"]

\* system_clean after endwin(): clean_stat_data, close_all_counters (the counters
\* of the cpus, then empty(tree)), exit().
NextStage == [endwin |-> "rows", rows |-> "close", close |-> "free", free |-> "exit"]

CleanStep ==
  /\ pc = "stop"
  /\ stage \in DOMAIN NextStage
  /\ curses' = (curses /\ stage # "endwin")
  /\ counters' = (counters /\ stage # "close")
  /\ frees' = IF stage = "free" THEN frees + 1 ELSE frees
  /\ stage' = NextStage[stage]
  /\ UNCHANGED <<pc, timer, pending, cycle, tty, screen, traps, blocked, inside, how>>

\* Mutant: the handler sets the alarm and returns, instead of calling exit().
CleanExitReturns ==
  /\ pc = "stop"
  /\ stage = "exit"
  /\ timer' = Interval
  /\ pc' = "pause"
  /\ UNCHANGED <<pending, cycle, display, shutdown>>

CleanExit ==
  /\ pc = "stop"
  /\ stage = "exit"
  /\ pc' = "ended"
  /\ how' = "cleaned"
  /\ UNCHANGED <<timer, pending, cycle, display, handled, stage>>

\* What each stage calls: endwin(); mysql and malloc(); close() alone; free(); exit().
Calls == [endwin |-> {"curses"}, rows |-> {"heap"}, close |-> {}, free |-> {"heap"},
          exit |-> {"exit"}]

\* None of these may be entered while a call of the same library is under way, nor may
\* the tree be freed again: from here on the cleanup may proceed, block or crash.
Unsafe ==
  /\ pc = "stop"
  /\ Calls[stage] \cap inside # {} \/ (stage = "free" /\ frees > 0)

Crash ==
  /\ Unsafe
  /\ pc' = "ended"
  /\ how' = "aborted"
  /\ UNCHANGED <<timer, pending, cycle, display, handled, stage>>

\* SIGINT or SIGTERM before ptop catches them: the process is gone.  Once initscr()
\* has been called the action is not the default one but that of curses, which
\* restores the terminal first.
Killed(sig) ==
  /\ pc # "ended"
  /\ ~ traps
  /\ sig \in Signals
  /\ pc' = "ended"
  /\ how' = "killed"
  /\ curses' = FALSE
  /\ UNCHANGED <<timer, pending, cycle, tty, screen, traps, handled, stage>>

\* The libraries that the program may be in the midst of: MySQL, stdio and newwin()
\* allocate; the display, the keys and the prompts are drawn by curses.
Callers == [heap   |-> {"sample", "show", "prune", "help"},
            curses |-> {"show", "key", "help", "kill"},
            exit   |-> {}]
InUse == IF pc = "stop" THEN Calls[stage] ELSE {lib \in Libs : pc \in Callers[lib]}

\* Mutant: a handler does not block its own signal.
CaughtAgain(sig) ==
  /\ pc # "ended"
  /\ traps
  /\ blocked' = blocked \cup {sig}
  /\ \E libs \in SUBSET InUse : inside' = inside \cup libs
  /\ Cleanstop
  /\ UNCHANGED <<timer, pending, cycle, display, counters, frees, how>>

\* SIGINT or SIGTERM caught: cleanstop runs on top of whatever is running, and the
\* same signal is blocked meanwhile.
Caught(sig) ==
  /\ pc # "ended"
  /\ traps
  /\ sig \notin blocked
  /\ blocked' = blocked \cup {sig}
  /\ \E libs \in SUBSET InUse : inside' = inside \cup libs
  /\ Cleanstop
  /\ UNCHANGED <<timer, pending, cycle, display, counters, frees, how>>

-----------------------------------------------------------------------------
\* A second passes.
Tick ==
  /\ pc # "ended"
  /\ timer > 1
  /\ timer' = timer - 1
  /\ UNCHANGED <<pc, pending, cycle, display, shutdown>>

\* The last second of the alarm: SIGALRM is raised.  It stays one signal if an earlier
\* one is still pending.
Expire ==
  /\ pc # "ended"
  /\ timer = 1
  /\ timer' = 0
  /\ pending' = TRUE
  /\ UNCHANGED <<pc, cycle, display, shutdown>>

\* Any caught signal makes pause() return, and select() fail with EINTR.
Interrupt == pc' = CASE pc = "pause"  -> "wake"
                     [] pc = "select" -> "prune"
                     [] OTHER         -> pc

\* Mutant: alarm_handler does not set the alarm again.
DeliverOnce ==
  /\ pc # "ended"
  /\ pending
  /\ pending' = FALSE
  /\ Interrupt
  /\ UNCHANGED <<timer, cycle, display, shutdown>>

\* alarm_handler runs, wherever the program is: alarm(interval).
Deliver ==
  /\ pc # "ended"
  /\ pending
  /\ pending' = FALSE
  /\ timer' = Interval
  /\ Interrupt
  /\ UNCHANGED <<cycle, display, shutdown>>

\* SIGWINCH, caught by curses.
Resize ==
  /\ pc \in {"pause", "select"}
  /\ curses
  /\ Interrupt
  /\ UNCHANGED <<timer, pending, cycle, display, shutdown>>

Ended == pc = "ended" /\ UNCHANGED vars

-----------------------------------------------------------------------------
\* What the program does by itself.
Program ==
  \/ Begin \/ Sample \/ SampleAborts
  \/ NoTerminal \/ TooNarrow \/ Show
  \/ NoKey \/ Prompt \/ Quit \/ OtherKey
  \/ Prune
  \/ ~ Unsafe /\ (CleanStep \/ CleanExit)

\* What happens to it.  A cleanup that calls what it interrupted may or may not go on.
Outside ==
  \/ KeyPressed \/ Answer \/ Resize
  \/ \E sig \in Signals : Killed(sig) \/ Caught(sig)
  \/ Unsafe /\ (CleanStep \/ CleanExit)
  \/ Crash

Clock == Tick \/ Expire \/ Deliver

Next == Program \/ Outside \/ Clock \/ Ended

\* The program runs and time passes; nobody has to press a key or send a signal.
Spec == Init /\ [][Next]_vars /\ WF_vars(Program) /\ WF_vars(Clock)

-----------------------------------------------------------------------------
(***************************************************************************)
(* Properties.                                                              *)
(***************************************************************************)

\* pause() has no timeout of its own: whenever it is called an alarm must be set, or
\* its signal on the way, whatever alarms expired during the cycle and whatever prompt
\* cancelled them (alarm_handler, MHELP and MKILLPROC of show_proc_stat).
PauseIsTimed == pc = "pause" => timer > 0 \/ pending

\* A pause ends with a new sample, or with the end of the program.
SamplesAgain == pc = "pause" ~> pc \in {"sample", "stop", "ended"}

\* Once a cleanup has begun the program ends, although signals may start the cleanup
\* again - unless it comes to call what a signal has interrupted (cleanstop).
CleanupEnds == pc = "stop" ~> pc = "ended" \/ Unsafe

\* An end that went through cleanstop left nothing behind: the terminal is restored,
\* the counters are closed and the tree is freed, also when one cleanup interrupted
\* another one half way.
CleanedUp == how = "cleaned" => ~ curses /\ ~ counters /\ frees >= 1

\* generic_end is the "function to be called when the program stops" (display.c:208):
\* a program that has ended has left the terminal in order.
TerminalRestored == pc = "ended" => ~ curses

\* empty() frees every node of the tree; the pointer stays, so it must not be called
\* twice.
TreeFreedOnce == frees <= 1

-----------------------------------------------------------------------------
(***************************************************************************)
(* The inductive invariant.                                                 *)
(***************************************************************************)

\* Only a prompt cancels the alarm.
TimerInv ==
  pc \notin Prompts \cup {"stop", "ended"} => timer > 0 \/ pending

\* How far the innermost cleanup has got.
StageInv ==
  /\ pc = "stop" =>
       /\ stage # "none"
       /\ stage # "endwin" => ~ curses
       /\ stage \in {"free", "exit"} => ~ counters
       /\ stage = "exit" => frees >= 1
  /\ how = "cleaned" => pc = "ended"

\* A cleanup frees the tree once; each further one needs a signal not yet blocked.
Handlers == (IF "INT" \in blocked THEN 1 ELSE 0) + (IF "TERM" \in blocked THEN 1 ELSE 0)
FreesInv ==
  /\ pc \notin {"stop", "ended"} => frees = 0 /\ blocked = {}
  /\ pc = "stop" => frees <= Handlers + (IF stage = "exit" THEN 1 ELSE 0)

LoopInv == TypeOK /\ TimerInv /\ StageInv /\ FreesInv /\ CleanedUp

=============================================================================
