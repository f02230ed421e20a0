------------------------------ MODULE Console ------------------------------
(***************************************************************************)
(* The parts of the control that MainLoop takes for single steps, in        *)
(* detail: the start (main and system_init of ptop.c), the two prompts      *)
(* (showhelp, getnumval and the key for kill in display.c) and how the      *)
(* cleanup closes the counters of the cpus (close_all_counters of eperf.c). *)
(* A signal may come between any two of these steps, and run a cleanup from *)
(* its beginning on top of an unfinished one.                               *)
(*                                                                          *)
(* Until the loop is entered the variables of MainLoop hold the values that *)
(* it begins with.                                                          *)
(***************************************************************************)
EXTENDS MainLoop, Integers

CONSTANTS
  NrCpus,       \* nr_cpus: perf counters of the whole system
  HelpLines,    \* lines of the help text
  HelpRows,     \* HelpRows[l]: rows of the window that line l takes; more than one
                \* if it is wider than the terminal (LEAST_COLUMS is 30)
  PromptRows,   \* rows that the prompts take, the first of which is the last row
  WinLines,     \* rows of the help window
  IntWidth,     \* how many values an int has
  MaxTyped      \* bound: the largest number somebody types (a long)

ASSUME ConsoleAssumption ==
  /\ NrCpus \in Nat \ {0}
  /\ HelpLines \in Nat
  /\ HelpRows \in [1 .. HelpLines -> Nat \ {0}]
  /\ PromptRows \in Nat \ {0}
  /\ WinLines \in Nat \ {0}
  /\ IntWidth \in Nat \ {0}
  /\ MaxTyped \in Nat

VARIABLES
  boot,         \* where system_init is; "up" in main_loop
  held,         \* held[c]: the array entry fd[c] is a descriptor
  opened,       \* the cpus whose counter is open
  ctr, half,    \* where the innermost close_all_counters is: the cpu, and
                \* whether it has done the first of two assignments
  lin,          \* lines of the help text printed so far
  unread,       \* rows printed since the last key
  wait,         \* showhelp waits for a key: for the next line, or at the end
  killpid       \* the pid of the prompt; 0 until it is known

counterVars == <<held, opened, ctr, half>>
helpVars    == <<lin, unread, wait>>
killVars    == <<killpid>>
conVars     == <<vars, boot, counterVars, helpVars, killVars>>

CpuIds == 1 .. NrCpus

ConTypeOK ==
  /\ TypeOK
  /\ boot \in {"db", "perf", "rows", "up"}
  /\ held \in [CpuIds -> BOOLEAN]
  /\ opened \in SUBSET CpuIds
  /\ ctr \in 1 .. NrCpus + 1
  /\ half \in BOOLEAN
  /\ lin \in 0 .. HelpLines
  /\ unread \in Nat
  /\ wait \in {"no", "line", "end"}
  /\ killpid \in Int

ConInit ==
  /\ Init
  /\ boot = "db"
  /\ held = [c \in CpuIds |-> FALSE]
  /\ opened = {}
  /\ ctr = 1 /\ half = FALSE
  /\ lin = 0 /\ unread = 0 /\ wait = "no"
  /\ killpid = 0

-----------------------------------------------------------------------------
\* init_stat_data: whether the server answers or not, it returns 1.
BootDb ==
  /\ boot = "db"
  /\ boot' = "perf"
  /\ UNCHANGED counterVars

\* init_perf: a counter for each cpu; the kernel may refuse it.
BootPerf ==
  /\ boot = "perf"
  /\ boot' = "rows"
  /\ opened' \in SUBSET CpuIds
  /\ held' = [c \in CpuIds |-> c \in opened']
  /\ UNCHANGED <<ctr, half>>

\* clean_stat_data, and on to main_loop.
BootRows ==
  /\ boot = "rows"
  /\ boot' = "up"
  /\ UNCHANGED counterVars

Boot ==
  /\ pc # "ended"
  /\ BootDb \/ BootPerf \/ BootRows
  /\ UNCHANGED <<vars, helpVars, killVars>>

-----------------------------------------------------------------------------
\* Mutant: paging begins a screen of lines too late.
WindowFullLate(line) == line >= WinLines

\* if (lin >= winlines-2)
WindowFull(line) == line + 2 >= WinLines

\* showhelp prints a line, and waits for a key once as many lines are printed as the
\* window has.
HelpLine ==
  /\ pc = "help" /\ wait = "no"
  /\ lin < HelpLines
  /\ lin' = lin + 1
  /\ unread' = unread + HelpRows[lin + 1]
  /\ wait' = IF WindowFull(lin) THEN "line" ELSE "no"
  /\ UNCHANGED <<vars, killVars>>

\* "End of help - press any key to continue"
HelpEnd ==
  /\ pc = "help" /\ wait = "no"
  /\ lin = HelpLines
  /\ wait' = "end"
  /\ UNCHANGED <<vars, lin, unread, killVars>>

\* A key shows the next line.
HelpKey ==
  /\ pc = "help" /\ wait = "line"
  /\ unread' = 0
  /\ wait' = "no"
  /\ UNCHANGED <<vars, lin, killVars>>

\* Mutant: showhelp returns to the loop without the alarm.
HelpLeaveSilently ==
  /\ pc = "help" /\ wait # "no"
  /\ pc' = "prune"
  /\ UNCHANGED <<timer, pending, cycle, display, shutdown, helpVars, killVars>>

\* The key 'q', or any key at the end; the next help begins at its first line.
HelpLeave ==
  /\ pc = "help" /\ wait # "no"
  /\ Answer
  /\ lin' = 0 /\ unread' = 0 /\ wait' = "no"
  /\ UNCHANGED killVars

-----------------------------------------------------------------------------
\* What a long becomes as an int.
ToInt(long) ==
  LET low == long % IntWidth
  IN  IF 2 * low >= IntWidth THEN low - IntWidth ELSE low

\* getnumval: the number typed, or the value now if nothing or no number was typed.
GetNumVal(valuenow) == 0 .. MaxTyped \cup {valuenow}

\* The pid: 0 and -1 are nothing, 1 is refused (a message that is never displayed).
AskPid ==
  /\ pc = "kill" /\ killpid = 0
  /\ \E n \in GetNumVal(0) :
       IF ToInt(n) \in {0, -1, 1}
         THEN Answer /\ UNCHANGED killpid
         ELSE killpid' = ToInt(n) /\ UNCHANGED vars
  /\ UNCHANGED helpVars

\* The signal, and kill(); that it may fail changes nothing.
AskSignal ==
  /\ pc = "kill" /\ killpid # 0
  /\ killpid' = 0
  /\ Answer
  /\ UNCHANGED helpVars

-----------------------------------------------------------------------------
\* Mutant: the array entry is cleared before the counter is closed.
CloseCounterMarkFirst ==
  /\ half' = (held[ctr] /\ ~ half)
  /\ held' = [held EXCEPT ![ctr] = FALSE]
  /\ opened' = IF half THEN opened \ {ctr} ELSE opened
  /\ ctr' = IF half' THEN ctr ELSE ctr + 1

\* if (fd[counter] <= 0) continue; close(fd[counter]); fd[counter] = -1;
CloseCounter ==
  /\ half' = (held[ctr] /\ ~ half)
  /\ opened' = IF half' THEN opened \ {ctr} ELSE opened
  /\ held' = IF half THEN [held EXCEPT ![ctr] = FALSE] ELSE held
  /\ ctr' = IF half' THEN ctr ELSE ctr + 1

\* close_all_counters, one assignment after the other.
CloseStep ==
  /\ pc = "stop" /\ stage = "close"
  /\ ctr <= NrCpus
  /\ CloseCounter
  /\ UNCHANGED <<vars, boot, helpVars, killVars>>

\* The steps of the cleanup that MainLoop has; each close_all_counters begins with
\* the first cpu.
ConCleanStep ==
  /\ CleanStep
  /\ stage = "close" => ctr = NrCpus + 1
  /\ IF stage = "rows" THEN ctr' = 1 /\ half' = FALSE ELSE UNCHANGED <<ctr, half>>
  /\ UNCHANGED <<boot, held, opened, helpVars, killVars>>

-----------------------------------------------------------------------------
\* Steps that are as in MainLoop.
LoopProgram ==
  \/ Begin \/ Sample \/ SampleAborts \/ NoTerminal \/ TooNarrow \/ Show
  \/ NoKey \/ Prompt \/ Quit \/ OtherKey \/ Prune
  \/ ~ Unsafe /\ CleanExit

ConProgram ==
  \/ Boot
  \/ ~ Unsafe /\ ConCleanStep
  \/ CloseStep
  \/ /\ boot = "up"
     /\ HelpLine \/ HelpEnd
     /\ UNCHANGED <<boot, counterVars>>
  \/ /\ boot = "up"
     /\ LoopProgram
     /\ UNCHANGED <<boot, counterVars, helpVars, killVars>>

User ==
  /\ boot = "up"
  /\ HelpKey \/ HelpLeave \/ AskPid \/ AskSignal
  /\ UNCHANGED <<boot, counterVars>>

\* Signals come during the start, too.
ConOutside ==
  \/ /\ \/ boot = "up" /\ (KeyPressed \/ Resize)
        \/ \E sig \in Signals : Killed(sig) \/ Caught(sig)
        \/ Unsafe /\ CleanExit
        \/ Crash
     /\ UNCHANGED <<boot, counterVars, helpVars, killVars>>
  \/ Unsafe /\ ConCleanStep

ConClock ==
  /\ boot = "up"
  /\ Clock
  /\ UNCHANGED <<boot, counterVars, helpVars, killVars>>

ConEnded == Ended /\ UNCHANGED conVars

ConNext == ConProgram \/ User \/ ConOutside \/ ConClock \/ ConEnded

\* As in MainLoop: the program runs and time passes.
ConSpec == ConInit /\ [][ConNext]_conVars /\ WF_conVars(ConProgram) /\ WF_conVars(ConClock)

-----------------------------------------------------------------------------
(***************************************************************************)
(* Properties.                                                              *)
(***************************************************************************)

\* Start, prompts and cleanup in detail do what MainLoop says of them as single
\* steps, and get done what MainLoop says gets done (main, system_init, showhelp,
\* getnumval, close_all_counters).
ImplementsLoop == Spec

\* When showhelp waits for a key, "when the window is full" (display.c:292), all it has
\* printed since the last key is still in the window, above the prompt.
HelpReadable == wait # "no" => unread + PromptRows <= WinLines

\* An end through cleanstop has closed every counter that was open, also when a
\* signal comes between close() and the assignment that forgets the descriptor, and
\* its own cleanup starts over (close_all_counters).
CountersClosed == how = "cleaned" => opened = {}

-----------------------------------------------------------------------------
(***************************************************************************)
(* The inductive invariant, next to that of MainLoop.                       *)
(***************************************************************************)

\* What is open can be found in the array, but in the middle of closing it; behind
\* close_all_counters, and before its current cpu, nothing is open.
CounterInv ==
  /\ \A c \in opened : held[c]
  /\ pc = "stop" /\ stage = "close" =>
       /\ half => ctr <= NrCpus /\ held[ctr] /\ ctr \notin opened
       /\ \A c \in CpuIds : c < ctr => c \notin opened
  /\ pc = "stop" /\ stage \in {"free", "exit"} => opened = {}
  /\ CountersClosed

\* The window has room for a line and the prompt, and nothing is wider than it.
HelpFits ==
  /\ WinLines >= 2
  /\ PromptRows = 1
  /\ \A l \in 1 .. HelpLines : HelpRows[l] = 1

\* Then it is full once WinLines - 1 lines are printed, and the program waits.
HelpInv == HelpFits =>
  /\ unread <= lin
  /\ unread = lin \/ WindowFull(lin - 1)
  /\ wait = "line" => WindowFull(lin - 1)
  /\ wait = "no" => unread = 0 \/ ~ WindowFull(lin - 1)
  /\ unread <= WinLines - 1

\* No signal is caught before the loop runs.
BootInv == boot # "up" => pc \in {"wake", "ended"} /\ ~ traps /\ how # "cleaned"

ConInv ==
  /\ ConTypeOK
  /\ BootInv
  /\ CounterInv
  /\ HelpInv

=============================================================================
