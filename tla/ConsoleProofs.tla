---------------------------- MODULE ConsoleProofs ----------------------------
(***************************************************************************)
(* Console, proved for every number of cpus, every help text and window: it *)
(* takes only steps that MainLoop takes, so what is proved of MainLoop holds *)
(* of it; no counter is left open, and no line of help is lost in a window   *)
(* that is wide enough.                                                      *)
(***************************************************************************)
EXTENDS Console, MainLoopProofs

USE DEF CpuIds

\* What Console does in several steps are stutters and one step of the control.
LEMMA ConStepIsStep == [ConNext]_conVars => [Next]_vars
<1> SUFFICES ASSUME [ConNext]_conVars PROVE [Next]_vars
  OBVIOUS
<1>1. CASE ConProgram
  BY <1>1 DEF ConProgram, Boot, ConCleanStep, CloseStep, HelpLine, HelpEnd, LoopProgram,
     Next, Program
<1>2. CASE User
  BY <1>2 DEF User, HelpKey, HelpLeave, AskPid, AskSignal, Next, Outside
<1>3. CASE ConOutside
  BY <1>3 DEF ConOutside, ConCleanStep, Next, Outside
<1>4. CASE ConClock
  BY <1>4 DEF ConClock, Next
<1>5. CASE UNCHANGED conVars
  BY <1>5 DEF conVars
<1>. QED BY <1>1, <1>2, <1>3, <1>4, <1>5 DEF ConNext, ConEnded, conVars

\* For its control part, every behaviour of Console is one of MainLoop (the safety half
\* of ImplementsLoop; that the steps also get done is left to the model checker).
THEOREM ConsoleIsLoop == ConSpec => Init /\ [][Next]_vars
<1>1. ConInit => Init
  BY DEF ConInit
<1>. QED BY <1>1, ConStepIsStep, PTL DEF ConSpec

\* What is proved of MainLoop holds here.
LEMMA ConLoopInvariant == ConSpec => []LoopInv
<1>1. ConInit => LoopInv
  BY InitLoopInv DEF ConInit
<1>2. LoopInv /\ [ConNext]_conVars => LoopInv'
  BY ConStepIsStep, NextLoopInv
<1>. QED BY <1>1, <1>2, PTL DEF ConSpec

-----------------------------------------------------------------------------
\* At the start no handler is installed and no counter is open.
LEMMA InitConInv == ConInit => ConInv
<1> SUFFICES ASSUME ConInit PROVE ConInv
  OBVIOUS
<1>1. ConTypeOK
  <2>1. TypeOK
    BY InitLoopInv DEF ConInit, LoopInv
  <2>2. held \in [CpuIds -> BOOLEAN] /\ half \in BOOLEAN
    BY Zenon DEF ConInit
  <2>3. ctr \in 1 .. NrCpus + 1 /\ lin \in 0 .. HelpLines /\ unread \in Nat
    BY ConsoleAssumption DEF ConInit
  <2>. QED BY <2>1, <2>2, <2>3 DEF ConInit, ConTypeOK
<1>2. BootInv /\ CounterInv /\ HelpInv
  BY ConsoleAssumption
     DEF ConInit, Init, BootInv, CounterInv, CountersClosed, HelpInv, HelpFits
<1>. QED BY <1>1, <1>2 DEF ConInv

\* The start: only here are counters opened, and no cleanup is running.
LEMMA BootStep ==
  ASSUME ConInv, TypeOK', Boot
  PROVE  ConInv'
<1>1. /\ UNCHANGED <<vars, helpVars, killVars, ctr, half>>
      /\ pc = "wake" /\ ~ traps /\ how # "cleaned"
      /\ boot' \in {"perf", "rows", "up"}
  BY DEF Boot, BootDb, BootPerf, BootRows, counterVars, ConInv, BootInv
<1>2. /\ opened' \in SUBSET CpuIds
      /\ held' \in [CpuIds -> BOOLEAN]
      /\ \A c \in opened' : held'[c]
  <2>1. CASE BootPerf
    <3>1. opened' \in SUBSET CpuIds /\ held' = [c \in CpuIds |-> c \in opened']
      BY <2>1 DEF BootPerf
    <3>2. held' \in [CpuIds -> BOOLEAN]
      BY <3>1
    <3>3. \A c \in opened' : held'[c]
      BY <3>1, Zenon
    <3>. QED BY <3>1, <3>2, <3>3
  <2>2. CASE BootDb \/ BootRows
    BY <2>2 DEF BootDb, BootRows, counterVars, ConInv, ConTypeOK, CounterInv
  <2>. QED BY <2>1, <2>2 DEF Boot
<1>3. ConTypeOK'
  BY <1>1, <1>2 DEF ConInv, ConTypeOK, helpVars, killVars
<1>4. BootInv' /\ CounterInv'
  BY <1>1, <1>2 DEF vars, BootInv, CounterInv, CountersClosed
<1>5. HelpInv'
  BY <1>1 DEF ConInv, HelpInv, HelpFits, helpVars, killVars
<1>. QED BY <1>3, <1>4, <1>5 DEF ConInv

\* close_all_counters: the counter is closed before it is forgotten.
LEMMA CloseStepInv ==
  ASSUME ConInv, TypeOK', CloseStep
  PROVE  ConInv'
<1>1. /\ UNCHANGED <<vars, boot, helpVars, killVars>>
      /\ pc = "stop" /\ stage = "close"
      /\ ctr \in CpuIds
  BY ConsoleAssumption DEF CloseStep, ConInv, ConTypeOK
<1>2. \/ /\ half /\ ctr \notin opened /\ ~ half' /\ ctr' = ctr + 1
         /\ opened' = opened /\ held' = [held EXCEPT ![ctr] = FALSE]
      \/ /\ ~ half /\ held[ctr] /\ half' /\ ctr' = ctr
         /\ opened' = opened \ {ctr} /\ held' = held
      \/ /\ ~ half /\ ~ held[ctr] /\ ctr \notin opened /\ ~ half' /\ ctr' = ctr + 1
         /\ opened' = opened /\ held' = held
  BY <1>1 DEF CloseStep, CloseCounter, ConInv, ConTypeOK, CounterInv
<1>3. ConTypeOK'
  BY <1>1, <1>2, ConsoleAssumption
     DEF CloseStep, CloseCounter, ConInv, ConTypeOK, helpVars, killVars
<1>4. CounterInv'
  <2>1. \A c \in opened' : held'[c]
    <3>1. opened' \in SUBSET (CpuIds \ {ctr}) \/ held' = held
      BY <1>2 DEF ConInv, ConTypeOK
    <3>2. \A c \in CpuIds \ {ctr} : held[c] => held'[c]
      BY <1>2 DEF ConInv, ConTypeOK
    <3>3. opened' \subseteq opened
      BY <1>2
    <3>. QED BY <3>1, <3>2, <3>3 DEF ConInv, CounterInv
  <2>2. half' => ctr' <= NrCpus /\ held'[ctr'] /\ ctr' \notin opened'
    BY <1>1, <1>2, ConsoleAssumption
  <2>3. \A c \in CpuIds : c < ctr' => c \notin opened'
    BY <1>1, <1>2, ConsoleAssumption DEF ConInv, CounterInv
  <2>4. CountersClosed'
    BY <1>1, <1>2 DEF vars, ConInv, CounterInv, CountersClosed
  <2>. QED BY <1>1, <2>1, <2>2, <2>3, <2>4 DEF vars, CounterInv
<1>5. BootInv' /\ HelpInv'
  BY <1>1 DEF vars, ConInv, BootInv, HelpInv, HelpFits, helpVars, killVars
<1>. QED BY <1>3, <1>4, <1>5 DEF ConInv

\* The other steps of a cleanup: behind the last cpu nothing is open any more.
LEMMA ConCleanStepInv ==
  ASSUME ConInv, LoopInv, TypeOK', ConCleanStep
  PROVE  ConInv'
<1>1. /\ UNCHANGED <<boot, held, opened, helpVars, killVars>>
      /\ UNCHANGED <<pc, traps, how>>
      /\ pc = "stop" /\ how # "cleaned"
  BY DEF ConCleanStep, CleanStep, LoopInv, StageInv
<1>2. \/ stage = "endwin" /\ stage' = "rows"
      \/ stage = "rows" /\ stage' = "close" /\ ctr' = 1 /\ ~ half'
      \/ stage = "close" /\ stage' = "free" /\ ctr = NrCpus + 1
      \/ stage = "free" /\ stage' = "exit"
  BY DEF ConCleanStep, CleanStep, NextStage
<1>3. stage # "rows" => UNCHANGED <<ctr, half>>
  BY DEF ConCleanStep
<1>4. ConTypeOK'
  <2>1. CASE stage = "rows"
    <3>1. ctr' \in 1 .. NrCpus + 1
      BY <2>1, ConsoleAssumption DEF ConCleanStep
    <3>2. half' \in BOOLEAN
      BY <2>1 DEF ConCleanStep
    <3>. QED BY <1>1, <3>1, <3>2 DEF ConInv, ConTypeOK, helpVars, killVars
  <2>2. CASE stage # "rows"
    BY <1>1, <1>3, <2>2 DEF ConInv, ConTypeOK, helpVars, killVars
  <2>. QED BY <2>1, <2>2
<1>5. CounterInv'
  <2>1. stage' = "close" => ctr' = 1 /\ ~ half'
    BY <1>2
  <2>2. stage' \in {"free", "exit"} => opened = {}
    BY <1>1, <1>2, ConsoleAssumption DEF ConInv, ConTypeOK, CounterInv
  <2>. QED BY <1>1, <2>1, <2>2 DEF ConInv, CounterInv, CountersClosed
<1>6. BootInv' /\ HelpInv'
  BY <1>1 DEF ConInv, BootInv, HelpInv, HelpFits, helpVars, killVars
<1>. QED BY <1>4, <1>5, <1>6 DEF ConInv

-----------------------------------------------------------------------------
\* Paging: lines are printed only while the window has room for them.
LEMMA HelpSteps ==
  ASSUME ConInv, TypeOK', boot = "up", UNCHANGED <<boot, counterVars>>,
         HelpLine \/ HelpEnd \/ HelpKey \/ HelpLeave
  PROVE  ConInv'
<1>1. UNCHANGED <<boot, held, opened, ctr, half, killpid>> /\ boot' = "up"
  BY DEF HelpLine, HelpEnd, HelpKey, HelpLeave, killVars, counterVars
<1>2. /\ lin \in Nat /\ unread \in Nat /\ lin <= HelpLines
      /\ WinLines \in Nat /\ HelpLines \in Nat
      /\ \A l \in 1 .. HelpLines : HelpRows[l] \in Nat
  BY ConsoleAssumption DEF ConInv, ConTypeOK
<1>3. /\ lin' \in 0 .. HelpLines /\ unread' \in Nat
      /\ wait' \in {"no", "line", "end"}
  BY <1>2 DEF HelpLine, HelpEnd, HelpKey, HelpLeave, ConInv, ConTypeOK
<1>4. ConTypeOK'
  BY <1>1, <1>3 DEF ConInv, ConTypeOK
<1>5. pc \in Prompts /\ UNCHANGED how
  BY DEF HelpLine, HelpEnd, HelpKey, HelpLeave, Answer, vars, shutdown, Prompts
<1>6. pc' \in Prompts \cup {"prune"}
  BY <1>5 DEF HelpLine, HelpEnd, HelpKey, HelpLeave, Answer, vars
<1>7. BootInv' /\ CounterInv'
  BY <1>1, <1>5, <1>6 DEF ConInv, BootInv, CounterInv, CountersClosed, Prompts
<1>8. HelpInv'
  <2> SUFFICES ASSUME HelpFits PROVE HelpInv'
    BY DEF HelpInv, HelpFits
  <2>0. /\ unread <= lin /\ unread <= WinLines - 1 /\ WinLines >= 2
        /\ unread = lin \/ WindowFull(lin - 1)
        /\ wait = "line" => WindowFull(lin - 1)
        /\ wait = "no" => unread = 0 \/ ~ WindowFull(lin - 1)
    BY DEF ConInv, HelpInv, HelpFits
  <2>1. CASE HelpLine
    <3>0. unread' = unread + 1 /\ lin' = lin + 1 /\ wait = "no"
      <4>1. lin + 1 \in 1 .. HelpLines
        BY <1>2, <2>1 DEF HelpLine
      <4>. QED BY <2>1, <4>1 DEF HelpLine, HelpFits
    <3>1. CASE WindowFull(lin)
      BY <1>2, <2>0, <2>1, <3>0, <3>1 DEF HelpLine, HelpInv, WindowFull
    <3>2. CASE ~ WindowFull(lin)
      <4>1. ~ WindowFull(lin - 1)
        BY <1>2, <3>2 DEF WindowFull
      <4>. QED BY <1>2, <2>0, <2>1, <3>0, <3>2, <4>1 DEF HelpLine, HelpInv, WindowFull
    <3>. QED BY <3>1, <3>2
  <2>2. CASE HelpEnd
    BY <2>0, <2>2 DEF HelpEnd, HelpInv
  <2>3. CASE HelpKey
    BY <1>2, <2>0, <2>3 DEF HelpKey, HelpInv
  <2>4. CASE HelpLeave
    BY <1>2, <2>0, <2>4 DEF HelpLeave, HelpInv
  <2>. QED BY <2>1, <2>2, <2>3, <2>4
<1>. QED BY <1>1, <1>4, <1>7, <1>8 DEF ConInv

\* The prompt for a pid touches neither the counters nor the help.
LEMMA KillSteps ==
  ASSUME ConInv, TypeOK', boot = "up", UNCHANGED <<boot, counterVars>>,
         AskPid \/ AskSignal
  PROVE  ConInv'
<1>1. UNCHANGED <<boot, held, opened, ctr, half, lin, unread, wait>> /\ boot' = "up"
  BY DEF AskPid, AskSignal, helpVars, counterVars
<1>2. \A n \in GetNumVal(0) : ToInt(n) \in Int
  BY ConsoleAssumption DEF GetNumVal, ToInt
<1>3. killpid' \in Int
  <2>1. CASE AskPid
    BY <1>2, <2>1 DEF AskPid, ConInv, ConTypeOK
  <2>2. CASE AskSignal
    BY <2>2 DEF AskSignal, ConInv, ConTypeOK
  <2>. QED BY <2>1, <2>2
<1>4. ConTypeOK' /\ HelpInv'
  BY <1>1, <1>3 DEF ConInv, ConTypeOK, HelpInv, HelpFits
<1>5. pc = "kill" /\ pc' \in {"kill", "prune"} /\ UNCHANGED how
  BY DEF AskPid, AskSignal, Answer, vars, shutdown
<1>6. BootInv' /\ CounterInv'
  BY <1>1, <1>5 DEF ConInv, BootInv, CounterInv, CountersClosed
<1>. QED BY <1>3, <1>4, <1>6 DEF ConInv

\* Everything else touches the control only; a cleanup that begins, begins with endwin.
LEMMA LoopSteps ==
  ASSUME ConInv, LoopInv, TypeOK', LoopProgram \/ KeyPressed \/ Resize \/ Clock
                                 \/ CleanExit \/ Crash,
         boot = "up", UNCHANGED <<boot, counterVars, helpVars, killVars>>
  PROVE  ConInv'
<1>1. /\ UNCHANGED <<held, opened, ctr, half, lin, unread, wait, killpid>>
      /\ boot' = "up"
  BY DEF counterVars, helpVars, killVars
<1>2. \/ pc' \notin {"stop", "ended"} /\ UNCHANGED how
      \/ pc' = "stop" /\ stage' = "endwin" /\ UNCHANGED how
      \/ pc = "stop" /\ pc' = "stop" /\ UNCHANGED <<stage, how>>
      \/ pc' = "ended" /\ how' = "aborted"
      \/ pc = "stop" /\ stage = "exit" /\ pc' = "ended"
  BY DEF LoopProgram, KeyPressed, Resize, Clock, Tick, Expire, Deliver, Interrupt, Begin,
     Crash, Unsafe, Sample,
     SampleAborts, NoTerminal, TooNarrow, Show, NoKey, Prompt, Quit, OtherKey, Prune,
     CleanExit, Cleanstop, Prompts, shutdown
<1>3. pc = "ended" => how' # "cleaned" \/ how = "cleaned"
  BY <1>2
<1>4. CounterInv'
  BY <1>1, <1>2, <1>3 DEF ConInv, CounterInv, CountersClosed, LoopInv, StageInv
<1>5. ConTypeOK' /\ BootInv' /\ HelpInv'
  BY <1>1 DEF ConInv, ConTypeOK, BootInv, HelpInv, HelpFits
<1>. QED BY <1>1, <1>4, <1>5 DEF ConInv

\* Signals; during the start they end the program.
LEMMA SignalSteps ==
  ASSUME ConInv, LoopInv, TypeOK', NEW sig \in Signals, Killed(sig) \/ Caught(sig),
         UNCHANGED <<boot, counterVars, helpVars, killVars>>
  PROVE  ConInv'
<1>1. UNCHANGED <<boot, held, opened, ctr, half, lin, unread, wait, killpid>>
  BY DEF counterVars, helpVars, killVars
<1>2. \/ pc' = "ended" /\ how' = "killed" /\ traps' = traps
      \/ /\ pc' = "stop" /\ stage' = "endwin" /\ traps
         /\ UNCHANGED how
  BY DEF Killed, Caught, Cleanstop, display
<1>3. BootInv' /\ CounterInv'
  BY <1>1, <1>2 DEF ConInv, BootInv, CounterInv, CountersClosed
<1>4. ConTypeOK' /\ HelpInv'
  BY <1>1 DEF ConInv, ConTypeOK, HelpInv, HelpFits
<1>. QED BY <1>1, <1>3, <1>4 DEF ConInv

\* Every step keeps the invariant.
LEMMA NextConInv == ConInv /\ LoopInv /\ LoopInv' /\ [ConNext]_conVars => ConInv'
<1> SUFFICES ASSUME ConInv, LoopInv, LoopInv', [ConNext]_conVars PROVE ConInv'
  OBVIOUS
<1>0. TypeOK'
  BY DEF LoopInv
<1>1. CASE ConProgram
  BY <1>0, <1>1, BootStep, CloseStepInv, ConCleanStepInv, HelpSteps, LoopSteps
     DEF ConProgram
<1>2. CASE User
  BY <1>0, <1>2, HelpSteps, KillSteps DEF User
<1>3. CASE ConOutside
  <2>1. ASSUME UNCHANGED <<boot, counterVars, helpVars, killVars>>, CleanExit \/ Crash
        PROVE  boot = "up"
    BY <2>1 DEF CleanExit, Crash, Unsafe, ConInv, BootInv
  <2>. QED BY <1>0, <1>3, <2>1, LoopSteps, SignalSteps, ConCleanStepInv DEF ConOutside
<1>4. CASE ConClock
  BY <1>0, <1>4, LoopSteps DEF ConClock
<1>5. CASE UNCHANGED conVars
  BY <1>0, <1>5 DEF conVars, vars, counterVars, helpVars, killVars, ConInv, ConTypeOK,
     BootInv, CounterInv, CountersClosed, HelpInv, HelpFits
<1>. QED BY <1>1, <1>2, <1>3, <1>4, <1>5 DEF ConNext, ConEnded

\* The inductive invariant holds in every reachable state.
THEOREM ConsoleInvariant == ConSpec => []ConInv
<1>1. ConInit => ConInv /\ LoopInv
  BY InitConInv, InitLoopInv DEF ConInit
<1>. QED BY <1>1, ConLoopInvariant, NextConInv, PTL DEF ConSpec

\* Start, prompts and cleanup keep their types.
THEOREM ConsoleTypes == ConSpec => []ConTypeOK
<1>1. ConInv => ConTypeOK
  BY DEF ConInv
<1>. QED BY <1>1, ConsoleInvariant, PTL

\* An end through cleanstop leaves no counter open, wherever signals interrupted
\* close_all_counters.
THEOREM NoCounterLeftOpen == ConSpec => []CountersClosed
<1>1. ConInv => CountersClosed
  BY DEF ConInv, CounterInv
<1>. QED BY <1>1, ConsoleInvariant, PTL

\* No line of the help is lost, for any text whose lines fit into the width of the
\* window, and any window that has room for a line and the prompt.
THEOREM HelpNotLost ==
  ASSUME WinLines >= 2,
         PromptRows = 1,
         \A l \in 1 .. HelpLines : HelpRows[l] = 1
  PROVE  ConSpec => []HelpReadable
<1>1. ConInv => HelpReadable
  <2> SUFFICES ASSUME ConInv PROVE HelpReadable
    OBVIOUS
  <2>1. unread <= WinLines - 1 /\ unread \in Nat /\ WinLines \in Nat
    BY ConsoleAssumption DEF ConInv, ConTypeOK, HelpInv, HelpFits
  <2>. QED BY <2>1 DEF HelpReadable
<1>. QED BY <1>1, ConsoleInvariant, PTL

\* Whenever ptop pauses, an alarm is set or raised: also with prompts and cleanups in detail.
THEOREM ConsoleNeverPausesForEver == ConSpec => []PauseIsTimed
<1>1. LoopInv => PauseIsTimed
  BY DEF LoopInv, TimerInv, PauseIsTimed, Prompts
<1>. QED BY <1>1, ConLoopInvariant, PTL

=============================================================================
