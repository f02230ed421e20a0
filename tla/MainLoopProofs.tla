--------------------------- MODULE MainLoopProofs ---------------------------
(***************************************************************************)
(* MainLoop, proved for every sample rate and every cycle length: no pause  *)
(* without an alarm to end it, and no clean end that left something open.   *)
(***************************************************************************)
EXTENDS MainLoop, TLAPS

USE DEF display, handled, shutdown, Prompts

\* The cycle count stays in its range.
LEMMA CycleRange ==
  ASSUME NEW c \in Nat
  PROVE  c % (ShowEvery * CleanEvery) \in Cycles
<1>1. ShowEvery * CleanEvery \in Nat \ {0}
  BY MainLoopAssumption
<1>. QED BY <1>1 DEF Cycles

\* The program starts with the alarm armed and nothing torn down.
LEMMA InitLoopInv == Init => LoopInv
<1> SUFFICES ASSUME Init PROVE LoopInv
  OBVIOUS
<1>1. TypeOK
  <2>1. 1 % (ShowEvery * CleanEvery) \in Cycles
    BY CycleRange
  <2>2. timer \in 0 .. Interval + KeyTimer /\ frees \in 0 .. 1 + 2
    BY MainLoopAssumption DEF Init
  <2>3. cycle \in Cycles
    BY <2>1 DEF Init
  <2>. QED BY <2>2, <2>3 DEF Init, TypeOK, Stages
<1>2. TimerInv
  BY MainLoopAssumption DEF Init, TimerInv
<1>3. StageInv /\ CleanedUp
  BY DEF Init, StageInv, CleanedUp
<1>4. FreesInv
  BY DEF Init, FreesInv
<1>. QED BY <1>1, <1>2, <1>3, <1>4 DEF LoopInv

\* The steps of a cycle: they neither touch the clock nor begin a cleanup.
LEMMA CycleSteps ==
  ASSUME LoopInv, Begin \/ Sample \/ NoTerminal \/ Show \/ NoKey \/ OtherKey \/ KeyPressed \/ Prune
  PROVE  LoopInv'
<1>0. pc' \in {"sample", "show", "select", "key", "prune", "pause"}
  BY DEF Begin, Sample, NoTerminal, Show, NoKey, OtherKey, KeyPressed, Prune
<1>1. TypeOK'
  <2>1. cycle' \in Cycles
    BY CycleRange DEF LoopInv, TypeOK, Cycles, Begin, Sample, NoTerminal, Show, NoKey, OtherKey,
       KeyPressed, Prune
  <2>2. /\ screen' \in BOOLEAN /\ curses' \in BOOLEAN /\ traps' \in BOOLEAN
        /\ UNCHANGED <<timer, pending, tty, shutdown>>
    BY DEF LoopInv, TypeOK, Begin, Sample, NoTerminal, Show, NoKey, OtherKey, KeyPressed,
       Prune
  <2>. QED BY <1>0, <2>1, <2>2 DEF LoopInv, TypeOK
<1>2. TimerInv'
  BY <1>0 DEF LoopInv, TimerInv, Begin, Sample, NoTerminal, Show, NoKey, OtherKey, KeyPressed,
     Prune
<1>3. StageInv' /\ CleanedUp'
  BY DEF LoopInv, StageInv, CleanedUp, Begin, Sample, NoTerminal, Show, NoKey, OtherKey,
     KeyPressed, Prune
<1>4. FreesInv'
  BY <1>0 DEF LoopInv, FreesInv, Begin, Sample, NoTerminal, Show, NoKey, OtherKey, KeyPressed,
     Prune
<1>. QED BY <1>1, <1>2, <1>3, <1>4 DEF LoopInv

\* A prompt cancels the alarm and its answer sets it again.
LEMMA PromptSteps ==
  ASSUME LoopInv, Prompt \/ Answer
  PROVE  LoopInv'
<1>1. TypeOK'
  BY MainLoopAssumption DEF LoopInv, TypeOK, Prompt, Answer
<1>2. TimerInv'
  BY MainLoopAssumption DEF LoopInv, TimerInv, Prompt, Answer
<1>3. StageInv' /\ CleanedUp'
  BY DEF LoopInv, StageInv, CleanedUp, Prompt, Answer
<1>4. FreesInv'
  BY DEF LoopInv, FreesInv, Prompt, Answer
<1>. QED BY <1>1, <1>2, <1>3, <1>4 DEF LoopInv

\* A cleanup begins: from the program itself, or from a signal that was not blocked.
LEMMA BeginStop ==
  ASSUME LoopInv, TooNarrow \/ Quit \/ \E sig \in Signals : Caught(sig)
  PROVE  LoopInv'
<1>0. pc' = "stop" /\ stage' = "endwin" /\ pc # "ended"
  BY DEF TooNarrow, Quit, Caught, Cleanstop
<1>1. TypeOK'
  <2>1. CASE TooNarrow \/ Quit
    BY <1>0, <2>1 DEF LoopInv, TypeOK, TooNarrow, Quit, Stages
  <2>2. ASSUME NEW sig \in Signals, Caught(sig) PROVE TypeOK'
    <3>1. InUse \in SUBSET Libs
      <4>1. LoopInv => stage \in DOMAIN Calls \/ stage = "none"
        BY DEF LoopInv, TypeOK, Stages, Calls
      <4>2. CASE pc = "stop"
        BY <4>1, <4>2 DEF InUse, Calls, Libs, LoopInv, StageInv
      <4>3. CASE pc # "stop"
        BY <4>3 DEF InUse
      <4>. QED BY <4>2, <4>3
    <3>2. inside' \in SUBSET Libs
      BY <2>2, <3>1 DEF LoopInv, TypeOK, Caught
    <3>. QED BY <1>0, <2>2, <3>2 DEF LoopInv, TypeOK, Caught, Stages
  <2>. QED BY <2>1, <2>2
<1>2. TimerInv'
  BY <1>0 DEF TimerInv
<1>3. StageInv' /\ CleanedUp'
  BY <1>0 DEF LoopInv, StageInv, CleanedUp, TooNarrow, Quit, Caught
<1>4. FreesInv'
  <2>1. CASE TooNarrow \/ Quit
    BY <1>0, <2>1 DEF LoopInv, FreesInv, Handlers, TooNarrow, Quit
  <2>2. ASSUME NEW sig \in Signals, Caught(sig) PROVE FreesInv'
    <3>1. Handlers' = Handlers + 1 /\ Handlers \in Nat
      BY <2>2 DEF Caught, Signals, Handlers
    <3>2. frees <= Handlers + 1 /\ frees \in Nat
      BY <1>0, <3>1 DEF LoopInv, TypeOK, FreesInv
    <3>. QED BY <1>0, <2>2, <3>1, <3>2 DEF FreesInv, Caught
  <2>. QED BY <2>1, <2>2
<1>. QED BY <1>1, <1>2, <1>3, <1>4 DEF LoopInv

\* The stages of a cleanup.
LEMMA CleanSteps ==
  ASSUME LoopInv, CleanStep \/ CleanExit
  PROVE  LoopInv'
<1>0. Handlers \in 0 .. 2
  BY DEF Handlers
<1>a. CleanStep => \/ stage = "endwin" /\ stage' = "rows"
                   \/ stage = "rows" /\ stage' = "close"
                   \/ stage = "close" /\ stage' = "free"
                   \/ stage = "free" /\ stage' = "exit"
  BY DEF CleanStep, NextStage
<1>1. TypeOK'
  <2>1. frees' \in 0 .. 1 + 2
    BY <1>0 DEF LoopInv, TypeOK, FreesInv, CleanStep, CleanExit
  <2>. QED BY <1>a, <2>1 DEF LoopInv, TypeOK, CleanStep, CleanExit, Stages
<1>2. TimerInv'
  BY DEF LoopInv, TimerInv, CleanStep, CleanExit
<1>3. StageInv'
  <2>1. CASE CleanStep
    <3>1. /\ ~ curses'
          /\ stage' \in {"free", "exit"} => ~ counters'
          /\ stage' = "exit" => frees' >= 1
          /\ stage' # "none"
      <4>1. ~ curses'
        BY <1>a, <2>1 DEF LoopInv, StageInv, CleanStep
      <4>2. stage' \in {"free", "exit"} => ~ counters'
        BY <1>a, <2>1 DEF LoopInv, StageInv, CleanStep
      <4>3. stage' = "exit" => frees' >= 1
        BY <1>a, <2>1 DEF LoopInv, TypeOK, CleanStep
      <4>4. stage' # "none"
        BY <1>a, <2>1
      <4>. QED BY <4>1, <4>2, <4>3, <4>4
    <3>2. how' # "cleaned"
      BY <2>1 DEF LoopInv, StageInv, CleanStep
    <3>. QED BY <3>1, <3>2 DEF StageInv
  <2>2. CASE CleanExit
    BY <2>2 DEF StageInv, CleanExit
  <2>. QED BY <2>1, <2>2
<1>4. CleanedUp'
  BY DEF LoopInv, TypeOK, StageInv, CleanedUp, CleanStep, CleanExit
<1>5. FreesInv'
  <2>1. Handlers' = Handlers
    BY DEF CleanStep, CleanExit, Handlers
  <2>. QED BY <1>0, <1>a, <2>1 DEF LoopInv, TypeOK, FreesInv, CleanStep, CleanExit
<1>. QED BY <1>1, <1>2, <1>3, <1>4, <1>5 DEF LoopInv

\* An end without cleanup.
LEMMA HardEnds ==
  ASSUME LoopInv, SampleAborts \/ Crash \/ \E sig \in Signals : Killed(sig)
  PROVE  LoopInv'
  BY DEF LoopInv, TypeOK, TimerInv, StageInv, FreesInv, CleanedUp, SampleAborts, Crash,
     Killed

\* Time passes, and signals wake the program up.
LEMMA WakeSteps ==
  ASSUME LoopInv, Clock \/ Resize
  PROVE  LoopInv'
<1>0. /\ pc' \in {pc, "wake", "prune"} /\ pc # "ended"
      /\ pc \notin {"pause", "select"} => pc' = pc
      /\ UNCHANGED <<cycle, display, shutdown>>
  BY DEF Clock, Tick, Expire, Deliver, Resize, Interrupt
<1>1. /\ timer' \in 0 .. Interval + KeyTimer
      /\ timer > 0 \/ pending => timer' > 0 \/ pending'
  <2>1. timer \in 0 .. Interval + KeyTimer
    BY DEF LoopInv, TypeOK
  <2>. QED BY <2>1, MainLoopAssumption DEF Clock, Tick, Expire, Deliver, Resize
<1>a. pending' \in BOOLEAN
  BY DEF LoopInv, TypeOK, Clock, Tick, Expire, Deliver, Resize
<1>2. TypeOK'
  BY <1>0, <1>1, <1>a DEF LoopInv, TypeOK
<1>3. TimerInv'
  BY <1>0, <1>1 DEF LoopInv, TimerInv
<1>4. StageInv' /\ CleanedUp'
  BY <1>0 DEF LoopInv, StageInv, CleanedUp
<1>5. FreesInv'
  BY <1>0 DEF LoopInv, FreesInv, Handlers
<1>. QED BY <1>2, <1>3, <1>4, <1>5 DEF LoopInv

\* Every step keeps the invariant.
LEMMA NextLoopInv == LoopInv /\ [Next]_vars => LoopInv'
<1> SUFFICES ASSUME LoopInv, [Next]_vars PROVE LoopInv'
  OBVIOUS
<1>1. CASE Program
  BY <1>1, CycleSteps, PromptSteps, BeginStop, CleanSteps, HardEnds DEF Program
<1>2. CASE Outside
  BY <1>2, CycleSteps, PromptSteps, BeginStop, CleanSteps, HardEnds, WakeSteps DEF Outside
<1>3. CASE Clock
  BY <1>3, WakeSteps
<1>4. CASE UNCHANGED vars
  BY <1>4 DEF vars, LoopInv, TypeOK, TimerInv, StageInv, FreesInv, Handlers, CleanedUp
<1>. QED BY <1>1, <1>2, <1>3, <1>4 DEF Next, Ended

\* The inductive invariant holds in every reachable state.
THEOREM LoopInvariant == Spec => []LoopInv
  BY InitLoopInv, NextLoopInv, PTL DEF Spec

\* The control variables keep their types; in particular empty() is entered at most
\* once by the program and once by each signal.
THEOREM LoopTypes == Spec => []TypeOK
<1>1. LoopInv => TypeOK
  BY DEF LoopInv
<1>. QED BY <1>1, LoopInvariant, PTL

\* ptop never pauses without an alarm that is set or raised.
THEOREM NeverPausesForEver == Spec => []PauseIsTimed
<1>1. LoopInv => PauseIsTimed
  BY DEF LoopInv, TimerInv, PauseIsTimed
<1>. QED BY <1>1, LoopInvariant, PTL

\* What ends by cleanstop ends clean, however cleanups interrupt each other.
THEOREM CleanupComplete == Spec => []CleanedUp
<1>1. LoopInv => CleanedUp
  BY DEF LoopInv
<1>. QED BY <1>1, LoopInvariant, PTL

=============================================================================
