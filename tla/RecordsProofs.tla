--------------------------- MODULE RecordsProofs ---------------------------
(***************************************************************************)
(* Records and EnergyTables, proved for every sample rate, every period and *)
(* every bound: no row is charged twice as long as a cycle has its time      *)
(* stamp before the next alarm, pruning never reaches into a window as long *)
(* as the sample rate is at most CLEAN_INTERVAL + 1 seconds, and no second  *)
(* is in two rows of the energy tables, unless a resize intervened, where   *)
(* displays come every other cycle at most (the program has three).         *)
(***************************************************************************)
EXTENDS EnergyTables, MainLoopProofs, Integers

USE DEF Times, tables

\* A step of the control beneath a step of Records.
LEMMA RecStepIsStep == RecNext => [Next]_vars
  BY DEF RecNext, RecBegin, RecSample, RecPrune, RecCleanStep, RecClock, RecDeliver,
     RecResize, RecOther, RecEnded, recVars, vars, Next, Program, Outside, Clock

\* The tables change nothing of the control: it behaves as MainLoop says.
THEOREM ControlUndisturbed == RecSpec => Init /\ [][Next]_vars
<1>1. RecInit => Init
  BY DEF RecInit
<1>2. [RecNext]_recVars => [Next]_vars
  BY RecStepIsStep DEF recVars, vars
<1>. QED BY <1>1, <1>2, PTL DEF RecSpec

\* The tables start empty, at time 0.
LEMMA InitRecInv == RecInit => RecInv
<1> SUFFICES ASSUME RecInit PROVE RecInv
  OBVIOUS
<1>1. RecordsTypeOK
  BY InitLoopInv, RecordsAssumption DEF RecInit, RecordsTypeOK, LoopInv, NoRows
<1>2. StampInv /\ PairInv /\ AlarmInv /\ PrunedInv
  BY RecordsAssumption, MainLoopAssumption
     DEF RecInit, Init, NoRows, StampInv, PairInv, AlarmInv, PrunedInv
<1>. QED BY <1>1, <1>2 DEF RecInv

\* A cycle takes its time stamp.
LEMMA BeginStep ==
  ASSUME RecInv, TypeOK', RecBegin
  PROVE  RecInv'
<1>1. /\ pc = "wake" /\ pc' = "sample" /\ ctime' = now
      /\ early' = (IF woken = "resize" THEN early \cup {now} ELSE early)
      /\ UNCHANGED <<now, timer, pending, tables, waking>>
  BY DEF RecBegin, Begin
<1>2. now \in Times /\ now \in Nat /\ ctime \in Nat /\ ctime <= now
  BY RecordsAssumption DEF RecInv, RecordsTypeOK
<1>3. RecordsTypeOK'
  <2>1. ctime' \in 0 .. now' /\ early' \in SUBSET Times
    BY <1>1, <1>2 DEF RecInv, RecordsTypeOK
  <2>. QED BY <1>1, <2>1 DEF RecInv, RecordsTypeOK, waking
<1>4. StampInv'
  <2>1. ASSUME NEW t \in Times, t > now
        PROVE  ps[t] = 0 /\ sys[t] = 0 /\ written[t] = 0
    BY <1>2, <2>1 DEF RecInv, StampInv
  <2>. QED BY <1>1, <2>1 DEF StampInv
<1>5. PairInv'
  <2> SUFFICES ASSUME MaxLag < Interval
               PROVE  /\ \A t \in Times \ early' : sys'[t] <= 1
                      /\ ctime' \notin early' => sys'[ctime'] = 0
    BY DEF PairInv
  <2>1. \A t \in Times \ early' : sys'[t] <= 1
    BY <1>1 DEF RecInv, PairInv
  <2>2. now \notin early' => sys[now] = 0
    BY <1>1 DEF RecInv, RecordsTypeOK, AlarmInv
  <2>. QED BY <1>1, <2>1, <2>2
<1>6. AlarmInv'
  BY <1>1 DEF RecInv, RecordsTypeOK, AlarmInv
<1>7. PrunedInv'
  BY <1>1 DEF RecInv, PrunedInv
<1>. QED BY <1>3, <1>4, <1>5, <1>6, <1>7 DEF RecInv

\* A table remains one.
LEMMA StoredType ==
  ASSUME NEW table \in [Times -> Nat], NEW t \in Times, NEW ok \in BOOLEAN
  PROVE  Stored(table, t, ok) \in [Times -> Nat]
<1>1. table[t] + 1 \in Nat
  OBVIOUS
<1>2. [table EXCEPT ![t] = @ + 1] \in [Times -> Nat]
  BY <1>1
<1>. QED BY <1>2 DEF Stored

\* A cycle stores its rows: the first of its second, unless a resize began it.
LEMMA SampleStep ==
  ASSUME RecInv, TypeOK', RecSample
  PROVE  RecInv'
<1>0. PICK okPs \in BOOLEAN, okSys \in BOOLEAN :
         /\ Statements(okPs, okSys)
         /\ ps' = Stored(ps, ctime, okPs)
         /\ written' = Stored(written, ctime, okPs)
         /\ sys' = Stored(sys, ctime, okSys)
  BY DEF RecSample
<1>1. /\ pc = "sample" /\ pc' \in {"show", "prune"}
      /\ UNCHANGED <<now, ctime, early, pending, waking>>
  BY DEF RecSample, Sample
<1>2. /\ \A t \in Times \ {ctime} :
           ps'[t] = ps[t] /\ sys'[t] = sys[t] /\ written'[t] = written[t]
      /\ ps[ctime] = written[ctime] => ps'[ctime] = written'[ctime]
      /\ sys'[ctime] \in {sys[ctime], sys[ctime] + 1}
      /\ ctime \in Times /\ ctime \in Nat /\ now \in Nat /\ ctime <= now
  BY <1>0, RecordsAssumption DEF RecInv, RecordsTypeOK, Stored
<1>3. RecordsTypeOK'
  <2>1. fails' \in 0 .. MaxFails
    BY <1>0, RecordsAssumption DEF RecInv, RecordsTypeOK, Statements
  <2>2. ps' \in [Times -> Nat] /\ written' \in [Times -> Nat] /\ sys' \in [Times -> Nat]
    BY <1>0, <1>2, StoredType DEF RecInv, RecordsTypeOK
  <2>. QED BY <1>1, <2>1, <2>2 DEF RecInv, RecordsTypeOK, waking
<1>4. StampInv'
  BY <1>1, <1>2 DEF RecInv, StampInv
<1>5. PairInv'
  <2> SUFFICES ASSUME MaxLag < Interval, NEW t \in Times \ early PROVE sys'[t] <= 1
    BY <1>1 DEF PairInv
  <2>1. CASE t = ctime
    BY <1>1, <1>2, <2>1 DEF RecInv, PairInv
  <2>2. CASE t # ctime
    BY <1>2, <2>2 DEF RecInv, PairInv
  <2>. QED BY <2>1, <2>2
<1>6. AlarmInv'
  BY <1>1 DEF RecInv, AlarmInv
<1>7. PrunedInv'
  BY <1>1, <1>2, MainLoopAssumption DEF RecInv, RecordsTypeOK, PrunedInv
<1>. QED BY <1>3, <1>4, <1>5, <1>6, <1>7 DEF RecInv

\* A DELETE takes rows away only where they are old enough.
LEMMA FreeupFacts ==
  ASSUME RecInv, NEW interval \in Nat, Freeup(interval)
  PROVE  /\ ps' \in [Times -> Nat] /\ sys' \in [Times -> Nat]
         /\ fails' \in 0 .. MaxFails /\ written' = written
         /\ \A t \in Times : ps'[t] \in {0, ps[t]} /\ sys'[t] \in {0, sys[t]}
         /\ \A t \in Times : ps'[t] # ps[t] => t + interval < now
  BY RecordsAssumption DEF RecInv, RecordsTypeOK, Freeup, Without, Statements

\* Pruning, due or not.
LEMMA PruneStep ==
  ASSUME RecInv, TypeOK', RecPrune
  PROVE  RecInv'
<1>1. /\ pc = "prune" /\ pc' = "pause"
      /\ UNCHANGED <<now, ctime, early, pending, waking>>
  BY DEF RecPrune, Prune
<1>2. CASE cycle % CleanEvery = 0
  <2>1. Freeup(CleanEvery) /\ CleanEvery \in Nat
    BY <1>2, MainLoopAssumption DEF RecPrune
  <2>2. /\ ps' \in [Times -> Nat] /\ sys' \in [Times -> Nat]
        /\ fails' \in 0 .. MaxFails /\ written' = written
        /\ \A t \in Times : ps'[t] \in {0, ps[t]} /\ sys'[t] \in {0, sys[t]}
        /\ \A t \in Times : ps'[t] # ps[t] => t + CleanEvery < now
    BY <2>1, FreeupFacts
  <2>3. RecordsTypeOK'
    BY <1>1, <2>2 DEF RecInv, RecordsTypeOK, waking
  <2>4. StampInv' /\ PairInv' /\ AlarmInv'
    BY <1>1, <2>2 DEF RecInv, RecordsTypeOK, StampInv, PairInv, AlarmInv
  <2>5. PrunedInv'
    <3> SUFFICES ASSUME NEW t \in Times, ps'[t] # written'[t]
                 PROVE  t + CleanEvery < now
      BY <1>1 DEF PrunedInv
    <3>1. CASE ps'[t] # ps[t]
      BY <2>2, <3>1
    <3>2. CASE ps'[t] = ps[t]
      <4>1. t + CleanEvery < ctime
        BY <1>1, <2>2, <3>2 DEF RecInv, PrunedInv
      <4>. QED BY <2>1, <4>1, RecordsAssumption DEF RecInv, RecordsTypeOK
    <3>. QED BY <3>1, <3>2
  <2>. QED BY <2>3, <2>4, <2>5 DEF RecInv
<1>3. CASE cycle % CleanEvery # 0
  <2>1. UNCHANGED tables
    BY <1>3 DEF RecPrune
  <2>2. RecordsTypeOK' /\ StampInv' /\ PairInv' /\ AlarmInv'
    BY <1>1, <2>1 DEF RecInv, RecordsTypeOK, StampInv, PairInv, AlarmInv, waking
  <2>3. PrunedInv'
    BY <1>1, <2>1, MainLoopAssumption, RecordsAssumption
       DEF RecInv, RecordsTypeOK, PrunedInv
  <2>. QED BY <2>2, <2>3 DEF RecInv
<1>. QED BY <1>2, <1>3

\* A cleanup, which clears the tables at one stage.
LEMMA CleanupStep ==
  ASSUME RecInv, TypeOK', RecCleanStep
  PROVE  RecInv'
<1>1. /\ pc = "stop" /\ pc' = "stop"
      /\ UNCHANGED <<now, ctime, early, pending, waking>>
  BY DEF RecCleanStep, CleanStep
<1>2. CASE stage = "rows"
  <2>1. Freeup(0)
    BY <1>2 DEF RecCleanStep
  <2>2. /\ ps' \in [Times -> Nat] /\ sys' \in [Times -> Nat]
        /\ fails' \in 0 .. MaxFails /\ written' = written
        /\ \A t \in Times : ps'[t] \in {0, ps[t]} /\ sys'[t] \in {0, sys[t]}
    BY <2>1, FreeupFacts
  <2>3. RecordsTypeOK'
    BY <1>1, <2>2 DEF RecInv, RecordsTypeOK, waking
  <2>4. StampInv' /\ PairInv' /\ AlarmInv' /\ PrunedInv'
    BY <1>1, <2>2 DEF RecInv, RecordsTypeOK, StampInv, PairInv, AlarmInv, PrunedInv
  <2>. QED BY <2>3, <2>4 DEF RecInv
<1>3. CASE stage # "rows"
  BY <1>1, <1>3 DEF RecCleanStep, RecInv, RecordsTypeOK, StampInv, PairInv, AlarmInv,
     PrunedInv, waking
<1>. QED BY <1>2, <1>3

\* Time passes: an alarm that expires does so in a second after that of its cycle.
LEMMA ClockStep ==
  ASSUME RecInv, TypeOK', RecClock
  PROVE  RecInv'
<1>1. /\ now' = now + 1 /\ now' \in Times
      /\ UNCHANGED <<tables, early, ctime, woken>>
  BY RecordsAssumption DEF RecClock, RecInv, RecordsTypeOK
<1>2. pc' = pc /\ (pending' => pending \/ timer = 1)
  BY DEF RecClock, Tick, Expire, vars
<1>3. now \in Nat /\ ctime \in Nat /\ ctime <= now /\ lag \in Nat /\ MaxLag \in Nat
  BY RecordsAssumption DEF RecInv, RecordsTypeOK
<1>4. lag' \in 0 .. MaxLag
  BY <1>3 DEF RecClock, RecInv, RecordsTypeOK
<1>5. RecordsTypeOK'
  BY <1>1, <1>3, <1>4 DEF RecInv, RecordsTypeOK
<1>6. StampInv' /\ PairInv'
  BY <1>1, <1>2 DEF RecInv, StampInv, PairInv
<1>7. AlarmInv'
  <2> SUFFICES ASSUME MaxLag < Interval PROVE AlarmInv'
    BY DEF AlarmInv
  <2>1. pending' => ctime' < now' \/ ctime' \in early'
    BY <1>1, <1>3
  <2>2. ASSUME pc = "wake", woken = "alarm"
        PROVE  /\ ~ pending' /\ timer' + lag' >= Interval
               /\ sys[now'] = 0
    <3>1. ~ pending /\ timer + lag >= Interval
      BY <2>2 DEF RecInv, AlarmInv
    <3>2. lag < MaxLag /\ lag' = lag + 1
      BY <2>2 DEF RecClock
    <3>3. timer \in Nat /\ Interval \in Nat
      BY MainLoopAssumption DEF RecInv, RecordsTypeOK, TypeOK
    <3>4. timer >= 2
      BY <1>3, <3>1, <3>2, <3>3
    <3>5. timer' = timer - 1 /\ pending' = pending
      BY <3>4 DEF RecClock, Tick, Expire
    <3>6. now' > ctime
      BY <1>1, <1>3
    <3>. QED BY <1>1, <1>3, <3>1, <3>2, <3>3, <3>5, <3>6 DEF RecInv, StampInv
  <2>. QED BY <1>1, <1>2, <2>1, <2>2 DEF AlarmInv
<1>8. PrunedInv'
  BY <1>1, <1>2, <1>3, MainLoopAssumption DEF RecInv, PrunedInv
<1>. QED BY <1>5, <1>6, <1>7, <1>8 DEF RecInv

\* An alarm that ends a pause leaves a whole interval for the time stamp, and finds no
\* rows of the second.
LEMMA DeliverStep ==
  ASSUME RecInv, TypeOK', RecDeliver
  PROVE  RecInv'
<1>1. /\ pending /\ ~ pending' /\ timer' = Interval
      /\ UNCHANGED <<now, ctime, tables, early>>
  BY DEF RecDeliver, Deliver
<1>2. /\ pc = "pause" => pc' = "wake" /\ woken' = "alarm" /\ lag' = 0
      /\ pc # "pause" => UNCHANGED waking
      /\ pc = "select" => pc' = "prune"
      /\ pc \notin {"pause", "select"} => pc' = pc
  BY DEF RecDeliver, Deliver, Interrupt, Wakes
<1>3. RecordsTypeOK'
  BY <1>1, <1>2, RecordsAssumption DEF RecInv, RecordsTypeOK, waking
<1>4. StampInv'
  BY <1>1 DEF RecInv, StampInv
<1>5. PairInv'
  BY <1>1, <1>2 DEF RecInv, PairInv
<1>6. AlarmInv'
  <2> SUFFICES ASSUME MaxLag < Interval, pc' = "wake", woken' = "alarm"
               PROVE  /\ timer' + lag' >= Interval
                      /\ sys'[now'] = 0 \/ now' \in early'
    BY <1>1 DEF AlarmInv
  <2>1. pc = "pause"
    <3>1. pc = "wake" => woken = "alarm"
      BY <1>2 DEF waking
    <3>. QED BY <1>1, <1>2, <3>1 DEF RecInv, AlarmInv
  <2>2. ctime < now \/ ctime \in early
    BY <1>1 DEF RecInv, AlarmInv
  <2>3. now \in Times /\ now \in Nat /\ ctime \in Nat /\ ctime <= now
    BY RecordsAssumption DEF RecInv, RecordsTypeOK
  <2>4. sys[now] = 0 \/ now \in early
    BY <2>2, <2>3 DEF RecInv, StampInv
  <2>. QED BY <1>1, <1>2, <2>1, <2>4, MainLoopAssumption
<1>7. PrunedInv'
  BY <1>1, <1>2 DEF RecInv, PrunedInv
<1>. QED BY <1>3, <1>4, <1>5, <1>6, <1>7 DEF RecInv

\* A resize; one that ends a pause begins a cycle early.
LEMMA ResizeStep ==
  ASSUME RecInv, TypeOK', RecResize
  PROVE  RecInv'
<1>1. UNCHANGED <<now, ctime, tables, early, pending, timer>>
  BY DEF RecResize, Resize
<1>2. \/ pc = "pause" /\ pc' = "wake" /\ woken' = "resize" /\ lag' = 0
      \/ pc = "select" /\ pc' = "prune" /\ UNCHANGED waking
  BY DEF RecResize, Resize, Interrupt, Wakes
<1>3. RecordsTypeOK'
  BY <1>1, <1>2, RecordsAssumption DEF RecInv, RecordsTypeOK, waking
<1>4. StampInv' /\ PairInv' /\ AlarmInv' /\ PrunedInv'
  BY <1>1, <1>2 DEF RecInv, StampInv, PairInv, AlarmInv, PrunedInv
<1>. QED BY <1>3, <1>4 DEF RecInv

\* All other steps of the control leave time and tables alone, and begin no cycle.
LEMMA OtherStep ==
  ASSUME RecInv, TypeOK', RecOther
  PROVE  RecInv'
<1>1. UNCHANGED <<now, ctime, tables, early, waking, pending>>
  BY DEF RecOther, SampleAborts, NoTerminal, TooNarrow, Show, NoKey, Prompt, Quit,
     OtherKey, CleanExit, Crash, KeyPressed, Answer, Killed, Caught, Cleanstop
<1>2. /\ pc' \notin {"sample", "pause", "wake"}
      /\ pc \in {"stop", "ended", "pause", "wake"} => pc' \in {"stop", "ended"}
  BY DEF RecOther, SampleAborts, NoTerminal, TooNarrow, Show, NoKey, Prompt, Quit,
     OtherKey, CleanExit, Crash, Unsafe, KeyPressed, Answer, Killed, Caught, Cleanstop,
     Prompts
<1>. QED BY <1>1, <1>2 DEF RecInv, RecordsTypeOK, StampInv, PairInv, AlarmInv, PrunedInv,
            waking

\* Every step keeps the invariant.
LEMMA NextRecInv == RecInv /\ LoopInv' /\ [RecNext]_recVars => RecInv'
<1> SUFFICES ASSUME RecInv, LoopInv', [RecNext]_recVars PROVE RecInv'
  OBVIOUS
<1>1. TypeOK'
  BY DEF LoopInv
<1>2. CASE UNCHANGED recVars
  BY <1>1, <1>2 DEF recVars, waking, vars, RecInv, RecordsTypeOK, StampInv, PairInv,
     AlarmInv, PrunedInv
<1>. QED BY <1>1, <1>2, BeginStep, SampleStep, PruneStep, CleanupStep, ClockStep,
            DeliverStep, ResizeStep, OtherStep DEF RecNext, RecEnded

\* The inductive invariant holds in every reachable state.
THEOREM RecordsInvariant == RecSpec => [](RecInv /\ LoopInv)
<1>1. RecInit => RecInv /\ LoopInv
  BY InitRecInv, InitLoopInv DEF RecInit
<1>2. LoopInv /\ [RecNext]_recVars => LoopInv'
  BY NextLoopInv, RecStepIsStep DEF recVars, vars
<1>3. RecInv /\ LoopInv /\ [RecNext]_recVars => RecInv' /\ LoopInv'
  BY <1>2, NextRecInv
<1>. QED BY <1>1, <1>3, PTL DEF RecSpec

\* Clock, stamps and tables keep their types.
THEOREM RecordsTypes == RecSpec => []RecordsTypeOK
<1>1. RecInv => RecordsTypeOK
  BY DEF RecInv
<1>. QED BY <1>1, RecordsInvariant, PTL

\* CPUEnergy charges no row more than once, except in a second in which a resize made
\* a cycle begin, as long as less than a sample rate of seconds begins between the end
\* of pause() and time(NULL), for the handler has set the next alarm already.
THEOREM NeverChargedTwice ==
  ASSUME MaxLag < Interval
  PROVE  RecSpec => []ChargedOnce
<1>1. RecInv => ChargedOnce
  <2> SUFFICES ASSUME RecInv, NEW t \in Window \ early PROVE Charges(t) <= ps[t]
    BY DEF ChargedOnce
  <2>1. t \in Times \ early /\ ps[t] \in Nat /\ sys[t] \in Nat
    BY DEF Window, RecInv, RecordsTypeOK
  <2>2. sys[t] \in {0, 1}
    BY <2>1 DEF RecInv, PairInv
  <2>. QED BY <2>1, <2>2 DEF Charges
<1>. QED BY <1>1, RecordsInvariant, PTL

\* A display sees every row stored for its window, as long as the sample rate is at
\* most CLEAN_INTERVAL + 1 seconds.
THEOREM WindowsAreIntact ==
  ASSUME Interval <= CleanEvery + 1
  PROVE  RecSpec => []WindowIntact
<1>1. RecInv => WindowIntact
  BY MainLoopAssumption, RecordsAssumption
     DEF WindowIntact, Window, RecInv, RecordsTypeOK, PrunedInv
<1>. QED BY <1>1, RecordsInvariant, PTL

-----------------------------------------------------------------------------
\* The energy tables.
HIDE DEF Times, tables
USE DEF Prompts

\* A step of Records beneath a step with energies.
LEMMA EnStepIsRecStep == [EnNext]_enVars => [RecNext]_recVars
  BY DEF EnNext, enVars

\* The tables of Records and the control behave as before, with the energies on top.
THEOREM EnergiesUndisturbing == EnSpec => RecSpec
<1>1. EnInit => RecInit
  BY DEF EnInit
<1>. QED BY <1>1, EnStepIsRecStep, PTL DEF EnSpec, RecSpec

\* Their invariants carry over.
LEMMA EnRecInvariant == EnSpec => [](RecInv /\ LoopInv)
  BY EnergiesUndisturbing, RecordsInvariant, PTL

-----------------------------------------------------------------------------
\* Quotient and remainder.
LEMMA DivMod ==
  ASSUME NEW a \in Int, NEW d \in Int, d > 0
  PROVE  /\ a = d * (a \div d) + (a % d)
         /\ a \div d \in Int /\ a % d \in 0 .. d - 1
  OBVIOUS

\* No number from two on divides one.
LEMMA NoUnitDivisor ==
  ASSUME NEW d \in Nat, d >= 2, NEW k \in Int, d * k = 1
  PROVE  FALSE
<1>1. CASE k <= 0
  BY <1>1
<1>2. CASE k >= 1
  BY <1>2
<1>. QED BY <1>1, <1>2

\* No two cycles in a row are displayed.
LEMMA NotDueTwice ==
  ASSUME ShowEvery >= 2, TypeOK, DisplayDue, Prune
  PROVE  ~ DisplayDue'
<1> DEFINE S == ShowEvery
           N == ShowEvery * CleanEvery
<1>1. /\ S \in Nat /\ CleanEvery \in Nat /\ S >= 2 /\ CleanEvery >= 1
      /\ N \in Nat /\ N >= 1
      /\ cycle \in 0 .. N - 1 /\ cycle % S = 0
      /\ cycle' = (cycle + 1) % N
  BY MainLoopAssumption DEF TypeOK, Cycles, DisplayDue, Prune
<1>2. PICK q \in Int : cycle = S * q
  BY <1>1, DivMod
<1>3. cycle + 1 # N
  <2> SUFFICES ASSUME cycle + 1 = N PROVE FALSE
    OBVIOUS
  <2>1. S * (CleanEvery - q) = 1
    BY <1>1, <1>2
  <2>. QED BY <1>1, <2>1, NoUnitDivisor
<1>4. cycle' = cycle + 1
  BY <1>1, <1>3
<1>5. (cycle + 1) % S # 0
  <2> SUFFICES ASSUME (cycle + 1) % S = 0 PROVE FALSE
    OBVIOUS
  <2>1. PICK r \in Int : cycle + 1 = S * r
    BY <1>1, DivMod
  <2>2. S * (r - q) = 1
    BY <1>1, <1>2, <2>1
  <2>. QED BY <1>1, <2>2, NoUnitDivisor
<1>. QED BY <1>4, <1>5 DEF DisplayDue

-----------------------------------------------------------------------------
\* What all lemmas below need of the other invariants.
LEMMA TimeFacts ==
  ASSUME RecInv, LoopInv
  PROVE  /\ now \in Nat /\ ctime \in Nat /\ ctime <= now /\ timer \in Nat
         /\ Interval \in Nat \ {0}
         /\ Times \subseteq Nat
  BY MainLoopAssumption, RecordsAssumption
     DEF RecInv, RecordsTypeOK, LoopInv, TypeOK, Times

\* Nothing has been claimed at the start.
LEMMA InitEnergyInv == EnInit => EnergyInv
<1> SUFFICES ASSUME EnInit PROVE EnergyInv
  OBVIOUS
<1>1. device \in [Times -> Nat] /\ process \in [Times -> Nat]
  BY DEF EnInit, NoRows
<1>2. \A t \in Times : device[t] = 0 /\ process[t] = 0
  BY DEF EnInit, NoRows
<1>3. pc = "wake"
  BY DEF EnInit, RecInit, Init
<1>. QED BY <1>1, <1>2, <1>3 DEF EnergyInv, ClaimedOnce, Claimed

\* A step that displays nothing: what was claimed has to stay accounted for.
LEMMA KeepsClaims ==
  ASSUME EnergyInv, UNCHANGED energies, early \subseteq early',
         pc' \in {"show", "select", "key"} \cup Prompts => DisplayDue',
         pc' \notin {"stop", "ended"} =>
           /\ pc \notin {"stop", "ended"}
           /\ \A t \in Times :
                ~ Disturbed(t)' /\ ~ Disturbed(t) /\ Settled(t) => Settled(t)'
  PROVE  EnergyInv'
<1>1. \A t \in Times : Disturbed(t) => Disturbed(t)'
  BY DEF Disturbed
<1>2. device' = device /\ process' = process
  BY DEF energies
<1>3. ClaimedOnce'
  BY <1>1, <1>2 DEF EnergyInv, ClaimedOnce
<1>4. \A t \in Times : Claimed(t)' <=> Claimed(t)
  BY <1>2 DEF Claimed
<1>5. ASSUME pc' \notin {"stop", "ended"}, NEW t \in Times, Claimed(t)', ~ Disturbed(t)'
      PROVE  Settled(t)'
  <2>1. Claimed(t) /\ ~ Disturbed(t)
    BY <1>1, <1>4, <1>5
  <2>2. Settled(t)
    BY <1>5, <2>1 DEF EnergyInv
  <2>. QED BY <1>5, <2>1, <2>2
<1>. QED BY <1>2, <1>3, <1>5 DEF EnergyInv

\* The steps of a cycle that neither display nor wait change nothing of what is claimed.
LEMMA CycleStep ==
  ASSUME ShowEvery >= 2, EnergyInv, RecInv, LoopInv, UNCHANGED energies,
         RecSample \/ RecPrune \/ RecCleanStep
  PROVE  EnergyInv'
<1>1. UNCHANGED <<now, ctime, timer, pending, early>>
  BY DEF RecSample, RecPrune, RecCleanStep, Sample, Prune, CleanStep
<1>2. CASE RecSample
  <2>1. /\ pc = "sample" /\ UNCHANGED cycle
        /\ pc' \in {"show", "prune"} /\ (pc' = "show" => DisplayDue)
    BY <1>2 DEF RecSample, Sample, DisplayDue
  <2>2. DisplayDue' <=> DisplayDue
    BY <2>1 DEF DisplayDue
  <2>3. \A t \in Times : Settled(t) => Settled(t)'
    BY <1>1, <2>1, <2>2 DEF Settled, InDisplay, NextCycleLong, NextCycleOver,
       OutOfWindow
  <2>. QED BY <1>1, <2>1, <2>2, <2>3, KeepsClaims
<1>3. CASE RecPrune
  <2>1. pc = "prune" /\ pc' = "pause" /\ (DisplayDue => ~ DisplayDue')
    BY <1>3, NotDueTwice DEF RecPrune, Prune, LoopInv
  <2>2. \A t \in Times : Settled(t) => Settled(t)'
    BY <1>1, <2>1 DEF Settled, InDisplay, NextCycleLong, NextCycleOver,
       OutOfWindow
  <2>. QED BY <1>1, <2>1, <2>2, KeepsClaims
<1>4. CASE RecCleanStep
  <2>1. pc' = "stop"
    BY <1>4 DEF RecCleanStep, CleanStep
  <2>. QED BY <1>1, <2>1, KeepsClaims
<1>. QED BY <1>2, <1>3, <1>4

\* A cycle begins: it disturbs a second that is still in the window.
LEMMA CycleBegins ==
  ASSUME EnergyInv, RecInv, LoopInv, UNCHANGED energies, RecBegin
  PROVE  EnergyInv'
<1>1. /\ UNCHANGED <<now, timer, pending, cycle, woken>>
      /\ pc = "wake" /\ pc' = "sample" /\ ctime' = now
      /\ early' = (IF woken = "resize" THEN early \cup {now} ELSE early)
  BY DEF RecBegin, Begin, waking
<1>2. DisplayDue' <=> DisplayDue
  BY <1>1 DEF DisplayDue
<1>3. ASSUME NEW t \in Times, ~ Disturbed(t)', Settled(t)
      PROVE  Settled(t)'
  <2>1. t \in Nat /\ now \in Nat /\ ctime \in Nat /\ ctime <= now /\ Interval \in Nat
    BY TimeFacts
  <2>2. CASE NextCycleLong(t)
    BY <1>1, <1>2, <2>1, <2>2 DEF Settled, NextCycleLong
  <2>3. CASE NextCycleOver(t)
    <3>1. woken = "resize" => ~ (t <= now /\ now < t + Interval)
      BY <1>1, <1>3 DEF Disturbed
    <3>2. t + Interval <= now
      BY <2>1, <2>3, <3>1 DEF NextCycleOver
    <3>. QED BY <1>1, <3>2 DEF Settled, OutOfWindow
  <2>4. CASE OutOfWindow(t)
    BY <1>1, <2>1, <2>4 DEF Settled, OutOfWindow
  <2>. QED BY <1>1, <1>3, <2>2, <2>3, <2>4 DEF Settled, InDisplay
<1>. QED BY <1>1, <1>3, KeepsClaims

\* Time passes: what is left of an interval counts with it.
LEMMA TimeStep ==
  ASSUME EnergyInv, RecInv, LoopInv, UNCHANGED energies, RecClock
  PROVE  EnergyInv'
<1>1. /\ now' = now + 1 /\ UNCHANGED <<pc, cycle, ctime, woken, early>>
  BY DEF RecClock, Tick, Expire, vars, display, shutdown
<1>2. /\ timer' \in Nat /\ now' + timer' >= now + timer
      /\ pending' => (pending /\ (timer' = timer \/ timer > 1)) \/ timer' = 0
  <2>1. CASE Tick
    BY <1>1, <2>1, TimeFacts DEF Tick, shutdown, display
  <2>2. CASE Expire
    BY <1>1, <2>2, TimeFacts DEF Expire, shutdown, display
  <2>3. CASE timer = 0 /\ UNCHANGED vars
    BY <1>1, <2>3, TimeFacts DEF vars
  <2>. QED BY <2>1, <2>2, <2>3 DEF RecClock
<1>3. DisplayDue' <=> DisplayDue
  BY <1>1 DEF DisplayDue
<1>4. ASSUME NEW t \in Times, Settled(t)
      PROVE  Settled(t)'
  <2>1. /\ t \in Nat /\ now \in Nat /\ timer \in Nat /\ Interval \in Nat
        /\ now + timer \in Nat /\ now' + timer' \in Nat /\ t + Interval \in Nat
    BY <1>1, <1>2, TimeFacts
  <2>2. CASE InDisplay(t)
    BY <1>1, <1>3, <2>2 DEF Settled, InDisplay
  <2>3. CASE NextCycleLong(t)
    <3>1. t + Interval <= now' + timer'
      BY <1>2, <2>1, <2>3 DEF NextCycleLong
    <3>2. pending' => timer' = 0
      BY <1>2, <2>1, <2>3 DEF NextCycleLong
    <3>. QED BY <1>1, <1>3, <2>3, <3>1, <3>2 DEF Settled, NextCycleLong
  <2>4. CASE NextCycleOver(t)
    BY <1>1, <2>1, <2>4 DEF Settled, NextCycleOver
  <2>5. CASE OutOfWindow(t)
    BY <1>1, <2>5 DEF Settled, OutOfWindow
  <2>. QED BY <1>4, <2>2, <2>3, <2>4, <2>5 DEF Settled
<1>5. pc' \in {"show", "select", "key"} \cup Prompts => DisplayDue'
  BY <1>1, <1>3 DEF EnergyInv
<1>. QED BY <1>1, <1>4, <1>5, KeepsClaims

\* An alarm that ends a pause has waited for the rest of the interval.
LEMMA AlarmStep ==
  ASSUME EnergyInv, RecInv, LoopInv, UNCHANGED energies, RecDeliver
  PROVE  EnergyInv'
<1>1. /\ UNCHANGED <<now, ctime, cycle, early>> /\ pc # "ended"
      /\ pending /\ ~ pending' /\ timer' = Interval
      /\ \/ pc = "pause" /\ pc' = "wake" /\ woken' = "alarm"
         \/ pc = "select" /\ pc' = "prune" /\ woken' = woken
         \/ pc \notin {"pause", "select"} /\ pc' = pc /\ woken' = woken
  BY DEF RecDeliver, Deliver, Interrupt, Wakes, waking
<1>2. DisplayDue' <=> DisplayDue
  BY <1>1 DEF DisplayDue
<1>3. ASSUME NEW t \in Times, Settled(t)
      PROVE  Settled(t)'
  <2>1. t \in Nat /\ now \in Nat /\ ctime \in Nat /\ ctime <= now /\ Interval \in Nat
    BY TimeFacts
  <2>2. CASE InDisplay(t)
    BY <1>1, <1>2, <2>1, <2>2 DEF Settled, InDisplay, NextCycleLong
  <2>3. CASE NextCycleLong(t)
    <3>1. t + Interval <= now
      BY <1>1, <2>1, <2>3 DEF NextCycleLong
    <3>2. t + Interval <= now' + timer'
      BY <1>1, <2>1, <3>1
    <3>. QED BY <1>1, <1>2, <2>3, <3>1, <3>2
             DEF Settled, NextCycleLong, NextCycleOver
  <2>4. CASE NextCycleOver(t)
    BY <1>1, <2>4 DEF Settled, NextCycleOver
  <2>5. CASE OutOfWindow(t)
    BY <1>1, <2>5 DEF Settled, OutOfWindow
  <2>. QED BY <1>3, <2>2, <2>3, <2>4, <2>5 DEF Settled
<1>4. pc' \in {"show", "select", "key"} \cup Prompts => DisplayDue'
  BY <1>1, <1>2 DEF EnergyInv
<1>5. pc' \notin {"stop", "ended"} => pc \notin {"stop", "ended"}
  BY <1>1
<1>. QED BY <1>1, <1>3, <1>4, <1>5, KeepsClaims

\* A resize that ends a pause leaves it to the cycle to disturb what it finds.
LEMMA EarlyStep ==
  ASSUME EnergyInv, RecInv, LoopInv, UNCHANGED energies, RecResize
  PROVE  EnergyInv'
<1>1. /\ UNCHANGED <<now, ctime, timer, cycle, early>>
      /\ \/ pc = "pause" /\ pc' = "wake" /\ woken' = "resize"
         \/ pc = "select" /\ pc' = "prune"
  BY DEF RecResize, Resize, Interrupt, Wakes
<1>2. DisplayDue' <=> DisplayDue
  BY <1>1 DEF DisplayDue
<1>3. ASSUME NEW t \in Times, Settled(t)
      PROVE  Settled(t)'
  BY <1>1, <1>2, <1>3
     DEF Settled, InDisplay, NextCycleLong, NextCycleOver, OutOfWindow
<1>. QED BY <1>1, <1>3, KeepsClaims

\* The other steps stay within a cycle, or end it.
LEMMA StayStep ==
  ASSUME EnergyInv, RecInv, LoopInv, UNCHANGED energies, RecOther,
         ~ (pc = "show" /\ pc' = "select")
  PROVE  EnergyInv'
<1>1. /\ UNCHANGED <<now, early, cycle>>
      /\ \/ pc' \in {"stop", "ended"}
         \/ pc = "show" /\ pc' = "prune"
         \/ pc \in {"select", "key"} \cup Prompts /\ pc' \in {"key", "prune"} \cup Prompts
  BY DEF RecOther, SampleAborts, NoTerminal, TooNarrow, Show, NoKey, Prompt, Quit,
     OtherKey, CleanExit, Crash, KeyPressed, Answer, Killed, Caught, Cleanstop, display,
     shutdown
<1>2. ctime' = ctime
  BY DEF RecOther
<1>3. DisplayDue' <=> DisplayDue
  BY <1>1 DEF DisplayDue
<1>4. ASSUME NEW t \in Times, pc' \notin {"stop", "ended"}, Settled(t)
      PROVE  Settled(t)'
  BY <1>1, <1>2, <1>3, <1>4
     DEF Settled, InDisplay, NextCycleLong, NextCycleOver, OutOfWindow
<1>5. pc' \in {"show", "select", "key"} \cup Prompts => DisplayDue'
  BY <1>1, <1>3 DEF EnergyInv
<1>6. pc' \notin {"stop", "ended"} => pc \notin {"stop", "ended"}
  BY <1>1
<1>. QED BY <1>1, <1>4, <1>5, <1>6, KeepsClaims

\* A display claims only seconds that nobody has claimed, or that were disturbed.
LEMMA DisplayStep ==
  ASSUME EnergyInv, RecInv, LoopInv, RecOther, pc = "show", pc' = "select", Display
  PROVE  EnergyInv'
<1>1. UNCHANGED <<now, early, cycle>>
  BY DEF RecOther, SampleAborts, NoTerminal, TooNarrow, Show, NoKey, Prompt, Quit,
     OtherKey, CleanExit, Crash, KeyPressed, Answer, Killed, Caught, Cleanstop, display,
     shutdown
<1>2. ctime' = ctime
  BY DEF RecOther
<1>3. DisplayDue /\ DisplayDue'
  BY <1>1 DEF EnergyInv, DisplayDue
<1>4. \A t \in Times : Disturbed(t)' <=> Disturbed(t)
  BY <1>1 DEF Disturbed
<1>5. ASSUME NEW t \in Times, Claimed(t), ~ Disturbed(t)
      PROVE  OutOfWindow(t) /\ t \notin Window
  <2>1. OutOfWindow(t)
    BY <1>5 DEF EnergyInv, Settled, InDisplay, NextCycleLong, NextCycleOver
  <2>. QED BY <2>1, TimeFacts DEF OutOfWindow, Window
<1>6. /\ device' \in [Times -> Nat] /\ process' \in [Times -> Nat]
      /\ \A t \in Times : \/ device'[t] = device[t]
                          \/ t \in Window /\ device'[t] = device[t] + 1
      /\ \A t \in Times : \/ process'[t] = process[t]
                          \/ t \in Window /\ process'[t] = process[t] + 1
  BY DEF EnergyInv, Display, Inserted, DeviceRow, ProcessRow
<1>7. ASSUME NEW t \in Times, ~ Disturbed(t)
      PROVE  /\ device'[t] <= 1 /\ process'[t] <= 1
             /\ Claimed(t)' => OutOfWindow(t) \/ t \in Window
  <2>0. device[t] \in Nat /\ process[t] \in Nat
    BY DEF EnergyInv
  <2>1. CASE Claimed(t)
    <3>1. device'[t] = device[t] /\ process'[t] = process[t] /\ OutOfWindow(t)
      BY <1>5, <1>6, <1>7, <2>1
    <3>. QED BY <1>7, <3>1 DEF EnergyInv, ClaimedOnce
  <2>2. CASE ~ Claimed(t)
    <3>1. device[t] = 0 /\ process[t] = 0
      BY <2>0, <2>2 DEF Claimed
    <3>. QED BY <1>6, <3>1 DEF Claimed
  <2>. QED BY <2>1, <2>2
<1>8. ASSUME NEW t \in Times, Claimed(t)', ~ Disturbed(t)'
      PROVE  Settled(t)'
  <2>1. OutOfWindow(t) \/ t \in Window
    BY <1>4, <1>7, <1>8
  <2>. QED BY <1>2, <1>3, <2>1 DEF Settled, OutOfWindow, InDisplay, Window
<1>. QED BY <1>3, <1>4, <1>6, <1>7, <1>8 DEF EnergyInv, ClaimedOnce

\* Every step keeps the invariant.
LEMMA NextEnergyInv ==
  ASSUME ShowEvery >= 2, EnergyInv, RecInv, LoopInv, [EnNext]_enVars
  PROVE  EnergyInv'
<1>1. CASE UNCHANGED enVars
  BY <1>1 DEF enVars, recVars, waking, vars, energies, EnergyInv, ClaimedOnce, Claimed,
     Disturbed, DisplayDue, Settled, InDisplay, NextCycleLong, NextCycleOver, OutOfWindow
<1>2. CASE EnNext /\ pc = "show" /\ pc' = "select"
  <2>1. RecOther /\ Display
    BY <1>2 DEF EnNext, RecNext, RecBegin, Begin, RecSample, Sample, RecPrune, Prune,
       RecCleanStep, CleanStep, RecClock, Tick, Expire, RecDeliver, Deliver, Interrupt,
       RecResize, Resize, RecEnded, recVars, vars
  <2>. QED BY <1>2, <2>1, DisplayStep
<1>3. CASE EnNext /\ ~ (pc = "show" /\ pc' = "select")
  <2>1. RecNext /\ UNCHANGED energies
    BY <1>3 DEF EnNext
  <2>2. CASE RecEnded
    BY <2>1, <2>2 DEF RecEnded, recVars, waking, vars, energies, EnergyInv, ClaimedOnce,
       Claimed, Disturbed, DisplayDue, Settled, InDisplay, NextCycleLong, NextCycleOver,
       OutOfWindow
  <2>. QED BY <1>3, <2>1, <2>2, CycleStep, CycleBegins, TimeStep, AlarmStep, EarlyStep,
              StayStep DEF RecNext
<1>. QED BY <1>1, <1>2, <1>3

\* No second is in two rows of the energy tables, unless a resize began a cycle within
\* the sample rate after it.
THEOREM NeverClaimedTwice ==
  ASSUME ShowEvery >= 2
  PROVE  EnSpec => []ClaimedOnce
<1>1. EnInit => EnergyInv
  BY InitEnergyInv
<1>2. EnergyInv /\ RecInv /\ LoopInv /\ [EnNext]_enVars => EnergyInv'
  BY NextEnergyInv
<1>3. EnergyInv => ClaimedOnce
  BY DEF EnergyInv
<1>. QED BY <1>1, <1>2, <1>3, EnRecInvariant, PTL DEF EnSpec

=============================================================================
