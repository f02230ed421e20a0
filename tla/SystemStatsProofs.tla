-------------------------- MODULE SystemStatsProofs --------------------------
(***************************************************************************)
(* SystemStats, proved for any number of processes, any width of the        *)
(* counters, any amount of work and any number of failing statements: what   *)
(* is stored of the system adds up, and agrees with what is stored of its    *)
(* processes; the power of the cpu stays within its limits, for any number   *)
(* of frequencies.                                                           *)
(***************************************************************************)
EXTENDS SystemStats, FiniteSetTheorems, TLAPS

USE DEF Procs, prev, Info, IoInfo, outcome

-----------------------------------------------------------------------------
\* Arithmetic.
LEMMA ModRange ==
  ASSUME NEW a \in Nat
  PROVE  a % Width \in Nat /\ a % Width < Width /\ a % Width <= a
  BY SystemStatsAssumption

\* A counter below the width is stored as it is.
LEMMA ModSmall == ASSUME NEW a \in Nat, a < Width PROVE a % Width = a
  BY SystemStatsAssumption

\* The remainder, and what it is the remainder of.
LEMMA DivMod ==
  ASSUME NEW a \in Int, NEW d \in Int, d > 0
  PROVE  a = d * (a \div d) + (a % d)
  OBVIOUS

\* Equal differences have equal signs.
LEMMA Ordered ==
  ASSUME NEW a \in Nat, NEW b \in Nat, NEW r \in Nat, NEW s \in Nat, a >= b,
         r - s = a - b
  PROVE  r >= s
  OBVIOUS

\* Two samples with no overflow between them have the difference that they show.
LEMMA ModSame ==
  ASSUME NEW a \in Nat, NEW b \in Nat, a \div Width = b \div Width
  PROVE  (a % Width) - (b % Width) = a - b
<1>1. Width \in Int /\ Width > 0
  BY SystemStatsAssumption
<1>2. /\ a = Width * (a \div Width) + (a % Width)
      /\ b = Width * (a \div Width) + (b % Width)
  BY <1>1, DivMod
<1>3. a % Width \in Int /\ b % Width \in Int /\ Width * (a \div Width) \in Int
  BY <1>1
<1>4. PICK x \in Int, r \in Int, s \in Int :
         r = a % Width /\ s = b % Width /\ a = x + r /\ b = x + s
  BY <1>2, <1>3, Zenon
<1>5. r - s = a - b
  BY <1>4
<1>. QED BY <1>4, <1>5, Zenon

\* Kilobytes are rounded down (DiskEnergy).
LEMMA FloorBelow == ASSUME NEW a \in Nat PROVE InKB(a) \in Nat /\ KB * InKB(a) <= a
  BY SystemStatsAssumption DEF InKB

\* They are the most that fit.
LEMMA FloorSum ==
  ASSUME NEW a \in Nat, NEW k \in Nat, KB * k <= a
  PROVE  k <= InKB(a)
  BY SystemStatsAssumption DEF InKB

\* A counter that has not run backwards.
LEMMA SubCountFacts ==
  ASSUME NEW new \in Nat, NEW old \in Nat
  PROVE  /\ new >= old => SubCount(new, old) = new - old
         /\ old <= MaxVal => SubCount(new, old) \in Nat
  BY MaxValAssumption DEF SubCount

\* subcount, whose arguments and result are u32.
LEMMA SubCount32Facts ==
  ASSUME NEW new \in Nat, NEW old \in Nat
  PROVE  /\ SubCount32(new, old) \in Nat
         /\ new \div Width = old \div Width /\ new >= old =>
              SubCount32(new, old) = new - old /\ new - old < Width
<1>1. new % Width \in Nat /\ old % Width \in Nat
  BY ModRange
<1>2. SubCount32(new, old) \in Nat
  BY <1>1, SystemStatsAssumption DEF SubCount32
<1>3. ASSUME new \div Width = old \div Width, new >= old
      PROVE  SubCount32(new, old) = new - old /\ new - old < Width
  <2>1. (new % Width) - (old % Width) = new - old
    BY <1>3, ModSame
  <2>2. new % Width >= old % Width
    BY <1>1, <1>3, <2>1, Ordered
  <2>3. SubCount32(new, old) = (new % Width) - (old % Width)
    BY <2>2 DEF SubCount32
  <2>4. new % Width < Width
    BY ModRange
  <2>5. (new % Width) - (old % Width) < Width
    BY <1>1, <2>4, SystemStatsAssumption
  <2>. QED BY <2>1, <2>3, <2>5
<1>. QED BY <1>2, <1>3

-----------------------------------------------------------------------------
\* The two halves.
LEMMA Halves ==
  ASSUME SysInv
  PROVE  /\ curr \in 0 .. 1 /\ 1 - curr \in 0 .. 1 /\ curr # 1 - curr
         /\ \A h \in 0 .. 1 : h = curr \/ h = 1 - curr
  BY DEF SysInv, SysTypeOK

\* At the start nothing is read, booked or added up.
LEMMA InitSysInv == SysInit => SysInv
<1> SUFFICES ASSUME SysInit PROVE SysInv
  OBVIOUS
<1>1. SysTypeOK
  <2>1. failed \in [sys: Nat, ps: Nat] /\ failed.sys + failed.ps <= MaxFails
    BY SystemStatsAssumption DEF SysInit
  <2>2. sys \in [0 .. 1 -> Info] /\ io \in [0 .. 1 -> [Procs -> IoInfo]]
    BY DEF SysInit, NoInfo, NoIo
  <2>3. /\ row \in Info /\ rows \in [rd: Nat, wr: Nat, rdKB: Nat]
        /\ booked \in [run: Nat, mem: Nat, net: Nat]
    BY DEF SysInit, NoInfo, NoRows
  <2>4. /\ curr \in 0 .. 1 /\ at \in Procs /\ work \in 0 .. MaxWork
        /\ busy \in Nat /\ ticks \in Nat /\ net \in Nat
    BY SystemStatsAssumption DEF SysInit
  <2>5. linked \in BOOLEAN /\ steady \in BOOLEAN /\ stored \in BOOLEAN /\ whole \in BOOLEAN
    BY Zenon DEF SysInit
  <2>6. pc \in {"stat", "scan", "freq", "mem", "net", "walk", "store", "pause"}
    BY Zenon DEF SysInit
  <2>. QED BY <2>1, <2>2, <2>3, <2>4, <2>5, <2>6, Zenon DEF SysTypeOK
<1>2. 0 % Width = 0
  BY SystemStatsAssumption
<1>3. BookedInv /\ TimesInv /\ IoInv /\ WalkInv /\ RunShareBounded
  BY <1>2, SystemStatsAssumption
     DEF SysInit, BookedInv, TimesInv, IoInv, WalkInv, RunShareBounded, Stored, NoInfo,
         NoRows
<1>. QED BY <1>1, <1>3 DEF SysInv

\* The times are read; the half that is filled starts at zero.
LEMMA StatStep ==
  ASSUME SysInv, ReadStat
  PROVE  SysInv'
<1>0. PICK run \in Advance, other \in Advance :
         /\ Works(run + other)
         /\ busy' = busy + run
         /\ ticks' = ticks + run + other
  BY DEF ReadStat
<1>1. /\ run \in Nat /\ other \in Nat /\ busy \in Nat /\ ticks \in Nat /\ work \in Nat
      /\ work' \in 0 .. MaxWork /\ work <= work'
  BY <1>0, SystemStatsAssumption DEF Advance, Works, SysInv, SysTypeOK
<1>2. /\ busy' \in Nat /\ ticks' \in Nat
      /\ busy' % Width \in Nat /\ ticks' % Width \in Nat
  BY <1>0, <1>1, ModRange
<1>3. /\ pc = "stat" /\ pc' = "scan" /\ rows' = NoRows
      /\ steady' = TRUE /\ stored' = FALSE /\ whole' = TRUE
      /\ UNCHANGED <<curr, net, io, row, booked, linked, failed>>
  BY DEF ReadStat
<1>4. /\ sys'[curr] = [NoInfo EXCEPT !.run = busy' % Width, !.itv = ticks' % Width]
      /\ sys'[1 - curr] = sys[1 - curr]
      /\ sys' \in [0 .. 1 -> Info]
  BY <1>2, <1>3, Halves DEF ReadStat, SysInv, SysTypeOK, Reset, NoInfo
<1>5. SysTypeOK'
  <2>1. at' \in Procs /\ rows' \in [rd: Nat, wr: Nat, rdKB: Nat]
    BY <1>3, SystemStatsAssumption DEF ReadStat, NoRows
  <2>. QED BY <1>1, <1>2, <1>3, <1>4, <2>1 DEF SysInv, SysTypeOK
<1>6. BookedInv'
  <2>1. Stored = 1 - curr /\ Stored' = 1 - curr
    BY <1>3 DEF Stored
  <2>2. ticks' < Width => ticks < Width
    BY <1>0, <1>1, SystemStatsAssumption
  <2>3. \A h \in 0 .. 1 : sys'[h].net <= net
    <3>1. sys'[curr].net = 0 /\ net \in Nat
      BY <1>4 DEF NoInfo, SysInv, SysTypeOK
    <3>2. sys'[1 - curr].net <= net
      BY <1>4, Halves DEF SysInv, BookedInv
    <3>. QED BY <3>1, <3>2, Halves
  <2>4. net <= work'
    BY <1>1 DEF SysInv, SysTypeOK, BookedInv
  <2>. QED BY <1>3, <1>4, <2>1, <2>2, <2>3, <2>4 DEF SysInv, BookedInv
<1>7. TimesInv'
  <2>1. sys[1 - curr].run = busy % Width /\ sys[1 - curr].itv = ticks % Width
    BY <1>3 DEF SysInv, TimesInv
  <2>2. ticks' < Width => sys[1 - curr].run = busy /\ sys[1 - curr].itv = ticks
    BY <1>0, <1>1, <2>1, ModSmall, SystemStatsAssumption DEF SysInv, TimesInv
  <2>3. sys[1 - curr].run < Width /\ sys[1 - curr].itv < Width
    BY <1>1, <2>1, ModRange
  <2>4. busy' <= ticks'
    BY <1>0, <1>1 DEF SysInv, TimesInv
  <2>. QED BY <1>0, <1>1, <1>3, <1>4, <2>2, <2>3, <2>4 DEF TimesInv, NoInfo
<1>8. IoInv'
  BY <1>3 DEF ReadStat, IoInv
<1>9. WalkInv' /\ RunShareBounded'
  BY <1>3, <1>4, SystemStatsAssumption DEF WalkInv, RunShareBounded, NoRows, NoInfo
<1>. QED BY <1>5, <1>6, <1>7, <1>8, <1>9 DEF SysInv

\* A step that reads no sample and stores nothing.
LEMMA QuietStep ==
  ASSUME SysInv, UNCHANGED <<curr, at, machine, samples, history>>,
         work' \in 0 .. MaxWork, work <= work',
         pc = "freq" /\ pc' = "mem"
  PROVE  SysInv'
<1>1. SysTypeOK'
  BY DEF machine, samples, history, SysInv, SysTypeOK
<1>2. BookedInv' /\ TimesInv'
  BY DEF machine, samples, history, SysInv, SysTypeOK, BookedInv, TimesInv, Stored
<1>3. IoInv' /\ WalkInv' /\ RunShareBounded'
  BY DEF samples, history, SysInv, IoInv, WalkInv, RunShareBounded
<1>. QED BY <1>1, <1>2, <1>3 DEF SysInv

\* read_cpufreq_stats has no effect on the other figures of sys_stats.
LEMMA FreqStep ==
  ASSUME SysInv, ReadFreq
  PROVE  SysInv'
<1>1. PICK n \in Advance : Works(n)
  BY DEF ReadFreq
<1>2. work' \in 0 .. MaxWork /\ work <= work'
  BY <1>1, SystemStatsAssumption DEF Advance, Works, SysInv, SysTypeOK
<1>. QED BY <1>2, QuietStep DEF ReadFreq

\* A process is read: its counters have not run backwards.
LEMMA ScanStep ==
  ASSUME SysInv, ScanProcess
  PROVE  SysInv'
<1>0. PICK r \in Advance, w \in Advance, c \in Advance :
         /\ Works(r + w + c)
         /\ io' = [io EXCEPT ![curr][at] = [rd |-> io[prev][at].rd + r,
                                            wr |-> io[prev][at].wr + w,
                                            cw |-> io[prev][at].cw + c]]
  BY DEF ScanProcess
<1>1. /\ r \in Nat /\ w \in Nat /\ c \in Nat
      /\ work \in Nat /\ work' \in 0 .. MaxWork /\ work <= work'
  BY <1>0, SystemStatsAssumption DEF Advance, Works, SysInv, SysTypeOK
<1>2. /\ pc = "scan"
      /\ UNCHANGED <<curr, busy, ticks, net, sys, row, rows, booked, linked, steady>>
      /\ UNCHANGED outcome
      /\ IF at < MaxProc THEN at' = at + 1 /\ pc' = "scan" ELSE at' = 1 /\ pc' = "freq"
  BY DEF ScanProcess, Onward, machine, history
<1>3. /\ at \in 1 .. MaxProc /\ MaxProc \in Nat \ {0}
      /\ io[1 - curr][at] \in IoInfo
      /\ at' \in 1 .. MaxProc
      /\ pc' \in {"scan", "freq"}
  <2>1. at \in 1 .. MaxProc /\ MaxProc \in Nat \ {0}
    BY SystemStatsAssumption DEF SysInv, SysTypeOK
  <2>2. io[1 - curr][at] \in IoInfo
    <3>1. 1 - curr \in 0 .. 1
      BY Halves
    <3>2. io \in [0 .. 1 -> [Procs -> IoInfo]]
      BY DEF SysInv, SysTypeOK
    <3>. QED BY <2>1, <3>1, <3>2
  <2>. QED BY <1>2, <2>1, <2>2
<1>4. /\ io' \in [0 .. 1 -> [Procs -> IoInfo]]
      /\ io'[1 - curr] = io[1 - curr]
      /\ \A p \in Procs \ {at} : io'[curr][p] = io[curr][p]
      /\ io'[curr][at] = [rd |-> io[1 - curr][at].rd + r,
                          wr |-> io[1 - curr][at].wr + w,
                          cw |-> io[1 - curr][at].cw + c]
  <2>1. [rd |-> io[1 - curr][at].rd + r, wr |-> io[1 - curr][at].wr + w,
         cw |-> io[1 - curr][at].cw + c] \in IoInfo
    BY <1>1, <1>3
  <2>. QED BY <1>0, <1>3, <2>1, Halves DEF SysInv, SysTypeOK
<1>5. SysTypeOK'
  BY <1>1, <1>2, <1>3, <1>4 DEF SysInv, SysTypeOK
<1>6. BookedInv' /\ TimesInv'
  <2>1. Stored' = Stored
    BY <1>2, <1>3 DEF Stored
  <2>2. net <= work'
    BY <1>1 DEF SysInv, SysTypeOK, BookedInv
  <2>. QED BY <1>2, <1>3, <2>1, <2>2 DEF SysInv, BookedInv, TimesInv
<1>7. IoInv'
  <2> SUFFICES ASSUME NEW p \in Procs, pc' = "scan" => p < at',
                      NEW field \in {"rd", "wr", "cw"}
               PROVE  io'[1 - curr][p][field] <= io'[curr][p][field]
    BY <1>2 DEF IoInv
  <2>1. CASE p = at
    <3>1. /\ io[1 - curr][at].rd \in Nat /\ io[1 - curr][at].wr \in Nat
          /\ io[1 - curr][at].cw \in Nat
      BY <1>3
    <3>2. /\ io'[1 - curr][at].rd <= io'[curr][at].rd
          /\ io'[1 - curr][at].wr <= io'[curr][at].wr
          /\ io'[1 - curr][at].cw <= io'[curr][at].cw
      BY SMTT(30), <1>1, <1>4, <3>1
    <3>. QED BY <2>1, <3>2
  <2>2. CASE p # at
    <3>1. p < at
      BY <1>2, <1>3, <2>2, SystemStatsAssumption
    <3>2. io[1 - curr][p][field] <= io[curr][p][field]
      BY <1>2, <3>1 DEF SysInv, IoInv
    <3>. QED BY <1>4, <2>2, <3>2
  <2>. QED BY <2>1, <2>2
<1>8. WalkInv' /\ RunShareBounded'
  BY <1>2, <1>3 DEF SysInv, WalkInv, RunShareBounded
<1>. QED BY <1>5, <1>6, <1>7, <1>8 DEF SysInv

\* The counters of all cpus go on from those of the last cycle.
LEMMA MemStep ==
  ASSUME SysInv, ReadMem
  PROVE  SysInv'
<1>0. PICK m \in Advance : Works(m) /\ sys' = [sys EXCEPT ![curr].mem = sys[prev].mem + m]
  BY DEF ReadMem
<1>1. /\ m \in Nat /\ work' \in 0 .. MaxWork /\ work <= work' /\ work \in Nat
      /\ sys[1 - curr] \in Info /\ sys[curr] \in Info
  <2>1. m \in Nat /\ work' \in 0 .. MaxWork /\ work <= work' /\ work \in Nat
    <3>1. work \in Nat /\ Works(m)
      BY <1>0, SystemStatsAssumption DEF SysInv, SysTypeOK
    <3>. QED BY <3>1, SystemStatsAssumption DEF Advance, Works
  <2>. QED BY <2>1, Halves DEF SysInv, SysTypeOK
<1>2. /\ pc = "mem" /\ pc' = "net"
      /\ UNCHANGED <<curr, at, busy, ticks, net, io, row, rows, booked, linked, steady>>
      /\ UNCHANGED outcome
  BY DEF ReadMem, machine, history
<1>3. /\ sys' \in [0 .. 1 -> Info]
      /\ sys'[1 - curr] = sys[1 - curr]
      /\ sys'[curr].mem = sys[1 - curr].mem + m
      /\ sys'[curr].run = sys[curr].run /\ sys'[curr].itv = sys[curr].itv
      /\ sys'[curr].net = sys[curr].net
      /\ sys'[curr].rd = sys[curr].rd /\ sys'[curr].wr = sys[curr].wr
  <2>1. sys[1 - curr].mem + m \in Nat
    BY <1>1
  <2>2. sys' = [sys EXCEPT ![curr] = [sys[curr] EXCEPT !.mem = sys[1 - curr].mem + m]]
    BY <1>0
  <2>3. [sys[curr] EXCEPT !.mem = sys[1 - curr].mem + m] \in Info
    BY <1>1, <2>1
  <2>. QED BY <1>1, <2>2, <2>3, Halves DEF SysInv, SysTypeOK
<1>4. SysTypeOK'
  BY <1>1, <1>2, <1>3 DEF SysInv, SysTypeOK
<1>5. BookedInv'
  <2>1. Stored = 1 - curr /\ Stored' = 1 - curr
    BY <1>2 DEF Stored
  <2>2. \A h \in 0 .. 1 : sys'[h].net = sys[h].net
    BY <1>3, Halves
  <2>3. net <= work'
    BY <1>1 DEF SysInv, SysTypeOK, BookedInv
  <2>4. sys'[1 - curr].mem <= sys'[curr].mem
    BY <1>1, <1>3
  <2>. QED BY <1>2, <1>3, <2>1, <2>2, <2>3, <2>4 DEF SysInv, BookedInv
<1>6. TimesInv'
  BY <1>2, <1>3 DEF SysInv, TimesInv
<1>7. IoInv' /\ WalkInv' /\ RunShareBounded'
  BY <1>2, <1>3 DEF SysInv, IoInv, WalkInv, RunShareBounded
<1>. QED BY <1>4, <1>5, <1>6, <1>7 DEF SysInv

\* The interface is read, or it is not and is forgotten.
LEMMA NetStep ==
  ASSUME SysInv, ReadNet
  PROVE  SysInv'
<1>0. PICK n \in Advance, up \in BOOLEAN :
         /\ Works(n)
         /\ net' = net + n
         /\ sys' = [sys EXCEPT ![curr].net = IF up THEN net' ELSE 0]
         /\ linked' = (linked /\ up)
  BY DEF ReadNet
<1>1. /\ n \in Nat /\ work \in Nat /\ work' \in 0 .. MaxWork /\ net \in Nat
      /\ net' \in Nat /\ net <= net' /\ net' <= work'
  <2>1. n \in Nat /\ work \in Nat /\ net \in Nat /\ work' = work + n /\ work' <= MaxWork
    BY <1>0, SystemStatsAssumption DEF Advance, Works, SysInv, SysTypeOK
  <2>2. net <= work
    BY DEF SysInv, BookedInv
  <2>. QED BY <1>0, <2>1, <2>2, SystemStatsAssumption
<1>2. /\ pc = "net" /\ pc' = "walk"
      /\ UNCHANGED <<curr, at, busy, ticks, io, row, rows, booked, steady, outcome>>
  BY DEF ReadNet
<1>3. /\ sys' \in [0 .. 1 -> Info]
      /\ sys'[1 - curr] = sys[1 - curr]
      /\ sys'[curr].net = (IF up THEN net' ELSE 0)
      /\ \A field \in {"run", "itv", "mem", "rd", "wr"} :
           sys'[curr][field] = sys[curr][field]
  BY <1>0, <1>1, Halves DEF SysInv, SysTypeOK
<1>4. SysTypeOK'
  <2>1. linked' \in BOOLEAN
    BY <1>0
  <2>. QED BY <1>1, <1>2, <1>3, <2>1 DEF SysInv, SysTypeOK
<1>5. BookedInv'
  <2>1. Stored = 1 - curr /\ Stored' = 1 - curr
    BY <1>2 DEF Stored
  <2>2. sys'[1 - curr].net <= net' /\ sys'[curr].net <= net'
    <3>1. sys[1 - curr].net <= net /\ sys[1 - curr].net \in Nat
      BY Halves DEF SysInv, SysTypeOK, BookedInv
    <3>. QED BY <1>1, <1>3, <3>1
  <2>3. \A h \in 0 .. 1 : sys'[h].net <= net'
    BY <2>2, Halves
  <2>4. linked' => linked /\ sys'[curr].net = net'
    BY <1>0, <1>3
  <2>. QED BY <1>1, <1>2, <1>3, <2>1, <2>3, <2>4 DEF SysInv, BookedInv
<1>6. TimesInv'
  BY <1>2, <1>3 DEF SysInv, TimesInv
<1>7. IoInv' /\ WalkInv' /\ RunShareBounded'
  BY <1>2, <1>3 DEF SysInv, IoInv, WalkInv, RunShareBounded
<1>. QED BY <1>4, <1>5, <1>6, <1>7 DEF SysInv

-----------------------------------------------------------------------------
\* The figures of the process that the walk has got to.
LEMMA WalkFigures ==
  ASSUME SysInv, pc = "walk", NEW field \in {"rd", "wr", "cw"}
  PROVE  /\ Diff(SubCount, field) = io[curr][at][field] - io[1 - curr][at][field]
         /\ Diff(SubCount, field) \in Nat /\ Diff(SubCount32, field) \in Nat
         /\ Ordinary => /\ Diff(SubCount32, field) = Diff(SubCount, field)
                        /\ Diff(SubCount, field) < Width
<1> DEFINE new == io[curr][at][field]
           old == io[1 - curr][at][field]
<1>1. new \in Nat /\ old \in Nat
  <2>1. at \in Procs /\ io \in [0 .. 1 -> [Procs -> IoInfo]]
    BY DEF SysInv, SysTypeOK
  <2>2. io[curr][at] \in IoInfo /\ io[1 - curr][at] \in IoInfo
    BY <2>1, Halves
  <2>. QED BY <2>2
<1>2. new >= old
  <2>1. at \in Procs
    BY DEF SysInv, SysTypeOK
  <2>2. old <= new
    BY <2>1 DEF SysInv, IoInv
  <2>. QED BY <1>1, <2>2
<1>3. Diff(SubCount, field) = SubCount(new, old)
  BY DEF Diff
<1>4. Diff(SubCount32, field) = SubCount32(new, old)
  BY DEF Diff
<1>5. Ordinary => new \div Width = old \div Width
  BY DEF Ordinary
<1>6. SubCount(new, old) = new - old /\ new - old \in Nat
  BY <1>1, <1>2, SubCountFacts
<1>7. /\ SubCount32(new, old) \in Nat
      /\ Ordinary => SubCount32(new, old) = new - old /\ new - old < Width
  BY <1>1, <1>2, <1>5, SubCount32Facts
<1> HIDE DEF new, old
<1>8. /\ Diff(SubCount, field) = new - old
      /\ Diff(SubCount, field) \in Nat /\ Diff(SubCount32, field) \in Nat
      /\ Ordinary => /\ Diff(SubCount32, field) = Diff(SubCount, field)
                     /\ Diff(SubCount, field) < Width
  BY <1>3, <1>4, <1>6, <1>7
<1>. QED BY <1>8 DEF new, old

\* What is written and not cancelled.
LEMMA WrittenFigures ==
  ASSUME SysInv, pc = "walk"
  PROVE  /\ Written \in Nat
         /\ Ordinary =>
              Written = (Diff(SubCount32, "wr") - Diff(SubCount32, "cw")) % Width
<1> DEFINE w == Diff(SubCount, "wr")
           c == Diff(SubCount, "cw")
<1>1. w \in Nat /\ c \in Nat
  BY WalkFigures
<1>2. Ordinary => /\ Diff(SubCount32, "wr") = w /\ Diff(SubCount32, "cw") = c
                  /\ w < Width
  BY WalkFigures
<1>3. Ordinary => c <= w
  <2>1. /\ w = io[curr][at].wr - io[1 - curr][at].wr
        /\ c = io[curr][at].cw - io[1 - curr][at].cw
    BY WalkFigures
  <2>. QED BY <2>1 DEF Ordinary
<1>4. Written = w - LesserOf(c, w)
  BY DEF Written
<1> HIDE DEF w, c
<1>5. Written \in Nat
  BY <1>1, <1>4 DEF LesserOf
<1>6. ASSUME Ordinary
      PROVE  Written = (Diff(SubCount32, "wr") - Diff(SubCount32, "cw")) % Width
  <2>1. Written = w - c
    BY <1>1, <1>3, <1>4, <1>6 DEF LesserOf
  <2>2. (w - c) \in Nat /\ (w - c) < Width
    BY <1>1, <1>2, <1>3, <1>6, SystemStatsAssumption
  <2>3. (w - c) % Width = w - c
    BY <2>2, ModSmall
  <2>. QED BY <1>2, <1>6, <2>1, <2>3
<1>. QED BY <1>5, <1>6

\* What two figures hold in whole kilobytes, their sum holds.
LEMMA KBSum ==
  ASSUME NEW k \in Nat, NEW j \in Nat, NEW a \in Nat, NEW b \in Nat,
         KB * k <= a, KB * j <= b
  PROVE  KB * (k + j) <= a + b
<1>1. KB * (k + j) = KB * k + KB * j
  BY SystemStatsAssumption
<1>2. KB * k \in Nat /\ KB * j \in Nat
  BY SystemStatsAssumption
<1>. QED BY <1>1, <1>2

\* A statement that fails is counted.
LEMMA FailsFacts ==
  ASSUME SysInv, NEW insert \in {"sys", "ps"}, Fails(insert)
  PROVE  /\ failed' \in [sys: Nat, ps: Nat] /\ failed'.sys + failed'.ps <= MaxFails
         /\ insert = "ps" => failed'.sys = failed.sys
         /\ insert = "sys" => failed'.sys # 0
<1>1. failed \in [sys: Nat, ps: Nat]
  BY DEF SysInv, SysTypeOK
<1>2. failed' = [failed EXCEPT ![insert] = @ + 1] /\ failed'.sys + failed'.ps <= MaxFails
  BY DEF Fails
<1>3. CASE insert = "sys"
  BY <1>1, <1>2, <1>3
<1>4. CASE insert = "ps"
  BY <1>1, <1>2, <1>4
<1>. QED BY <1>3, <1>4

\* One process is written: what an ordinary one adds, it adds to both tables.
LEMMA WalkStep ==
  ASSUME SysInv, WalkProcess
  PROVE  SysInv'
<1> DEFINE rd == Diff(SubCount, "rd")
           rd32 == Diff(SubCount32, "rd")
           wr32 == (Diff(SubCount32, "wr") - Diff(SubCount32, "cw")) % Width
<1>1. /\ pc = "walk"
      /\ UNCHANGED <<curr, busy, ticks, net, io, row, work, booked, linked, stored>>
      /\ steady' = (steady /\ Ordinary)
      /\ IF at < MaxProc THEN at' = at + 1 /\ pc' = "walk" ELSE at' = 1 /\ pc' = "store"
      /\ sys' = [sys EXCEPT ![curr].rd = @ + rd32, ![curr].wr = @ + wr32]
      /\ \/ /\ rows' = [rd |-> rows.rd + rd, wr |-> rows.wr + Written,
                        rdKB |-> rows.rdKB + InKB(rd)]
            /\ failed' = failed /\ whole' = whole
         \/ /\ rows' = rows /\ whole' = FALSE
            /\ failed' = failed \/ Fails("ps")
  BY DEF WalkProcess, Onward, machine
<1>2. at' \in Procs /\ pc' \in {"walk", "store"}
  <2>1. at \in 1 .. MaxProc /\ MaxProc \in Nat \ {0}
    BY SystemStatsAssumption DEF SysInv, SysTypeOK
  <2>2. IF at < MaxProc THEN at' = at + 1 /\ pc' = "walk" ELSE at' = 1 /\ pc' = "store"
    BY <1>1
  <2>. QED BY <2>1, <2>2
<1>3. /\ rd \in Nat /\ rd32 \in Nat /\ wr32 \in Nat /\ Written \in Nat
      /\ Ordinary => rd32 = rd /\ wr32 = Written
  <2>1. rd \in Nat /\ rd32 \in Nat /\ (Ordinary => rd32 = rd)
    BY <1>1, WalkFigures
  <2>2. Written \in Nat /\ (Ordinary => wr32 = Written)
    BY <1>1, WrittenFigures
  <2>3. Diff(SubCount32, "wr") \in Nat /\ Diff(SubCount32, "cw") \in Nat
    BY <1>1, WalkFigures
  <2>4. wr32 \in Nat
    BY <2>3, SystemStatsAssumption
  <2>. QED BY <2>1, <2>2, <2>4
<1> HIDE DEF rd, rd32, wr32
<1>4. /\ sys \in [0 .. 1 -> Info] /\ rows \in [rd: Nat, wr: Nat, rdKB: Nat]
      /\ curr \in 0 .. 1 /\ sys[curr] \in Info
  BY Halves DEF SysInv, SysTypeOK
<1>5. /\ sys' \in [0 .. 1 -> Info]
      /\ sys'[1 - curr] = sys[1 - curr]
      /\ sys'[curr].rd = sys[curr].rd + rd32
      /\ sys'[curr].wr = sys[curr].wr + wr32
      /\ sys'[curr].run = sys[curr].run /\ sys'[curr].itv = sys[curr].itv
      /\ sys'[curr].net = sys[curr].net /\ sys'[curr].mem = sys[curr].mem
  <2>1. sys' = [sys EXCEPT ![curr] = [sys[curr] EXCEPT !.rd = sys[curr].rd + rd32,
                                                      !.wr = sys[curr].wr + wr32]]
    BY <1>1, <1>4
  <2>2. [sys[curr] EXCEPT !.rd = sys[curr].rd + rd32, !.wr = sys[curr].wr + wr32] \in Info
    <3>1. sys[curr].rd + rd32 \in Nat /\ sys[curr].wr + wr32 \in Nat
      BY <1>3, <1>4
    <3>. QED BY <1>4, <3>1
  <2>. QED BY <1>4, <2>1, <2>2, Halves
<1>6. InKB(rd) \in Nat /\ KB * InKB(rd) <= rd
  BY <1>3, FloorBelow
<1>7. rows' \in [rd: Nat, wr: Nat, rdKB: Nat]
  BY <1>1, <1>3, <1>4, <1>6
<1>8. SysTypeOK'
  <2>1. steady' \in BOOLEAN /\ whole' \in BOOLEAN
    BY <1>1 DEF SysInv, SysTypeOK
  <2>2. failed' \in [sys: Nat, ps: Nat] /\ failed'.sys + failed'.ps <= MaxFails
    BY <1>1, FailsFacts DEF SysInv, SysTypeOK
  <2>. QED BY <1>1, <1>2, <1>5, <1>7, <2>1, <2>2 DEF SysInv, SysTypeOK
<1>9. BookedInv'
  <2>1. Stored = 1 - curr /\ Stored' = 1 - curr
    BY <1>1, <1>2 DEF Stored
  <2>2. \A h \in 0 .. 1 : sys'[h].net = sys[h].net
    BY <1>5, Halves
  <2>3. failed'.sys = failed.sys
    BY <1>1, FailsFacts
  <2>. QED BY <1>1, <1>2, <1>5, <2>1, <2>2, <2>3 DEF SysInv, BookedInv
<1>10. TimesInv' /\ IoInv' /\ RunShareBounded'
  BY <1>1, <1>2, <1>5 DEF SysInv, TimesInv, IoInv, RunShareBounded
<1>11. WalkInv'
  <2>1. steady' => steady /\ rd32 = rd /\ wr32 = Written
    BY <1>1, <1>3
  <2>2. steady => /\ rows.rd <= sys[curr].rd /\ rows.wr <= sys[curr].wr
                  /\ whole => sys[curr].rd = rows.rd /\ sys[curr].wr = rows.wr
    BY <1>1 DEF SysInv, WalkInv
  <2>3. KB * rows.rdKB <= rows.rd
    BY DEF SysInv, WalkInv
  <2>4. CASE /\ rows' = [rd |-> rows.rd + rd, wr |-> rows.wr + Written,
                         rdKB |-> rows.rdKB + InKB(rd)]
             /\ whole' = whole
    <3>1. KB * rows'.rdKB <= rows'.rd
      BY <1>3, <1>4, <1>6, <2>3, <2>4, KBSum
    <3>2. /\ rows'.rd = rows.rd + rd /\ rows'.wr = rows.wr + Written
      BY <2>4
    <3>3. steady' => /\ rows'.rd <= sys'[curr].rd /\ rows'.wr <= sys'[curr].wr
                     /\ whole' => sys'[curr].rd = rows'.rd /\ sys'[curr].wr = rows'.wr
      BY <1>3, <1>4, <1>5, <2>1, <2>2, <2>4, <3>2
    <3>. QED BY <1>1, <1>2, <3>1, <3>3 DEF WalkInv
  <2>5. CASE rows' = rows /\ whole' = FALSE
    <3>1. steady' => rows'.rd <= sys'[curr].rd /\ rows'.wr <= sys'[curr].wr
      BY <1>3, <1>4, <1>5, <2>1, <2>2, <2>5
    <3>. QED BY <1>1, <1>2, <2>3, <2>5, <3>1 DEF WalkInv
  <2>. QED BY <1>1, <2>4, <2>5
<1>. QED BY <1>8, <1>9, <1>10, <1>11 DEF SysInv

\* The row is stored.
LEMMA StoreStep ==
  ASSUME SysInv, WriteSystem
  PROVE  SysInv'
<1>1. /\ pc = "store" /\ pc' = "pause" /\ row' = Differences
      /\ UNCHANGED <<curr, at, busy, ticks, net, io, sys, rows, work, linked, steady>>
      /\ UNCHANGED whole /\ stored' \in BOOLEAN
      /\ IF stored' THEN failed' = failed ELSE Fails("sys")
      /\ booked' = [run |-> IF ticks < Width
                              THEN booked.run + (IF stored' THEN row'.run ELSE 0) ELSE 0,
                    mem |-> booked.mem + (IF stored' THEN row'.mem ELSE 0),
                    net |-> IF linked
                              THEN booked.net + (IF stored' THEN row'.net ELSE 0) ELSE 0]
  BY DEF WriteSystem, machine
<1>2. /\ sys[curr] \in Info /\ sys[1 - curr] \in Info
      /\ booked \in [run: Nat, mem: Nat, net: Nat]
      /\ busy \in Nat /\ ticks \in Nat /\ net \in Nat /\ work \in 0 .. MaxWork
  BY Halves DEF SysInv, SysTypeOK
<1>3. /\ sys[1 - curr].mem <= sys[curr].mem
      /\ sys[1 - curr].net <= net /\ sys[curr].net <= net /\ net <= MaxVal
      /\ sys[1 - curr].run < Width /\ sys[1 - curr].itv < Width
  <2>1. sys[1 - curr].mem <= sys[curr].mem
    BY <1>1 DEF SysInv, BookedInv
  <2>2. sys[1 - curr].net <= net /\ sys[curr].net <= net
    BY Halves DEF SysInv, BookedInv
  <2>3. net <= work
    BY DEF SysInv, BookedInv
  <2>4. net <= MaxVal
    BY <1>2, <2>3, MaxValAssumption, SystemStatsAssumption
  <2>5. sys[1 - curr].run < Width /\ sys[1 - curr].itv < Width
    BY <1>1 DEF SysInv, TimesInv
  <2>. QED BY <2>1, <2>2, <2>4, <2>5
<1>4. /\ RowField("mem") = sys[curr].mem - sys[1 - curr].mem
      /\ RowField("mem") \in Nat /\ RowField("net") \in Nat
      /\ RowField("run") \in Nat /\ RowField("itv") \in Nat
      /\ sys[1 - curr].net <= sys[curr].net =>
           RowField("net") = sys[curr].net - sys[1 - curr].net
  <2>1. /\ sys[1 - curr].net <= MaxVal /\ sys[1 - curr].run <= MaxVal
        /\ sys[1 - curr].itv <= MaxVal
    BY <1>2, <1>3, MaxValAssumption, SystemStatsAssumption
  <2>2. RowField("net") \in Nat /\ RowField("run") \in Nat /\ RowField("itv") \in Nat
    BY <1>2, <2>1, SubCountFacts DEF RowField
  <2>3. /\ RowField("mem") = sys[curr].mem - sys[1 - curr].mem
        /\ sys[1 - curr].net <= sys[curr].net =>
             RowField("net") = sys[curr].net - sys[1 - curr].net
    BY <1>2, <1>3, SubCountFacts DEF RowField
  <2>. QED BY <1>2, <1>3, <2>2, <2>3
<1>5. /\ row'.net = RowField("net") /\ row'.mem = RowField("mem")
      /\ row'.run = RowField("run") % Width /\ row'.itv = RowField("itv") % Width
      /\ row'.rd = sys[curr].rd /\ row'.wr = sys[curr].wr
  BY <1>1, <1>2 DEF Differences
<1>6. row' \in Info
  <2>1. RowField("run") % Width \in Nat /\ RowField("itv") % Width \in Nat
    BY <1>4, ModRange
  <2>. QED BY <1>1, <1>2, <1>4, <2>1 DEF Differences
\* As long as the times fit an u32 the differences are those of the times.
<1>7. ASSUME ticks < Width
      PROVE  /\ row'.run = busy - sys[1 - curr].run
             /\ row'.run <= row'.itv
             /\ sys[curr].run = busy
  <2>1. /\ sys[curr].run = busy % Width /\ sys[curr].itv = ticks % Width
        /\ sys[1 - curr].run <= busy /\ sys[1 - curr].itv <= ticks
        /\ busy - sys[1 - curr].run <= ticks - sys[1 - curr].itv
        /\ busy <= ticks
    BY <1>1, <1>7 DEF SysInv, TimesInv
  <2>2. sys[curr].run = busy /\ sys[curr].itv = ticks
    BY <1>2, <1>7, <2>1, ModSmall, SystemStatsAssumption
  <2>3. /\ RowField("run") = busy - sys[1 - curr].run
        /\ RowField("itv") = ticks - sys[1 - curr].itv
    BY <1>2, <2>1, <2>2, SubCountFacts DEF RowField
  <2>4. RowField("run") < Width /\ RowField("itv") < Width
    BY <1>2, <1>7, <2>1, <2>3, SystemStatsAssumption
  <2>5. row'.run = RowField("run") /\ row'.itv = RowField("itv")
    BY <1>4, <1>5, <2>4, ModSmall
  <2>. QED BY <2>1, <2>2, <2>3, <2>5
<1>8. booked' \in [run: Nat, mem: Nat, net: Nat]
  <2>1. row'.run \in Nat /\ row'.mem \in Nat /\ row'.net \in Nat
    BY <1>6
  <2>. QED BY <1>1, <1>2, <2>1
<1>9. SysTypeOK'
  <2>1. failed' \in [sys: Nat, ps: Nat] /\ failed'.sys + failed'.ps <= MaxFails
    BY <1>1, FailsFacts DEF SysInv, SysTypeOK
  <2>. QED BY <1>1, <1>6, <1>8, <2>1 DEF SysInv, SysTypeOK
<1>10. BookedInv'
  <2>1. Stored = 1 - curr /\ Stored' = curr
    BY <1>1 DEF Stored
  <2>2. failed'.sys = 0 => stored' /\ failed.sys = 0
    BY <1>1, FailsFacts
  <2>3. /\ booked'.mem <= sys[curr].mem
        /\ failed'.sys = 0 => booked'.mem = sys[curr].mem
    <3>1. /\ booked.mem <= sys[1 - curr].mem
          /\ failed.sys = 0 => booked.mem = sys[1 - curr].mem
      BY <2>1 DEF SysInv, BookedInv
    <3>2. booked'.mem = booked.mem + (IF stored' THEN row'.mem ELSE 0)
      BY <1>1
    <3>3. row'.mem = sys[curr].mem - sys[1 - curr].mem
      BY <1>4, <1>5
    <3>. QED BY <1>2, <1>3, <2>2, <3>1, <3>2, <3>3
  <2>4. ticks < Width => /\ booked'.run <= sys[curr].run
                         /\ failed'.sys = 0 => booked'.run = sys[curr].run
    <3> SUFFICES ASSUME ticks < Width
                 PROVE  /\ booked'.run <= sys[curr].run
                        /\ failed'.sys = 0 => booked'.run = sys[curr].run
      OBVIOUS
    <3>1. /\ booked.run <= sys[1 - curr].run
          /\ failed.sys = 0 => booked.run = sys[1 - curr].run
      BY <2>1 DEF SysInv, BookedInv
    <3>2. booked'.run = booked.run + (IF stored' THEN row'.run ELSE 0)
      BY <1>1
    <3>3. row'.run = busy - sys[1 - curr].run /\ sys[curr].run = busy
      BY <1>7
    <3>4. sys[1 - curr].run <= busy
      BY <1>1 DEF SysInv, TimesInv
    <3>. QED BY <1>2, <2>2, <3>1, <3>2, <3>3, <3>4
  <2>5. linked => /\ booked'.net <= sys[curr].net
                  /\ failed'.sys = 0 => booked'.net = sys[curr].net
    <3> SUFFICES ASSUME linked
                 PROVE  /\ booked'.net <= sys[curr].net
                        /\ failed'.sys = 0 => booked'.net = sys[curr].net
      OBVIOUS
    <3>1. /\ booked.net <= sys[1 - curr].net /\ sys[curr].net = net
          /\ failed.sys = 0 => booked.net = sys[1 - curr].net
      BY <1>1, <2>1 DEF SysInv, BookedInv
    <3>2. booked'.net = booked.net + (IF stored' THEN row'.net ELSE 0)
      BY <1>1
    <3>3. row'.net = sys[curr].net - sys[1 - curr].net
      BY <1>3, <1>4, <1>5, <3>1
    <3>. QED BY <1>2, <1>3, <2>2, <3>1, <3>2, <3>3
  <2>. QED BY <1>1, <2>1, <2>3, <2>4, <2>5 DEF SysInv, BookedInv
<1>11. TimesInv' /\ IoInv' /\ WalkInv'
  BY <1>1, <1>5 DEF SysInv, TimesInv, IoInv, WalkInv
<1>12. RunShareBounded'
  BY <1>1, <1>7 DEF RunShareBounded
<1>. QED BY <1>9, <1>10, <1>11, <1>12 DEF SysInv

\* The halves change places.
LEMMA PauseStep ==
  ASSUME SysInv, Pause
  PROVE  SysInv'
<1>1. /\ pc = "pause" /\ pc' = "stat" /\ curr' = 1 - curr
      /\ UNCHANGED <<at, busy, ticks, net, io, sys, row, rows, work, booked, linked, steady>>
      /\ UNCHANGED outcome
  BY DEF Pause, OtherHalf, machine, samples, history
<1>2. curr' \in 0 .. 1 /\ 1 - curr' = curr
  BY <1>1, Halves
<1>3. SysTypeOK'
  BY <1>1, <1>2 DEF SysInv, SysTypeOK
<1>4. BookedInv'
  <2>1. Stored = curr /\ Stored' = curr
    BY <1>1, <1>2 DEF Stored
  <2>. QED BY <1>1, <2>1 DEF SysInv, BookedInv
<1>5. TimesInv' /\ IoInv' /\ WalkInv' /\ RunShareBounded'
  BY <1>1, <1>2 DEF SysInv, TimesInv, IoInv, WalkInv, RunShareBounded
<1>. QED BY <1>3, <1>4, <1>5 DEF SysInv

-----------------------------------------------------------------------------
\* The inductive invariant holds in every reachable state.
THEOREM SystemInvariant == SysSpec => []SysInv
<1>1. SysInv /\ [SysNext]_statVars => SysInv'
  <2> SUFFICES ASSUME SysInv, [SysNext]_statVars PROVE SysInv'
    OBVIOUS
  <2>1. CASE UNCHANGED statVars
    <3>1. UNCHANGED <<pc, curr, at, busy, ticks, net, io, sys, row, rows, work, booked,
                      linked, steady, failed, stored, whole>>
      BY <2>1 DEF statVars, samples, history
    <3>2. SysTypeOK'
      BY <3>1 DEF SysInv, SysTypeOK
    <3>3. BookedInv' /\ TimesInv'
      <4>1. Stored' = Stored
        BY <3>1 DEF Stored
      <4>. QED BY <3>1, <4>1 DEF SysInv, BookedInv, TimesInv
    <3>4. IoInv' /\ WalkInv' /\ RunShareBounded'
      BY <3>1 DEF SysInv, IoInv, WalkInv, RunShareBounded
    <3>. QED BY <3>2, <3>3, <3>4 DEF SysInv
  <2>. QED BY <2>1, StatStep, ScanStep, FreqStep, MemStep, NetStep, WalkStep, StoreStep,
              PauseStep DEF SysNext
<1>. QED BY <1>1, InitSysInv, PTL DEF SysSpec

\* All figures keep their types: none is negative, whatever u32 does to it.
THEOREM SystemTypes == SysSpec => []SysTypeOK
<1>1. SysInv => SysTypeOK
  BY DEF SysInv
<1>. QED BY <1>1, SystemInvariant, PTL

\* The rows of sys_info never exceed the counters of the machine, and add up to them
\* unless an insert_sys_info has failed.
THEOREM SystemConserved == SysSpec => []SystemBookedOnce
<1>1. SysInv => SystemBookedOnce
  <2> SUFFICES ASSUME SysInv, pc = "pause" PROVE SystemBookedOnce
    BY DEF SystemBookedOnce
  <2>1. Stored = curr /\ (linked => sys[curr].net = net)
    BY DEF SysInv, BookedInv, Stored
  <2>2. ticks < Width => sys[curr].run = busy
    <3>1. busy \in Nat /\ ticks \in Nat /\ busy <= ticks /\ sys[curr].run = busy % Width
      BY DEF SysInv, SysTypeOK, TimesInv
    <3>. QED BY <3>1, ModSmall, SystemStatsAssumption
  <2>. QED BY <2>1, <2>2 DEF SysInv, BookedInv, SystemBookedOnce
<1>. QED BY <1>1, SystemInvariant, PTL

\* In a steady cycle the rows of the processes do not exceed that of the system, and
\* agree with it if they are all stored.
THEOREM TablesAgree == SysSpec => []DiskTablesAgree
<1>1. SysInv => DiskTablesAgree
  BY DEF SysInv, WalkInv, DiskTablesAgree
<1>. QED BY <1>1, SystemInvariant, PTL

\* The energies of the processes do not exceed the total that is stored, for all
\* roundings and whatever rows are missing.
THEOREM ChargesWithinTotal == SysSpec => []DiskChargeWithinTotal
<1>1. SysInv => DiskChargeWithinTotal
  <2> SUFFICES ASSUME SysInv, pc = "pause", steady PROVE rows.rdKB <= InKB(row.rd)
    BY DEF DiskChargeWithinTotal
  <2>1. rows.rd <= row.rd /\ KB * rows.rdKB <= rows.rd
    BY DEF SysInv, WalkInv
  <2>2. row.rd \in Nat /\ rows.rdKB \in Nat /\ rows.rd \in Nat
    BY DEF SysInv, SysTypeOK
  <2>3. KB * rows.rdKB <= row.rd
    <3>1. KB * rows.rdKB \in Nat
      BY <2>2, SystemStatsAssumption
    <3>. QED BY <2>1, <2>2, <3>1
  <2>. QED BY <2>2, <2>3, FloorSum
<1>. QED BY <1>1, SystemInvariant, PTL

\* The share of the processor time by which the power is scaled is at most one.
THEOREM ShareAtMostOne == SysSpec => []RunShareBounded
<1>1. SysInv => RunShareBounded
  BY DEF SysInv
<1>. QED BY <1>1, SystemInvariant, PTL

-----------------------------------------------------------------------------
\* Sums over tables.

\* A set of numbers has a least element.
LEMMA LeastElement ==
  ASSUME NEW T \in SUBSET Nat, T # {}
  PROVE  \E n \in T : \A m \in T : n <= m
<1> DEFINE R == OpToRel(<, Nat)
<1>1. IsWellFoundedOn(R, Nat)
  BY NatLessThanWellFounded
<1>2. ASSUME NEW m \in Nat, NEW n \in Nat, m < n PROVE <<m, n>> \in R
  BY <1>2 DEF OpToRel
<1>. HIDE DEF R
<1>3. PICK n \in T : \A m \in T : ~ (<<m, n>> \in R)
  BY <1>1, WFMin
<1>4. ASSUME NEW m \in T PROVE n <= m
  <2>1. m \in Nat /\ n \in Nat /\ ~ (<<m, n>> \in R)
    BY <1>3
  <2>2. ~ (m < n)
    BY <1>2, <2>1
  <2>. QED BY <2>1, <2>2
<1>. QED BY <1>4

\* What contains the empty set, and every set that is one element larger than one
\* of its own, contains every subset of a finite set.
LEMMA SubsetInduction ==
  ASSUME NEW S, IsFiniteSet(S), NEW T, {} \in T,
         \A s \in SUBSET S : s # {} /\ (\A e \in s : s \ {e} \in T) => s \in T
  PROVE  S \in T
<1> SUFFICES ASSUME S \notin T PROVE FALSE
  OBVIOUS
<1> DEFINE Bad == {s \in SUBSET S : s \notin T}
<1>1. Bad \subseteq FiniteSubsetsOf(S) /\ Bad # {}
  BY FS_Subset DEF FiniteSubsetsOf
<1>2. PICK s \in Bad : \A u \in Bad : ~ (<<u, s>> \in StrictSubsetOrdering(S))
  <2>. HIDE DEF Bad
  <2>1. IsWellFoundedOn(StrictSubsetOrdering(S), FiniteSubsetsOf(S))
    BY FS_StrictSubsetOrderingWellFounded
  <2>. QED BY <1>1, <2>1, WFMin
<1>3. ASSUME NEW e \in s PROVE s \ {e} \in T
  <2>1. s \ {e} \in SUBSET S /\ s \in SUBSET S /\ s \ {e} # s /\ s \ {e} \subseteq s
    OBVIOUS
  <2>2. <<s \ {e}, s>> \in StrictSubsetOrdering(S)
    BY <2>1 DEF StrictSubsetOrdering
  <2>3. s \ {e} \notin Bad
    BY <1>2, <2>2
  <2>. QED BY <2>1, <2>3
<1>. QED BY <1>3

\* SumFunction is what its loop over the domain computes.
Chosen(s) == CHOOSE e \in s : TRUE
SumStep(f, g, s) == IF s = {} THEN 0 ELSE f[Chosen(s)] + g[s \ {Chosen(s)}]
SumTo(f) == CHOOSE g : g = [s \in SUBSET DOMAIN f |-> SumStep(f, g, s)]

\* SumFunction is that loop over the whole domain.
LEMMA SumUnfolds == ASSUME NEW f PROVE SumFunction(f) = SumTo(f)[DOMAIN f]
BY Zenon DEF SumFunction, SumFunctionOnSet, FoldFunction, FoldFunctionOnSet, MapThenFoldSet,
          SumTo, SumStep, Chosen

\* The loop ends: for a finite domain there is such a function.
LEMMA SumDefined ==
  ASSUME NEW f, IsFiniteSet(DOMAIN f)
  PROVE  SumTo(f) = [s \in SUBSET DOMAIN f |-> SumStep(f, SumTo(f), s)]
<1> DEFINE S == DOMAIN f
           Upto(n) == {s \in SUBSET S : Cardinality(s) <= n}
           Defined == {n \in Nat : \E g : g = [s \in Upto(n) |-> SumStep(f, g, s)]}
<1>0. \A s \in SUBSET S : IsFiniteSet(s) /\ Cardinality(s) \in Nat
  BY FS_Subset, FS_CardinalityType
<1>1. 0 \in Defined
  <2>1. [s \in Upto(0) |-> 0] = [s \in Upto(0) |-> SumStep(f, [u \in Upto(0) |-> 0], s)]
    BY <1>0, FS_EmptySet DEF SumStep
  <2>. QED BY <2>1
<1>2. ASSUME NEW n \in Defined PROVE n + 1 \in Defined
  <2>1. PICK g : g = [s \in Upto(n) |-> SumStep(f, g, s)]
    OBVIOUS
  <2> DEFINE h == [s \in Upto(n + 1) |-> SumStep(f, g, s)]
  <2>2. ASSUME NEW s \in Upto(n + 1), s # {}
        PROVE  s \ {Chosen(s)} \in Upto(n) /\ s \ {Chosen(s)} \in Upto(n + 1)
    <3>1. Chosen(s) \in s
      BY <2>2 DEF Chosen
    <3>2. Cardinality(s \ {Chosen(s)}) = Cardinality(s) - 1
      BY <1>0, <3>1, FS_RemoveElement
    <3>. QED BY <1>0, <3>2
  <2>3. \A s \in Upto(n) : s \in Upto(n + 1) /\ h[s] = g[s]
    <3>1. \A s \in Upto(n) : s \in Upto(n + 1)
      BY <1>0
    <3>2. \A s \in Upto(n) : g[s] = SumStep(f, g, s)
      BY <2>1
    <3>. QED BY <3>1, <3>2
  <2>4. ASSUME NEW s \in Upto(n + 1) PROVE SumStep(f, g, s) = SumStep(f, h, s)
    BY <2>2, <2>3 DEF SumStep
  <2>5. h = [s \in Upto(n + 1) |-> SumStep(f, h, s)]
    BY <2>4
  <2>6. \E k : k = [s \in Upto(n + 1) |-> SumStep(f, k, s)]
    <3>. HIDE DEF h, Upto
    <3>. QED BY <2>5, Zenon
  <2>7. n + 1 \in Nat
    OBVIOUS
  <2>. QED BY <2>6, <2>7, Zenon
<1>3. Cardinality(S) \in Defined
  <2> SUFFICES ASSUME Cardinality(S) \notin Defined PROVE FALSE
    OBVIOUS
  <2> DEFINE Undefined == Nat \ Defined
  <2>1. PICK n \in Undefined : \A m \in Undefined : n <= m
    BY <1>0, LeastElement
  <2>2. n # 0 /\ n - 1 \in Nat
    <3>. HIDE DEF Defined
    <3>. QED BY <1>1, <2>1
  <2>3. n - 1 \in Defined
    <3>. HIDE DEF Defined
    <3>. QED BY <2>1, <2>2
  <2>4. (n - 1) + 1 \in Defined
    BY <1>2, <2>3
  <2>. QED BY <2>1, <2>4
<1>4. Upto(Cardinality(S)) = SUBSET S
  BY <1>0, FS_Subset
<1>5. \E g : g = [s \in SUBSET S |-> SumStep(f, g, s)]
  BY <1>3, <1>4
<1>. QED BY <1>5 DEF SumTo

\* So it adds up one element after the other.
LEMMA SumFacts ==
  ASSUME NEW f, IsFiniteSet(DOMAIN f)
  PROVE  /\ SumTo(f)[{}] = 0
         /\ \A s \in SUBSET DOMAIN f : s # {} =>
              SumTo(f)[s] = f[Chosen(s)] + SumTo(f)[s \ {Chosen(s)}]
BY SumDefined DEF SumStep

\* Sums of figures in proportion are in proportion.
LEMMA SumBetween ==
  ASSUME NEW S, IsFiniteSet(S), NEW a \in Int, NEW b \in Int,
         NEW w \in [S -> Int], NEW new \in [S -> Nat], NEW old \in [S -> Nat],
         \A e \in S : /\ w[e] >= a * (new[e] - old[e])
                      /\ w[e] <= b * (new[e] - old[e])
  PROVE  /\ SumFunction(w) \in Int
         /\ SumFunction(w) >= a * (SumFunction(new) - SumFunction(old))
         /\ SumFunction(w) <= b * (SumFunction(new) - SumFunction(old))
<1> DEFINE T == {s \in SUBSET S :
                   /\ SumTo(w)[s] \in Int /\ SumTo(new)[s] \in Int /\ SumTo(old)[s] \in Int
                   /\ SumTo(w)[s] >= a * (SumTo(new)[s] - SumTo(old)[s])
                   /\ SumTo(w)[s] <= b * (SumTo(new)[s] - SumTo(old)[s])}
<1>1. {} \in T
  BY SumFacts
<1>2. ASSUME NEW s \in SUBSET S, s # {}, \A e \in s : s \ {e} \in T
      PROVE  s \in T
  <2> DEFINE c == Chosen(s)
             u == s \ {c}
  <2>1. c \in s /\ c \in S
    BY <1>2 DEF Chosen
  <2>2. u \in T
    BY <2>1, <1>2
  <2>3. /\ SumTo(w)[s] = w[c] + SumTo(w)[u]
        /\ SumTo(new)[s] = new[c] + SumTo(new)[u]
        /\ SumTo(old)[s] = old[c] + SumTo(old)[u]
    BY <1>2, SumFacts
  <2>4. ASSUME NEW k \in Int
        PROVE  k * (SumTo(new)[s] - SumTo(old)[s])
                 = k * (new[c] - old[c]) + k * (SumTo(new)[u] - SumTo(old)[u])
    <3>1. SumTo(new)[s] - SumTo(old)[s]
            = (new[c] - old[c]) + (SumTo(new)[u] - SumTo(old)[u])
      BY <2>1, <2>2, <2>3
    <3>2. \A x, y \in Int : k * (x + y) = k * x + k * y
      OBVIOUS
    <3>3. new[c] - old[c] \in Int /\ SumTo(new)[u] - SumTo(old)[u] \in Int
      BY <2>1, <2>2
    <3>. QED BY <3>1, <3>2, <3>3
  <2>5. \A k \in Int : k * (new[c] - old[c]) \in Int /\ k * (SumTo(new)[u] - SumTo(old)[u]) \in Int
    BY <2>1, <2>2
  <2>. HIDE DEF c, u
  <2>6. SumTo(w)[s] \in Int /\ SumTo(new)[s] \in Int /\ SumTo(old)[s] \in Int
    BY <2>1, <2>2, <2>3
  <2>7. /\ w[c] \in Int /\ SumTo(w)[u] \in Int
        /\ w[c] >= a * (new[c] - old[c]) /\ w[c] <= b * (new[c] - old[c])
        /\ SumTo(w)[u] >= a * (SumTo(new)[u] - SumTo(old)[u])
        /\ SumTo(w)[u] <= b * (SumTo(new)[u] - SumTo(old)[u])
    BY <2>1, <2>2
  <2>8. ASSUME NEW k \in Int
        PROVE  \E x, y, z \in Int : /\ x = k * (new[c] - old[c])
                                    /\ y = k * (SumTo(new)[u] - SumTo(old)[u])
                                    /\ z = k * (SumTo(new)[s] - SumTo(old)[s])
                                    /\ z = x + y
    <3>1. k * (new[c] - old[c]) + k * (SumTo(new)[u] - SumTo(old)[u]) \in Int
      BY <2>5
    <3>. QED BY <2>4, <2>5, <3>1, Zenon
  <2>9. SumTo(w)[s] >= a * (SumTo(new)[s] - SumTo(old)[s])
    <3>1. PICK x \in Int, y \in Int, z \in Int :
                 /\ x = a * (new[c] - old[c])
                 /\ y = a * (SumTo(new)[u] - SumTo(old)[u])
                 /\ z = a * (SumTo(new)[s] - SumTo(old)[s])
                 /\ z = x + y
      BY <2>8, Zenon
    <3>2. w[c] >= x /\ SumTo(w)[u] >= y
      BY <2>7, <3>1
    <3>3. SumTo(w)[s] >= z
      BY <2>3, <2>7, <3>1, <3>2
    <3>. QED BY <3>1, <3>3, Zenon
  <2>10. SumTo(w)[s] <= b * (SumTo(new)[s] - SumTo(old)[s])
    <3>1. PICK x \in Int, y \in Int, z \in Int :
                 /\ x = b * (new[c] - old[c])
                 /\ y = b * (SumTo(new)[u] - SumTo(old)[u])
                 /\ z = b * (SumTo(new)[s] - SumTo(old)[s])
                 /\ z = x + y
      BY <2>8, Zenon
    <3>2. w[c] <= x /\ SumTo(w)[u] <= y
      BY <2>7, <3>1
    <3>3. SumTo(w)[s] <= z
      BY <2>3, <2>7, <3>1, <3>2
    <3>. QED BY <3>1, <3>3, Zenon
  <2>. QED BY <2>6, <2>9, <2>10
<1>3. S \in T
  <2>. HIDE DEF T
  <2>. QED BY <1>1, <1>2, SubsetInduction
<1>. QED BY <1>3, SumUnfolds

-----------------------------------------------------------------------------
\* The power.

\* The weights fall from the highest power to the lowest.
LEMMA WeightBetween ==
  ASSUME NEW f \in Freqs, NEW d \in Nat
  PROVE  /\ Weight(f) * d \in Int
         /\ Weight(f) * d >= (MinPower * Slowest) * d
         /\ Weight(f) * d <= (MaxPower * Slowest) * d
<1> DEFINE R == MaxPower - MinPower
<1>1. /\ Slowest \in Nat /\ MaxPower \in Nat /\ MinPower \in Nat /\ R \in Nat
      /\ f \in Nat /\ f <= Slowest
  BY CpuPowerAssumption DEF Freqs
<1>2. R * f \in Nat /\ R * f <= R * Slowest
  <2>. HIDE DEF R
  <2>1. R * f \in Nat /\ R * (Slowest - f) \in Nat /\ R * Slowest = R * f + R * (Slowest - f)
    BY <1>1
  <2>. QED BY <1>1, <2>1
<1>3. R * Slowest = MaxPower * Slowest - MinPower * Slowest
  BY <1>1
<1>4. /\ MaxPower * Slowest \in Nat /\ MinPower * Slowest \in Nat
  BY <1>1
<1>5. /\ Weight(f) \in Nat
      /\ Weight(f) >= MinPower * Slowest /\ Weight(f) <= MaxPower * Slowest
  BY <1>2, <1>3, <1>4 DEF Weight
<1>6. \A a, b \in Nat : a <= b => a * d \in Nat /\ a * d <= b * d
  <2> SUFFICES ASSUME NEW a \in Nat, NEW b \in Nat, a <= b
               PROVE  a * d \in Nat /\ a * d <= b * d
    OBVIOUS
  <2>1. a * d \in Nat /\ (b - a) * d \in Nat /\ b * d = a * d + (b - a) * d
    OBVIOUS
  <2>. QED BY <2>1
<1>. QED BY <1>4, <1>5, <1>6

\* What is weighted is what the table has grown by.
LEMMA PowerBetween ==
  ASSUME NEW new \in [Freqs -> Nat], NEW old \in [Freqs -> Nat],
         \A f \in Freqs : new[f] - old[f] \in 0 .. Width64 - 1
  PROVE  /\ PowerOf(Grown(new, old))
              >= MinPower * Slowest * (SumFunction(new) - SumFunction(old))
         /\ PowerOf(Grown(new, old))
              <= MaxPower * Slowest * (SumFunction(new) - SumFunction(old))
<1> DEFINE w == [f \in Freqs |-> Weight(f) * Grown(new, old)[f]]
<1>1. IsFiniteSet(Freqs)
  BY CpuPowerAssumption, FS_Interval DEF Freqs
<1>2. ASSUME NEW f \in Freqs
      PROVE  /\ w[f] \in Int
             /\ w[f] >= (MinPower * Slowest) * (new[f] - old[f])
             /\ w[f] <= (MaxPower * Slowest) * (new[f] - old[f])
  <2>1. new[f] - old[f] \in Nat /\ (new[f] - old[f]) % Width64 = new[f] - old[f]
    BY CpuPowerAssumption
  <2>2. w[f] = Weight(f) * (new[f] - old[f])
    BY <2>1 DEF Grown
  <2>. QED BY <2>1, <2>2, WeightBetween
<1>3. MinPower * Slowest \in Int /\ MaxPower * Slowest \in Int
  BY CpuPowerAssumption
<1>4. w \in [Freqs -> Int]
  BY <1>2
<1>. HIDE DEF w
<1>5. /\ SumFunction(w) >= (MinPower * Slowest) * (SumFunction(new) - SumFunction(old))
      /\ SumFunction(w) <= (MaxPower * Slowest) * (SumFunction(new) - SumFunction(old))
  BY <1>1, <1>2, <1>3, <1>4, SumBetween
<1>. QED BY <1>5 DEF PowerOf, w

\* A cycle leaves the two halves, and the cpu that they are of, as the invariant says.
LEMMA ReadStep ==
  ASSUME PowerInv, SysTypeOK, ReadFreq
  PROVE  PowerInv'
<1>1. PICK t \in [Freqs -> Advance] : ReadCpufreq(t)
  BY DEF ReadFreq
<1>2. \A f \in Freqs : t[f] \in Nat /\ t[f] \in 0 .. Width64 - 1
  <2>1. work \in Nat /\ work <= MaxWork /\ MaxWork \in Nat
    BY SystemStatsAssumption DEF SysTypeOK
  <2>2. MaxWork < Width64 /\ Width64 \in Nat
    BY SystemStatsAssumption, CpuPowerAssumption
  <2>3. ASSUME NEW f \in Freqs PROVE t[f] \in 0 .. MaxWork - work
    BY DEF Advance
  <2>. QED BY <2>1, <2>2, <2>3
<1>3. CASE ~ cpufreq
  <2>1. UNCHANGED <<table, freqs, oldfreqs, cpuRead>>
    BY <1>1, <1>3 DEF ReadCpufreq
  <2>2. ~ SameCpu /\ ~ SameCpu'
    BY <1>3, <2>1 DEF PowerInv, SameCpu
  <2>. QED BY <2>1, <2>2 DEF PowerInv
<1>4. ASSUME cpufreq, NEW c \in Cpus, ReadTable(c, t), oldfreqs' = freqs
      PROVE  PowerInv'
  <2> DEFINE counts == [f \in Freqs |-> table[c][f] + t[f]]
  <2>1. table' = [table EXCEPT ![c] = counts] /\ freqs' = table'[c]
    BY <1>4 DEF ReadTable
  <2>2. counts \in [Freqs -> Nat] /\ \A f \in Freqs : counts[f] - table[c][f] = t[f]
    BY <1>2, <1>4 DEF PowerInv
  <2>3. freqs' = counts
    BY <2>1, <1>4 DEF PowerInv
  <2>4. cpuRead'[1] = c /\ cpuRead'[2] = cpuRead[1]
    BY <1>4 DEF ReadTable
  <2>5. power' = PowerOf(Grown(freqs', oldfreqs'))
    BY <1>4 DEF ReadTable
  <2>6. cpufreq'
    BY <1>1, <1>4 DEF ReadCpufreq
  <2>7. SameCpu' => freqs = table[c]
    BY <1>4, <2>4 DEF PowerInv, SameCpu
  <2>8. SameCpu' => \A f \in Freqs : freqs'[f] - oldfreqs'[f] \in 0 .. Width64 - 1
    BY <1>2, <1>4, <2>2, <2>3, <2>7
  <2>9. table' \in [Cpus -> [Freqs -> Nat]]
    BY <2>1, <2>2 DEF PowerInv
  <2>10. freqs' \in [Freqs -> Nat] /\ oldfreqs' \in [Freqs -> Nat]
    BY <1>4, <2>2, <2>3 DEF PowerInv
  <2>11. freqs' = table'[cpuRead'[1]]
    BY <2>1, <2>4
  <2>12. SameCpu' => power' = PowerOf(Grown(freqs', oldfreqs'))
    BY <2>5
  <2>13. PowerOf(Grown(freqs, oldfreqs))' = PowerOf(Grown(freqs', oldfreqs'))
    BY DEF PowerOf, Grown
  <2>. QED BY <2>5, <2>6, <2>8, <2>9, <2>10, <2>11, <2>13 DEF PowerInv
<1>5. ASSUME cpufreq, ReadNoTable, oldfreqs' = freqs
      PROVE  PowerInv'
  <2>1. cpuRead'[1] \notin Cpus
    BY <1>5, CpuPowerAssumption DEF ReadNoTable
  <2>2. ~ SameCpu'
    BY <2>1 DEF SameCpu
  <2>3. freqs' \in [Freqs -> Nat] /\ table' = table
    BY <1>5 DEF ReadNoTable, NoCounts
  <2>. QED BY <1>5, <2>1, <2>2, <2>3 DEF PowerInv
<1>6. cpufreq => oldfreqs' = freqs /\ ((\E c \in Cpus : ReadTable(c, t)) \/ ReadNoTable)
  BY <1>1 DEF ReadCpufreq
<1>. QED BY <1>3, <1>4, <1>5, <1>6

\* At the start no table has been read.
LEMMA InitPowerInv == SysInit => PowerInv
<1> SUFFICES ASSUME SysInit PROVE PowerInv
  OBVIOUS
<1>1. ~ SameCpu
  BY CpuPowerAssumption DEF SysInit, PowerInit, SameCpu
<1>. QED BY <1>1, CpuPowerAssumption DEF SysInit, PowerInit, PowerInv, NoCounts

\* Nothing but read_cpufreq_stats touches the tables.
THEOREM PowerInvariant == SysSpec => []PowerInv
<1>1. PowerInv /\ SysTypeOK /\ [SysNext]_statVars => PowerInv'
  <2> SUFFICES ASSUME PowerInv, SysTypeOK, [SysNext]_statVars PROVE PowerInv'
    OBVIOUS
  <2>1. CASE UNCHANGED powerVars
    BY <2>1 DEF powerVars, PowerInv, SameCpu, PowerOf, Grown
  <2>2. UNCHANGED powerVars \/ ReadFreq
    BY DEF SysNext, statVars, ReadStat, ScanProcess, ReadMem, ReadNet, WalkProcess,
       WriteSystem, Pause
  <2>. QED BY <2>1, <2>2, ReadStep
<1>. QED BY <1>1, InitPowerInv, SystemTypes, PTL DEF SysSpec

\* The power lies between mincpupower and maxcpupower for the time that has passed
\* between two reads of the table of the same cpu (read_cpufreq_stats).
THEOREM PowerStaysWithinLimits == SysSpec => []PowerWithinLimits
<1>1. PowerInv => PowerWithinLimits
  BY PowerBetween DEF PowerInv, PowerWithinLimits, Elapsed
<1>. QED BY <1>1, PowerInvariant, PTL

=============================================================================
