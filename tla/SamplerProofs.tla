--------------------------- MODULE SamplerProofs ---------------------------
(***************************************************************************)
(* The invariants of Sampler, proved for every number of pids and of        *)
(* descriptors and for every bound on counters and incarnations: IInv of    *)
(* SamplerInv holds initially and every step keeps it.  One lemma per       *)
(* action, with one step per part of IInv.                                  *)
(***************************************************************************)
EXTENDS SamplerInv, TLAPS

\* SubCount of two process counters is a natural number, and the difference when
\* the counter did not go back.
LEMMA SubCountBound ==
  ASSUME NEW new \in Count, NEW old \in Count
  PROVE  /\ SubCount(new, old) \in Nat
         /\ old <= new => SubCount(new, old) = new - old
  BY KernelAssumption, MaxValAssumption, SamplerAssumption DEF SubCount, Count

\* A store into one sample buffer of one node leaves all other samples alone.
LEMMA SampleUpdate ==
  ASSUME NEW P \in [Pids -> [{0, 1} -> PidStats]], NEW p \in Pids,
         NEW b \in {0, 1}, NEW s \in PidStats, NEW Q, Q = [P EXCEPT ![p][b] = s]
  PROVE  /\ Q \in [Pids -> [{0, 1} -> PidStats]]
         /\ Q[p][b] = s
         /\ Q[p][1 - b] = P[p][1 - b]
         /\ \A q \in Pids \ {p} : Q[q] = P[q]
  OBVIOUS

\* The numbers IInv gives for one node.
LEMMA SampleNumbers ==
  ASSUME IInv, NEW q \in Pids
  PROVE  /\ prev \in {0, 1} /\ curr \in {0, 1}
         /\ cpu[q] \in Nat /\ io[q] \in Nat
         /\ \A b \in {0, 1} : pst[q][b].cpu \in Nat /\ pst[q][b].io \in Nat
  BY DEF IInv, TypeOK, KernelTypeOK, PidStats, Count, prev

\* A step that leaves the samples of a node alone and only lets the counters of
\* its process grow keeps them monotone.
LEMMA MonotoneKept ==
  ASSUME IInv, NEW q \in Pids, steady'[q] => steady[q],
         pst'[q] = pst[q], curr' = curr,
         cpu'[q] \in Nat, io'[q] \in Nat, cpu[q] <= cpu'[q], io[q] <= io'[q],
         CpuRead(q)' => CpuRead(q), IoRead(q)' => IoRead(q)
  PROVE  Monotone(q)'
<1>1. prev' = prev
  BY DEF prev
<1>2. Monotone(q)
  BY DEF IInv, MonotoneInv
<1>. QED BY <1>1, <1>2, SampleNumbers DEF Monotone

\* A step that leaves the booked usage and the reported sample alone.
LEMMA BookedKept ==
  ASSUME IInv, NEW q \in Pids, steady'[q] = steady[q],
         booked'[q] = booked[q], pst'[q][LastReported'] = pst[q][LastReported]
  PROVE  Booked(q)'
  BY DEF IInv, BookedInv, Booked

-----------------------------------------------------------------------------
\* The initial state has no nodes, no counters and no history.
LEMMA InitIInv == Init => IInv
<1> SUFFICES ASSUME Init PROVE IInv
  OBVIOUS
<1> USE KernelAssumption DEF Init, KernelInit
<1>1. TypeOK
  BY DEF TypeOK, KernelTypeOK, Pids, Fds, Count, Counter, Free, NoFd, PidStats,
         NoStats, Row
<1>2. CountersInv
  BY DEF CountersInv, Free
<1>3. CounterLedger
  BY DEF CounterLedger, NoFd, Fds
<1>4. CounterOnlyWhileReported
  BY DEF CounterOnlyWhileReported
<1>5. ScanInv
  BY DEF ScanInv, NoFd, NoStats, Reading
<1>6. SteadyInv
  BY DEF SteadyInv
<1>7. MonotoneInv
  BY DEF MonotoneInv, Monotone
<1>8. BookedInv
  BY DEF BookedInv, Booked
<1>. QED BY <1>1, <1>2, <1>3, <1>4, <1>5, <1>6, <1>7, <1>8 DEF IInv

-----------------------------------------------------------------------------
\* read_pid_stats clears the sample of a known pid.
LEMMA ScanKnownStep ==
  ASSUME IInv, NEW p \in Pids, ScanKnown(p)
  PROVE  IInv'
<1> USE KernelAssumption DEF kernelVars
<1> DEFINE s == NoStats
<1>a. p \in Pids
  OBVIOUS
<1>b. s \in PidStats
  BY DEF PidStats, NoStats, Count
<1>c. pst' = [pst EXCEPT ![p][curr] = s] /\ curr' = curr /\ prev' = prev
  BY DEF ScanKnown, prev
<1> HIDE DEF s
<1>d. /\ pst' \in [Pids -> [{0, 1} -> PidStats]]
      /\ pst'[p][curr] = s
      /\ pst'[p][prev] = pst[p][prev]
      /\ \A q \in Pids \ {p} : pst'[q] = pst[q]
  <2>1. pst \in [Pids -> [{0, 1} -> PidStats]] /\ curr \in {0, 1}
    BY DEF IInv, TypeOK
  <2>. QED BY ONLY <1>a, <1>b, <1>c, <2>1, SampleUpdate DEF prev
<1>1. TypeOK'
  <2>1. pid' \in 0 .. MaxPid /\ fresh' \in SUBSET Pids
    BY DEF IInv, TypeOK, ScanKnown, Pids
  <2>. QED BY <1>d, <2>1 DEF IInv, ScanKnown, TypeOK, KernelTypeOK, Reading
<1>2. CountersInv'
  BY <1>a DEF IInv, ScanKnown, NextEntry, TypeOK, KernelTypeOK, CountersInv, Fds
<1>3. CounterLedger'
  BY <1>a DEF IInv, ScanKnown, NextEntry, TypeOK, KernelTypeOK, CounterLedger,
         Fds, NoFd
<1>4. CounterOnlyWhileReported'
  BY <1>a DEF IInv, ScanKnown, NextEntry, TypeOK, KernelTypeOK,
         CounterOnlyWhileReported, NoFd
<1>5. ScanInv'
  <2>1. \A q \in Pids, b \in {0, 1} : pst'[q][b].pid \in {0, q}
    BY <1>d DEF IInv, ScanInv, NoStats, s, prev, TypeOK
  <2>2. \A q \in fresh' : q \in nodes' /\ q <= pid'
    BY <1>a, <1>d DEF IInv, ScanKnown, NextEntry, ScanInv, Pids, TypeOK
  <2>. QED BY <2>1, <2>2 DEF IInv, ScanKnown, ScanInv, Reading
<1>6. SteadyInv'
  BY <1>a DEF IInv, ScanKnown, NextEntry, TypeOK, KernelTypeOK, SteadyInv, Pids,
         ScanInv, Scanning, Reading
<1>7. MonotoneInv'
  <2> SUFFICES ASSUME NEW q \in Pids PROVE Monotone(q)'
    BY DEF MonotoneInv
  <2>0. cpu'[q] = cpu[q] /\ io'[q] = io[q] /\ (steady'[q] => steady[q])
    BY DEF IInv, TypeOK, ScanKnown, NextEntry
  <2>1. CASE q # p
    <3>1. pst'[q] = pst[q]
      BY <1>d, <2>1
    <3>2. (CpuRead(q)' => CpuRead(q)) /\ (IoRead(q)' => IoRead(q))
      BY <2>1 DEF CpuRead, IoRead, Scanning, ScanKnown, NextEntry
    <3>. QED BY <1>c, <2>0, <3>1, <3>2, SampleNumbers, MonotoneKept
  <2>2. CASE q = p
    <3>1. ~ CpuRead(q)' /\ ~ IoRead(q)'
      BY <2>2 DEF CpuRead, IoRead, ScanKnown, NextEntry
    <3>2. Monotone(q)
      BY DEF IInv, MonotoneInv
    <3>. QED BY <1>c, <1>d, <2>0, <2>2, <3>1, <3>2 DEF Monotone
  <2>. QED BY <2>1, <2>2
<1>8. BookedInv'
  <2> SUFFICES ASSUME NEW q \in Pids PROVE Booked(q)'
    BY DEF BookedInv
  <2>1. pst'[q][LastReported'] = pst[q][LastReported]
    BY <1>c, <1>d DEF LastReported, ScanKnown, NextEntry
  <2>2. steady'[q] = steady[q] /\ booked'[q] = booked[q]
    BY DEF IInv, TypeOK, ScanKnown, NextEntry
  <2>. QED BY <2>1, <2>2, BookedKept DEF ScanKnown, NextEntry
<1>. QED BY <1>1, <1>2, <1>3, <1>4, <1>5, <1>6, <1>7, <1>8 DEF IInv

\* The stat file has been read.
LEMMA ReadStatStep ==
  ASSUME IInv, ReadStat
  PROVE  IInv'
<1> USE KernelAssumption DEF kernelVars
<1> DEFINE s == [pst[pid][curr] EXCEPT !.pid = pid, !.cpu = cpu[pid]]
<1>a. pid \in Pids
  BY DEF IInv, TypeOK, ScanInv, Reading, ReadStat
<1>b. s \in PidStats
  <2>1. pst[pid][curr] \in PidStats
    BY <1>a DEF IInv, TypeOK
  <2>2. pid \in 0 .. MaxPid /\ 0 \in 0 .. MaxPid /\ cpu[pid] \in Count /\ io[pid] \in Count
    BY <1>a DEF IInv, TypeOK, KernelTypeOK, Pids
  <2>. QED BY <2>1, <2>2 DEF PidStats
<1>c. pst' = [pst EXCEPT ![pid][curr] = s] /\ curr' = curr /\ prev' = prev
  BY DEF ReadStat, prev
<1> HIDE DEF s
<1>d. /\ pst' \in [Pids -> [{0, 1} -> PidStats]]
      /\ pst'[pid][curr] = s
      /\ pst'[pid][prev] = pst[pid][prev]
      /\ \A q \in Pids \ {pid} : pst'[q] = pst[q]
  <2>1. pst \in [Pids -> [{0, 1} -> PidStats]] /\ curr \in {0, 1}
    BY DEF IInv, TypeOK
  <2>. QED BY ONLY <1>a, <1>b, <1>c, <2>1, SampleUpdate DEF prev
<1>1. TypeOK'
  BY <1>a, <1>d 
     DEF IInv, ReadStat, TypeOK, KernelTypeOK, Reading,
         Pids
<1>2. CountersInv'
  BY <1>a DEF IInv, ReadStat, TypeOK, KernelTypeOK, CountersInv, Fds
<1>3. CounterLedger'
  BY <1>a DEF IInv, ReadStat, TypeOK, KernelTypeOK, CounterLedger, Fds, NoFd
<1>4. CounterOnlyWhileReported'
  BY <1>a DEF IInv, ReadStat, TypeOK, KernelTypeOK, CounterOnlyWhileReported,
         NoFd
<1>5. ScanInv'
  BY <1>a, <1>b, <1>c, <1>d 
     DEF IInv, ReadStat, TypeOK, KernelTypeOK, ScanInv, Pids, Reading, s,
         NoStats, PidStats
<1>6. SteadyInv'
  BY <1>a DEF IInv, ReadStat, TypeOK, KernelTypeOK, SteadyInv, Pids, ScanInv,
         Scanning, Reading
<1>7. MonotoneInv'
  <2> SUFFICES ASSUME NEW q \in Pids PROVE Monotone(q)'
    BY DEF MonotoneInv
  <2>0. cpu'[q] = cpu[q] /\ io'[q] = io[q] /\ (steady'[q] => steady[q])
    BY DEF IInv, TypeOK, ReadStat
  <2>1. CASE q # pid
    <3>1. pst'[q] = pst[q]
      BY <1>d, <2>1
    <3>2. (CpuRead(q)' => CpuRead(q)) /\ (IoRead(q)' => IoRead(q))
      BY <2>1 DEF CpuRead, IoRead, ReadStat
    <3>. QED BY <1>c, <2>0, <3>1, <3>2, SampleNumbers, MonotoneKept
  <2>2. CASE q = pid
    <3>1. ~ IoRead(q)'
      BY <2>2 DEF IoRead, ReadStat
    <3>2. s.pid = q /\ s.cpu = cpu[q]
      BY <2>2 DEF s, IInv, TypeOK, PidStats
    <3>3. Monotone(q)
      BY DEF IInv, MonotoneInv
    <3>. QED BY <1>c, <1>d, <2>0, <2>2, <3>1, <3>2, <3>3, SampleNumbers DEF Monotone
  <2>. QED BY <2>1, <2>2
<1>8. BookedInv'
  <2> SUFFICES ASSUME NEW q \in Pids PROVE Booked(q)'
    BY DEF BookedInv
  <2>1. pst'[q][LastReported'] = pst[q][LastReported]
    BY <1>c, <1>d DEF LastReported, ReadStat
  <2>2. steady'[q] = steady[q] /\ booked'[q] = booked[q]
    BY DEF IInv, TypeOK, ReadStat
  <2>. QED BY <2>1, <2>2, BookedKept DEF ReadStat
<1>. QED BY <1>1, <1>2, <1>3, <1>4, <1>5, <1>6, <1>7, <1>8 DEF IInv

\* The status file has been read.
LEMMA ReadStatusStep ==
  ASSUME IInv, ReadStatus
  PROVE  IInv'
<1> USE KernelAssumption DEF kernelVars
<1> DEFINE s == [pst[pid][curr] EXCEPT !.pid = pid]
<1>a. pid \in Pids
  BY DEF IInv, TypeOK, ScanInv, Reading, ReadStatus
<1>b. s \in PidStats
  <2>1. pst[pid][curr] \in PidStats
    BY <1>a DEF IInv, TypeOK
  <2>2. pid \in 0 .. MaxPid /\ 0 \in 0 .. MaxPid /\ cpu[pid] \in Count /\ io[pid] \in Count
    BY <1>a DEF IInv, TypeOK, KernelTypeOK, Pids
  <2>. QED BY <2>1, <2>2 DEF PidStats
<1>c. pst' = [pst EXCEPT ![pid][curr] = s] /\ curr' = curr /\ prev' = prev
  BY DEF ReadStatus, prev
<1> HIDE DEF s
<1>d. /\ pst' \in [Pids -> [{0, 1} -> PidStats]]
      /\ pst'[pid][curr] = s
      /\ pst'[pid][prev] = pst[pid][prev]
      /\ \A q \in Pids \ {pid} : pst'[q] = pst[q]
  <2>1. pst \in [Pids -> [{0, 1} -> PidStats]] /\ curr \in {0, 1}
    BY DEF IInv, TypeOK
  <2>. QED BY ONLY <1>a, <1>b, <1>c, <2>1, SampleUpdate DEF prev
<1>1. TypeOK'
  BY <1>a, <1>d 
     DEF IInv, ReadStatus, TypeOK, KernelTypeOK, Reading,
         Pids
<1>2. CountersInv'
  BY <1>a DEF IInv, ReadStatus, TypeOK, KernelTypeOK, CountersInv, Fds
<1>3. CounterLedger'
  BY <1>a DEF IInv, ReadStatus, TypeOK, KernelTypeOK, CounterLedger, Fds, NoFd
<1>4. CounterOnlyWhileReported'
  BY <1>a DEF IInv, ReadStatus, TypeOK, KernelTypeOK, CounterOnlyWhileReported,
         NoFd
<1>5. ScanInv'
  BY <1>a, <1>b, <1>c, <1>d 
     DEF IInv, ReadStatus, TypeOK, KernelTypeOK, ScanInv, Pids, Reading, s,
         NoStats, PidStats
<1>6. SteadyInv'
  BY <1>a DEF IInv, ReadStatus, TypeOK, KernelTypeOK, SteadyInv, Pids, ScanInv,
         Scanning, Reading
<1>7. MonotoneInv'
  <2> SUFFICES ASSUME NEW q \in Pids PROVE Monotone(q)'
    BY DEF MonotoneInv
  <2>0. cpu'[q] = cpu[q] /\ io'[q] = io[q] /\ (steady'[q] => steady[q])
    BY DEF IInv, TypeOK, ReadStatus
  <2>1. CASE q # pid
    <3>1. pst'[q] = pst[q]
      BY <1>d, <2>1
    <3>2. (CpuRead(q)' => CpuRead(q)) /\ (IoRead(q)' => IoRead(q))
      BY <2>1 DEF CpuRead, IoRead, ReadStatus
    <3>. QED BY <1>c, <2>0, <3>1, <3>2, SampleNumbers, MonotoneKept
  <2>2. CASE q = pid
    <3>1. ~ IoRead(q)' /\ CpuRead(q)
      BY <2>2 DEF IInv, ScanInv, Reading, IoRead, CpuRead, ReadStatus
    <3>2. s.pid = q /\ s.cpu = pst[q][curr].cpu
      BY <2>2 DEF s, IInv, TypeOK, PidStats
    <3>3. Monotone(q)
      BY DEF IInv, MonotoneInv
    <3>. QED BY <1>c, <1>d, <2>0, <2>2, <3>1, <3>2, <3>3, SampleNumbers DEF Monotone
  <2>. QED BY <2>1, <2>2
<1>8. BookedInv'
  <2> SUFFICES ASSUME NEW q \in Pids PROVE Booked(q)'
    BY DEF BookedInv
  <2>1. pst'[q][LastReported'] = pst[q][LastReported]
    BY <1>c, <1>d DEF LastReported, ReadStatus
  <2>2. steady'[q] = steady[q] /\ booked'[q] = booked[q]
    BY DEF IInv, TypeOK, ReadStatus
  <2>. QED BY <2>1, <2>2, BookedKept DEF ReadStatus
<1>. QED BY <1>1, <1>2, <1>3, <1>4, <1>5, <1>6, <1>7, <1>8 DEF IInv

\* The io file has been read.
LEMMA ReadIoStep ==
  ASSUME IInv, ReadIo
  PROVE  IInv'
<1> USE KernelAssumption DEF kernelVars
<1> DEFINE s == [pst[pid][curr] EXCEPT !.pid = pid, !.io = io[pid]]
<1>a. pid \in Pids
  BY DEF IInv, TypeOK, ScanInv, Reading, ReadIo
<1>b. s \in PidStats
  <2>1. pst[pid][curr] \in PidStats
    BY <1>a DEF IInv, TypeOK
  <2>2. pid \in 0 .. MaxPid /\ 0 \in 0 .. MaxPid /\ cpu[pid] \in Count /\ io[pid] \in Count
    BY <1>a DEF IInv, TypeOK, KernelTypeOK, Pids
  <2>. QED BY <2>1, <2>2 DEF PidStats
<1>c. pst' = [pst EXCEPT ![pid][curr] = s] /\ curr' = curr /\ prev' = prev
  BY DEF ReadIo, prev
<1> HIDE DEF s
<1>d. /\ pst' \in [Pids -> [{0, 1} -> PidStats]]
      /\ pst'[pid][curr] = s
      /\ pst'[pid][prev] = pst[pid][prev]
      /\ \A q \in Pids \ {pid} : pst'[q] = pst[q]
  <2>1. pst \in [Pids -> [{0, 1} -> PidStats]] /\ curr \in {0, 1}
    BY DEF IInv, TypeOK
  <2>. QED BY ONLY <1>a, <1>b, <1>c, <2>1, SampleUpdate DEF prev
<1>1. TypeOK'
  BY <1>a, <1>d 
     DEF IInv, ReadIo, TypeOK, KernelTypeOK, Reading, Pids
<1>2. CountersInv'
  BY <1>a DEF IInv, ReadIo, TypeOK, KernelTypeOK, CountersInv, Fds
<1>3. CounterLedger'
  BY <1>a DEF IInv, ReadIo, TypeOK, KernelTypeOK, CounterLedger, Fds, NoFd
<1>4. CounterOnlyWhileReported'
  BY <1>a DEF IInv, ReadIo, TypeOK, KernelTypeOK, CounterOnlyWhileReported, NoFd
<1>5. ScanInv'
  BY <1>a, <1>b, <1>c, <1>d 
     DEF IInv, ReadIo, TypeOK, KernelTypeOK, ScanInv, Pids, Reading, s,
         NoStats, PidStats
<1>6. SteadyInv'
  BY <1>a DEF IInv, ReadIo, TypeOK, KernelTypeOK, SteadyInv, Pids, ScanInv,
         Scanning, Reading
<1>7. MonotoneInv'
  <2> SUFFICES ASSUME NEW q \in Pids PROVE Monotone(q)'
    BY DEF MonotoneInv
  <2>0. cpu'[q] = cpu[q] /\ io'[q] = io[q] /\ (steady'[q] => steady[q])
    BY DEF IInv, TypeOK, ReadIo
  <2>1. CASE q # pid
    <3>1. pst'[q] = pst[q]
      BY <1>d, <2>1
    <3>2. (CpuRead(q)' => CpuRead(q)) /\ (IoRead(q)' => IoRead(q))
      BY <2>1 DEF CpuRead, IoRead, ReadIo
    <3>. QED BY <1>c, <2>0, <3>1, <3>2, SampleNumbers, MonotoneKept
  <2>2. CASE q = pid
    <3>1. CpuRead(q)
      BY <2>2 DEF IInv, ScanInv, Reading, IoRead, CpuRead, ReadIo
    <3>2. s.pid = q /\ s.cpu = pst[q][curr].cpu /\ s.io = io[q]
      BY <2>2 DEF s, IInv, TypeOK, PidStats
    <3>3. Monotone(q)
      BY DEF IInv, MonotoneInv
    <3>. QED BY <1>c, <1>d, <2>0, <2>2, <3>1, <3>2, <3>3, SampleNumbers DEF Monotone
  <2>. QED BY <2>1, <2>2
<1>8. BookedInv'
  <2> SUFFICES ASSUME NEW q \in Pids PROVE Booked(q)'
    BY DEF BookedInv
  <2>1. pst'[q][LastReported'] = pst[q][LastReported]
    BY <1>c, <1>d DEF LastReported, ReadIo
  <2>2. steady'[q] = steady[q] /\ booked'[q] = booked[q]
    BY DEF IInv, TypeOK, ReadIo
  <2>. QED BY <2>1, <2>2, BookedKept DEF ReadIo
<1>. QED BY <1>1, <1>2, <1>3, <1>4, <1>5, <1>6, <1>7, <1>8 DEF IInv

\* A file of the process could not be read.
LEMMA ReadFailsStep ==
  ASSUME IInv, ReadFails
  PROVE  IInv'
<1> USE KernelAssumption DEF kernelVars
<1> DEFINE s == [pst[pid][curr] EXCEPT !.pid = 0]
<1>a. pid \in Pids
  BY DEF IInv, TypeOK, ScanInv, Reading, ReadFails
<1>b. s \in PidStats
  <2>1. pst[pid][curr] \in PidStats
    BY <1>a DEF IInv, TypeOK
  <2>2. pid \in 0 .. MaxPid /\ 0 \in 0 .. MaxPid /\ cpu[pid] \in Count /\ io[pid] \in Count
    BY <1>a DEF IInv, TypeOK, KernelTypeOK, Pids
  <2>. QED BY <2>1, <2>2 DEF PidStats
<1>c. pst' = [pst EXCEPT ![pid][curr] = s] /\ curr' = curr /\ prev' = prev
  BY DEF ReadFails, prev
<1> HIDE DEF s
<1>d. /\ pst' \in [Pids -> [{0, 1} -> PidStats]]
      /\ pst'[pid][curr] = s
      /\ pst'[pid][prev] = pst[pid][prev]
      /\ \A q \in Pids \ {pid} : pst'[q] = pst[q]
  <2>1. pst \in [Pids -> [{0, 1} -> PidStats]] /\ curr \in {0, 1}
    BY DEF IInv, TypeOK
  <2>. QED BY ONLY <1>a, <1>b, <1>c, <2>1, SampleUpdate DEF prev
<1>1. TypeOK'
  BY <1>a, <1>d 
     DEF IInv, ReadFails, Lose, TypeOK, KernelTypeOK,
         Reading, Pids
<1>2. CountersInv'
  BY <1>a DEF IInv, ReadFails, Lose, TypeOK, KernelTypeOK, CountersInv, Fds
<1>3. CounterLedger'
  BY <1>a DEF IInv, ReadFails, Lose, TypeOK, KernelTypeOK, CounterLedger, Fds,
         NoFd
<1>4. CounterOnlyWhileReported'
  BY <1>a DEF IInv, ReadFails, Lose, TypeOK, KernelTypeOK,
         CounterOnlyWhileReported, NoFd
<1>5. ScanInv'
  BY <1>a, <1>b, <1>c, <1>d 
     DEF IInv, ReadFails, Lose, TypeOK, KernelTypeOK, ScanInv, Pids,
         Reading, s, NoStats, PidStats
<1>6. SteadyInv'
  BY <1>a DEF IInv, ReadFails, Lose, TypeOK, KernelTypeOK, SteadyInv, Pids,
         ScanInv, Scanning, Reading
<1>7. MonotoneInv'
  <2> SUFFICES ASSUME NEW q \in Pids PROVE Monotone(q)'
    BY DEF MonotoneInv
  <2>0. cpu'[q] = cpu[q] /\ io'[q] = io[q] /\ (steady'[q] => steady[q])
    BY DEF IInv, TypeOK, ReadFails, Lose
  <2>1. CASE q # pid
    <3>1. pst'[q] = pst[q]
      BY <1>d, <2>1
    <3>2. (CpuRead(q)' => CpuRead(q)) /\ (IoRead(q)' => IoRead(q))
      BY <2>1 DEF CpuRead, IoRead, ReadFails, Lose
    <3>. QED BY <1>c, <2>0, <3>1, <3>2, SampleNumbers, MonotoneKept
  <2>2. CASE q = pid
    <3>. QED BY <2>2 DEF Monotone, ReadFails, Lose, IInv, TypeOK
  <2>. QED BY <2>1, <2>2
<1>8. BookedInv'
  <2> SUFFICES ASSUME NEW q \in Pids PROVE Booked(q)'
    BY DEF BookedInv
  <2>1. pst'[q][LastReported'] = pst[q][LastReported]
    BY <1>c, <1>d DEF LastReported, ReadFails, Lose
  <2>2. CASE q # pid
    BY <2>1, <2>2, BookedKept DEF IInv, TypeOK, ReadFails, Lose
  <2>3. CASE q = pid
    BY <2>3 DEF Booked, IInv, TypeOK, ReadFails, Lose
  <2>. QED BY <2>2, <2>3
<1>. QED BY <1>1, <1>2, <1>3, <1>4, <1>5, <1>6, <1>7, <1>8 DEF IInv

\* The perf counter has been read.
LEMMA ReadCounterStep ==
  ASSUME IInv, ReadCounter
  PROVE  IInv'
<1> USE KernelAssumption DEF kernelVars
<1> DEFINE s == [pst[pid][curr] EXCEPT !.acc = IF fd[pid] \in Fds THEN perf[fd[pid]].count ELSE 0]
<1>a. pid \in Pids
  BY DEF IInv, TypeOK, ScanInv, Reading, ReadCounter
<1>b. s \in PidStats
  <2>1. pst[pid][curr] \in PidStats
    BY <1>a DEF IInv, TypeOK
  <2>2. (IF fd[pid] \in Fds THEN perf[fd[pid]].count ELSE 0) \in Count
    BY <1>a DEF IInv, TypeOK, KernelTypeOK, Counter, Count
  <2>. QED BY <2>1, <2>2 DEF PidStats
<1>c. pst' = [pst EXCEPT ![pid][curr] = s] /\ curr' = curr /\ prev' = prev
  BY DEF ReadCounter, prev
<1> HIDE DEF s
<1>d. /\ pst' \in [Pids -> [{0, 1} -> PidStats]]
      /\ pst'[pid][curr] = s
      /\ pst'[pid][prev] = pst[pid][prev]
      /\ \A q \in Pids \ {pid} : pst'[q] = pst[q]
  <2>1. pst \in [Pids -> [{0, 1} -> PidStats]] /\ curr \in {0, 1}
    BY DEF IInv, TypeOK
  <2>. QED BY ONLY <1>a, <1>b, <1>c, <2>1, SampleUpdate DEF prev
<1>1. TypeOK'
  BY <1>a, <1>d 
     DEF IInv, ReadCounter, TypeOK, KernelTypeOK, Reading,
         Pids
<1>2. CountersInv'
  BY <1>a DEF IInv, ReadCounter, TypeOK, KernelTypeOK, CountersInv, Fds
<1>3. CounterLedger'
  BY <1>a DEF IInv, ReadCounter, TypeOK, KernelTypeOK, CounterLedger, Fds, NoFd
<1>4. CounterOnlyWhileReported'
  BY <1>a DEF IInv, ReadCounter, TypeOK, KernelTypeOK, CounterOnlyWhileReported,
         NoFd
<1>5. ScanInv'
  BY <1>a, <1>b, <1>c, <1>d 
     DEF IInv, ReadCounter, TypeOK, KernelTypeOK, ScanInv, Pids, Reading, s,
         NoStats, PidStats
<1>6. SteadyInv'
  BY <1>a DEF IInv, ReadCounter, TypeOK, KernelTypeOK, SteadyInv, Pids, ScanInv,
         Scanning, Reading
<1>7. MonotoneInv'
  <2> SUFFICES ASSUME NEW q \in Pids PROVE Monotone(q)'
    BY DEF MonotoneInv
  <2>0. cpu'[q] = cpu[q] /\ io'[q] = io[q] /\ (steady'[q] => steady[q])
    BY DEF IInv, TypeOK, ReadCounter
  <2>1. CASE q # pid
    <3>1. pst'[q] = pst[q]
      BY <1>d, <2>1
    <3>2. (CpuRead(q)' => CpuRead(q)) /\ (IoRead(q)' => IoRead(q))
      BY <2>1 DEF CpuRead, IoRead, ReadCounter
    <3>. QED BY <1>c, <2>0, <3>1, <3>2, SampleNumbers, MonotoneKept
  <2>2. CASE q = pid
    <3>1. CpuRead(q) /\ IoRead(q)
      BY <2>2 DEF IInv, ScanInv, Reading, IoRead, CpuRead, ReadCounter
    <3>2. s.pid = pst[q][curr].pid /\ s.cpu = pst[q][curr].cpu /\ s.io = pst[q][curr].io
      BY <2>2 DEF s, IInv, TypeOK, PidStats
    <3>3. Monotone(q)
      BY DEF IInv, MonotoneInv
    <3>. QED BY <1>c, <1>d, <2>0, <2>2, <3>1, <3>2, <3>3, SampleNumbers DEF Monotone
  <2>. QED BY <2>1, <2>2
<1>8. BookedInv'
  <2> SUFFICES ASSUME NEW q \in Pids PROVE Booked(q)'
    BY DEF BookedInv
  <2>1. pst'[q][LastReported'] = pst[q][LastReported]
    BY <1>c, <1>d DEF LastReported, ReadCounter
  <2>2. steady'[q] = steady[q] /\ booked'[q] = booked[q]
    BY DEF IInv, TypeOK, ReadCounter
  <2>. QED BY <2>1, <2>2, BookedKept DEF ReadCounter
<1>. QED BY <1>1, <1>2, <1>3, <1>4, <1>5, <1>6, <1>7, <1>8 DEF IInv

\* The scan is over: every steady process has been visited.
LEMMA EndScanStep ==
  ASSUME IInv, EndScan
  PROVE  IInv'
<1> USE KernelAssumption DEF kernelVars
<1>1. TypeOK'
  BY DEF IInv, EndScan, TypeOK, KernelTypeOK, Row, Reading,
         CountersInv, Counter, Count, Fds, NoFd, Pids
<1>2. CountersInv'
  BY DEF IInv, EndScan, TypeOK, KernelTypeOK, CountersInv, Fds
<1>3. CounterLedger'
  BY DEF IInv, EndScan, TypeOK, KernelTypeOK, CounterLedger, Fds, NoFd
<1>4. CounterOnlyWhileReported'
  BY DEF IInv, EndScan, TypeOK, KernelTypeOK, CounterOnlyWhileReported,
         NoFd
<1>5. ScanInv'
  BY DEF IInv, EndScan, TypeOK, KernelTypeOK, ScanInv, Pids, Reading
<1>6. SteadyInv'
  BY DEF IInv, EndScan, TypeOK, KernelTypeOK, SteadyInv, Pids, ScanInv,
         Scanning, Reading
<1>7. MonotoneInv'
  <2> SUFFICES ASSUME NEW q \in Pids PROVE Monotone(q)'
    BY DEF MonotoneInv
  <2>1. (CpuRead(q)' => CpuRead(q)) /\ (IoRead(q)' => IoRead(q))
    BY DEF CpuRead, IoRead, EndScan
  <2>2. steady'[q] => steady[q]
    BY DEF IInv, TypeOK, EndScan
  <2>. QED BY <2>1, <2>2, SampleNumbers, MonotoneKept DEF EndScan
<1>8. BookedInv'
  <2> SUFFICES ASSUME NEW q \in Pids PROVE Booked(q)'
    BY DEF BookedInv
  <2>1. LastReported' = LastReported
    BY DEF LastReported, prev, EndScan
  <2>. QED BY <2>1, BookedKept DEF EndScan
<1>. QED BY <1>1, <1>2, <1>3, <1>4, <1>5, <1>6, <1>7, <1>8 DEF IInv

\* The smaps file has been read.
LEMMA ReadSmapsStep ==
  ASSUME IInv, ReadSmaps
  PROVE  IInv'
<1> USE KernelAssumption DEF kernelVars
<1>1. TypeOK'
  BY DEF IInv, ReadSmaps, TypeOK, KernelTypeOK, Row,
         Reading, CountersInv, Counter, Count, Fds, NoFd, Pids
<1>2. CountersInv'
  BY DEF IInv, ReadSmaps, TypeOK, KernelTypeOK, CountersInv, Fds
<1>3. CounterLedger'
  BY DEF IInv, ReadSmaps, TypeOK, KernelTypeOK, CounterLedger, Fds, NoFd
<1>4. CounterOnlyWhileReported'
  BY DEF IInv, ReadSmaps, TypeOK, KernelTypeOK, CounterOnlyWhileReported,
         NoFd
<1>5. ScanInv'
  BY DEF IInv, ReadSmaps, TypeOK, KernelTypeOK, ScanInv, Pids, Reading
<1>6. SteadyInv'
  BY DEF IInv, ReadSmaps, TypeOK, KernelTypeOK, SteadyInv, Pids, ScanInv,
         Scanning, Reading
<1>7. MonotoneInv'
  <2> SUFFICES ASSUME NEW q \in Pids PROVE Monotone(q)'
    BY DEF MonotoneInv
  <2>1. (CpuRead(q)' => CpuRead(q)) /\ (IoRead(q)' => IoRead(q))
    BY DEF CpuRead, IoRead, ReadSmaps
  <2>2. steady'[q] => steady[q]
    BY DEF IInv, TypeOK, ReadSmaps
  <2>. QED BY <2>1, <2>2, SampleNumbers, MonotoneKept DEF ReadSmaps
<1>8. BookedInv'
  <2> SUFFICES ASSUME NEW q \in Pids PROVE Booked(q)'
    BY DEF BookedInv
  <2>1. LastReported' = LastReported
    BY DEF LastReported, prev, ReadSmaps
  <2>. QED BY <2>1, BookedKept DEF ReadSmaps
<1>. QED BY <1>1, <1>2, <1>3, <1>4, <1>5, <1>6, <1>7, <1>8 DEF IInv

\* The program ends.
LEMMA SmapsFailsStep ==
  ASSUME IInv, SmapsFails
  PROVE  IInv'
<1> USE KernelAssumption DEF kernelVars
<1>1. TypeOK'
  BY DEF IInv, SmapsFails, TypeOK, KernelTypeOK, Row,
         Reading, CountersInv, Counter, Count, Fds, NoFd, Pids
<1>2. CountersInv'
  BY DEF IInv, SmapsFails, TypeOK, KernelTypeOK, CountersInv, Fds
<1>3. CounterLedger'
  BY DEF IInv, SmapsFails, TypeOK, KernelTypeOK, CounterLedger, Fds, NoFd
<1>4. CounterOnlyWhileReported'
  BY DEF IInv, SmapsFails, TypeOK, KernelTypeOK, CounterOnlyWhileReported,
         NoFd
<1>5. ScanInv'
  BY DEF IInv, SmapsFails, TypeOK, KernelTypeOK, ScanInv, Pids, Reading
<1>6. SteadyInv'
  BY DEF IInv, SmapsFails, TypeOK, KernelTypeOK, SteadyInv, Pids, ScanInv,
         Scanning, Reading
<1>7. MonotoneInv'
  <2> SUFFICES ASSUME NEW q \in Pids PROVE Monotone(q)'
    BY DEF MonotoneInv
  <2>1. (CpuRead(q)' => CpuRead(q)) /\ (IoRead(q)' => IoRead(q))
    BY DEF CpuRead, IoRead, SmapsFails
  <2>2. steady'[q] => steady[q]
    BY DEF IInv, TypeOK, SmapsFails
  <2>. QED BY <2>1, <2>2, SampleNumbers, MonotoneKept DEF SmapsFails
<1>8. BookedInv'
  <2> SUFFICES ASSUME NEW q \in Pids PROVE Booked(q)'
    BY DEF BookedInv
  <2>1. LastReported' = LastReported
    BY DEF LastReported, prev, SmapsFails
  <2>. QED BY <2>1, BookedKept DEF SmapsFails
<1>. QED BY <1>1, <1>2, <1>3, <1>4, <1>5, <1>6, <1>7, <1>8 DEF IInv

\* NextCycle swaps the buffers: what was read becomes the reference.
LEMMA NextCycleStep ==
  ASSUME IInv, NextCycle
  PROVE  IInv'
<1> USE KernelAssumption DEF kernelVars
<1>0. curr' = prev /\ prev' = curr /\ curr \in {0, 1} /\ prev \in {0, 1}
  BY DEF NextCycle, prev, IInv, TypeOK
<1>1. TypeOK'
  BY <1>0 DEF IInv, NextCycle, TypeOK, KernelTypeOK, Reading
<1>2. CountersInv'
  BY DEF IInv, NextCycle, CountersInv
<1>3. CounterLedger'
  BY DEF IInv, NextCycle, CounterLedger
<1>4. CounterOnlyWhileReported'
  BY DEF NextCycle, CounterOnlyWhileReported
<1>5. ScanInv'
  BY DEF IInv, NextCycle, ScanInv, Reading
<1>6. SteadyInv'
  BY DEF IInv, NextCycle, TypeOK, SteadyInv, Scanning, Pids
<1>7. MonotoneInv'
  <2> SUFFICES ASSUME NEW q \in Pids, steady[q] PROVE Monotone(q)'
    BY DEF MonotoneInv, Monotone, NextCycle
  <2>1. CpuRead(q) /\ IoRead(q)
    BY DEF IInv, SteadyInv, NextCycle, CpuRead, IoRead
  <2>2. ~ CpuRead(q)' /\ ~ IoRead(q)'
    BY DEF NextCycle, CpuRead, IoRead
  <2>3. Monotone(q)
    BY DEF IInv, MonotoneInv
  <2>. QED BY <1>0, <2>1, <2>2, <2>3 DEF Monotone, NextCycle
<1>8. BookedInv'
  <2>1. LastReported' = LastReported
    BY <1>0 DEF NextCycle, LastReported
  <2>. QED BY <2>1, BookedKept DEF BookedInv, NextCycle
<1>. QED BY <1>1, <1>2, <1>3, <1>4, <1>5, <1>6, <1>7, <1>8 DEF IInv

\* A new node starts a history: nothing sampled, nothing booked, no counter.
LEMMA ScanNewStep ==
  ASSUME IInv, NEW p \in Pids, ScanNew(p)
  PROVE  IInv'
<1> USE KernelAssumption DEF kernelVars
<1>0. curr' = curr /\ prev' = prev /\ curr \in {0, 1} /\ prev \in {0, 1}
  BY DEF ScanNew, prev, IInv, TypeOK
<1>a. /\ pst' \in [Pids -> [{0, 1} -> PidStats]]
      /\ \A b \in {0, 1} : pst'[p][b] = NoStats
      /\ \A q \in Pids \ {p} : pst'[q] = pst[q]
  <2>1. NoStats \in PidStats
    BY DEF NoStats, PidStats, Count
  <2>. QED BY <2>1 DEF ScanNew, IInv, TypeOK
<1>b. fd[p] = NoFd /\ ~ steady[p]
  BY DEF ScanNew, IInv, ScanInv
<1>1. TypeOK'
  <2>1. pid' \in 0 .. MaxPid /\ fresh' \in SUBSET Pids /\ nodes' \in SUBSET Pids
    BY DEF IInv, TypeOK, ScanNew, Pids
  <2>2. fd' \in [Pids -> Fds \cup {NoFd}] /\ steady' \in [Pids -> BOOLEAN]
    BY DEF IInv, TypeOK, ScanNew
  <2>3. booked' \in [Pids -> Nat]
    BY DEF IInv, TypeOK, ScanNew
  <2>. QED BY <1>a, <2>1, <2>2, <2>3
           DEF IInv, ScanNew, TypeOK, KernelTypeOK, Reading
<1>2. CountersInv'
  BY DEF IInv, ScanNew, CountersInv
<1>3. CounterLedger'
  <2>1. fd' = fd
    BY <1>b DEF IInv, TypeOK, ScanNew
  <2>2. \A q \in Pids : steady'[q] => steady[q] \/ q = p
    BY DEF IInv, TypeOK, ScanNew
  <2>. QED BY <1>b, <2>1, <2>2 DEF IInv, ScanNew, CounterLedger, NoFd, Fds
<1>4. CounterOnlyWhileReported'
  BY DEF ScanNew, CounterOnlyWhileReported
<1>5. ScanInv'
  BY <1>a DEF IInv, TypeOK, ScanNew, NextEntry, ScanInv, NoStats, NoFd, Pids
<1>6. SteadyInv'
  BY DEF IInv, TypeOK, ScanNew, NextEntry, ScanInv, SteadyInv, Scanning, Reading,
         Pids
<1>7. MonotoneInv'
  <2> SUFFICES ASSUME NEW q \in Pids PROVE Monotone(q)'
    BY DEF MonotoneInv
  <2>1. CASE q # p
    <3>1. (CpuRead(q)' => CpuRead(q)) /\ (IoRead(q)' => IoRead(q))
      BY <2>1 DEF CpuRead, IoRead, ScanNew, NextEntry
    <3>2. pst'[q] = pst[q] /\ (steady'[q] => steady[q])
      BY <1>a, <2>1 DEF ScanNew, IInv, TypeOK
    <3>. QED BY <1>0, <3>1, <3>2, SampleNumbers, MonotoneKept DEF ScanNew
  <2>2. CASE q = p
    <3>1. ~ CpuRead(q)' /\ ~ IoRead(q)'
      BY <2>2 DEF CpuRead, IoRead, ScanNew
    <3>. QED BY <1>0, <1>a, <2>2, <3>1, SampleNumbers DEF Monotone, NoStats, ScanNew
  <2>. QED BY <2>1, <2>2
<1>8. BookedInv'
  <2> SUFFICES ASSUME NEW q \in Pids PROVE Booked(q)'
    BY DEF BookedInv
  <2>1. LastReported' = LastReported /\ LastReported \in {0, 1}
    BY <1>0 DEF LastReported, ScanNew, NextEntry
  <2>2. CASE q # p
    BY <1>a, <2>1, <2>2, BookedKept DEF ScanNew, IInv, TypeOK
  <2>3. CASE q = p
    BY <1>a, <2>1, <2>3 DEF Booked, ScanNew, IInv, TypeOK, NoStats
  <2>. QED BY <2>2, <2>3
<1>. QED BY <1>1, <1>2, <1>3, <1>4, <1>5, <1>6, <1>7, <1>8 DEF IInv

\* OpenCounter changes a descriptor and the counter behind it, at most.
LEMMA OpenCounterStep ==
  ASSUME IInv, OpenCounter
  PROVE  IInv'
<1> USE KernelAssumption DEF kernelVars
<1>a. pid \in Pids /\ pid \in nodes
  BY DEF IInv, TypeOK, ScanInv, Reading, OpenCounter
<1>b. \/ UNCHANGED <<perf, fd>>
      \/ fd' = [fd EXCEPT ![pid] = NoFd] /\ UNCHANGED perf /\ fd[pid] \notin Fds
      \/ \E f \in Fds :
           /\ perf[f] = Free
           /\ perf' = [perf EXCEPT ![f] = [pid |-> pid, gen |-> gen[pid], count |-> 0]]
           /\ fd' = [fd EXCEPT ![pid] = f]
           /\ fd[pid] \notin Fds
  BY DEF OpenCounter, PerfOpen, FreeFds
<1>c. [pid |-> pid, gen |-> gen[pid], count |-> 0] \in Counter
  BY <1>a DEF IInv, TypeOK, KernelTypeOK, Counter, Count, Pids
<1>1. TypeOK'
  <2>1. perf' \in [Fds -> Counter] /\ fd' \in [Pids -> Fds \cup {NoFd}]
    BY <1>a, <1>b, <1>c DEF IInv, TypeOK, KernelTypeOK
  <2>. QED BY <2>1 DEF IInv, OpenCounter, TypeOK, KernelTypeOK, Reading
<1>2. CountersInv'
  <2>1. CASE UNCHANGED perf
    BY <2>1 DEF IInv, OpenCounter, CountersInv
  <2>2. ASSUME NEW f \in Fds,
               perf' = [perf EXCEPT ![f] = [pid |-> pid, gen |-> gen[pid], count |-> 0]]
        PROVE  CountersInv'
    <3>1. perf'[f].pid = pid /\ perf'[f].gen = gen[pid] /\ perf'[f].count = 0
      BY <2>2 DEF IInv, TypeOK, KernelTypeOK
    <3>2. \A g \in Fds \ {f} : perf'[g] = perf[g]
      BY <2>2 DEF IInv, TypeOK, KernelTypeOK
    <3>3. gen[pid] \in Nat /\ cpu[pid] \in Nat /\ gen' = gen /\ cpu' = cpu
      BY <1>a DEF IInv, TypeOK, KernelTypeOK, Count, OpenCounter
    <3>4. pid # 0
      BY <1>a DEF Pids
    <3>. QED BY <3>1, <3>2, <3>3, <3>4 DEF IInv, CountersInv
  <2>. QED BY <1>b, <2>1, <2>2
<1>3. CounterLedger'
  <2>0. /\ UNCHANGED <<nodes, gen, steady>>
        /\ fd \in [Pids -> Fds \cup {NoFd}] /\ perf \in [Fds -> Counter]
        /\ CounterLedger
    BY DEF OpenCounter, IInv, TypeOK, KernelTypeOK
  <2>1. CASE UNCHANGED <<perf, fd>>
    BY <2>0, <2>1 DEF CounterLedger
  <2>2. CASE fd' = [fd EXCEPT ![pid] = NoFd] /\ UNCHANGED perf /\ fd[pid] \notin Fds
    BY <1>a, <2>0, <2>2 DEF CounterLedger, NoFd, Fds
  <2>3. ASSUME NEW f \in Fds, perf[f] = Free,
               perf' = [perf EXCEPT ![f] = [pid |-> pid, gen |-> gen[pid], count |-> 0]],
               fd' = [fd EXCEPT ![pid] = f], fd[pid] \notin Fds
        PROVE  CounterLedger'
    <3>1. perf'[f].pid = pid /\ perf'[f].gen = gen[pid] /\ fd'[pid] = f
      BY <1>a, <2>0, <2>3
    <3>2. \A g \in Fds \ {f} : perf'[g] = perf[g]
      BY <2>0, <2>3
    <3>3. \A p \in Pids \ {pid} : fd'[p] = fd[p]
      BY <2>0, <2>3
    <3>4. \A p \in Pids : fd[p] # f
      BY <2>0, <2>3 DEF CounterLedger, Free, Pids
    <3>5. \A p \in Pids : fd'[p] \in Fds =>
            /\ p \in nodes /\ perf'[fd'[p]].pid = p
            /\ steady[p] => perf'[fd'[p]].gen = gen[p]
      BY <1>a, <2>0, <3>1, <3>2, <3>3, <3>4 DEF CounterLedger
    <3>6. \A g \in Fds : perf'[g] # Free => \E p \in Pids : fd'[p] = g
      BY <1>a, <2>0, <2>3, <3>1, <3>2, <3>3 DEF CounterLedger
    <3>. QED BY <2>0, <3>5, <3>6 DEF CounterLedger, Free
  <2>. QED BY <1>b, <2>1, <2>2, <2>3
<1>4. CounterOnlyWhileReported'
  BY DEF OpenCounter, CounterOnlyWhileReported
<1>5. ScanInv'
  <2>1. \A p \in Pids \ nodes : fd'[p] = fd[p]
    BY <1>a, <1>b DEF IInv, TypeOK
  <2>. QED BY <2>1 DEF IInv, OpenCounter, ScanInv, Reading
<1>6. SteadyInv'
  BY DEF IInv, OpenCounter, SteadyInv, Scanning, Reading
<1>7. MonotoneInv'
  <2> SUFFICES ASSUME NEW q \in Pids PROVE Monotone(q)'
    BY DEF MonotoneInv
  <2>1. (CpuRead(q)' => CpuRead(q)) /\ (IoRead(q)' => IoRead(q))
    BY DEF CpuRead, IoRead, OpenCounter
  <2>. QED BY <2>1, SampleNumbers, MonotoneKept DEF OpenCounter
<1>8. BookedInv'
  <2>1. LastReported' = LastReported
    BY DEF LastReported, prev, OpenCounter
  <2>. QED BY <2>1, BookedKept DEF BookedInv, OpenCounter
<1>. QED BY <1>1, <1>2, <1>3, <1>4, <1>5, <1>6, <1>7, <1>8 DEF IInv

\* The row of a reported node has natural figures and the pid of the node; for a
\* steady process the clamp changes nothing and the figures are the differences.
LEMMA RowOfReported ==
  ASSUME IInv, pc = "write", NEW p \in Pids, Reported(p)
  PROVE  /\ RowOf(p) \in Row
         /\ RowOf(p).pid = p
         /\ Clamp(pst[p][curr].cpu, pst[p][prev].cpu) \in Count
         /\ steady[p] =>
              /\ RowOf(p).io = pst[p][curr].io - pst[p][prev].io
              /\ Clamp(pst[p][curr].cpu, pst[p][prev].cpu) = pst[p][curr].cpu
<1>1. curr \in {0, 1} /\ prev \in {0, 1}
  BY DEF IInv, TypeOK, prev
<1>2. \A b \in {0, 1} : pst[p][b].cpu \in Count /\ pst[p][b].io \in Count /\ pst[p][b].acc \in Count
  BY DEF IInv, TypeOK, PidStats
<1>3. pst[p][curr].pid = p
  BY <1>1 DEF Reported, IsActive, IInv, ScanInv, Pids
<1>4. Clamp(pst[p][curr].cpu, pst[p][prev].cpu) \in Count
  BY <1>1, <1>2 DEF Clamp
<1>5. RowOf(p) \in Row
  BY <1>1, <1>2, <1>3, SubCountBound DEF RowOf, Row
<1>6. ASSUME steady[p]
      PROVE  /\ RowOf(p).io = pst[p][curr].io - pst[p][prev].io
             /\ Clamp(pst[p][curr].cpu, pst[p][prev].cpu) = pst[p][curr].cpu
  <2>1. CpuRead(p) /\ IoRead(p)
    BY <1>6 DEF IInv, SteadyInv, CpuRead, IoRead
  <2>2. pst[p][prev].cpu <= pst[p][curr].cpu /\ pst[p][prev].io <= pst[p][curr].io
    BY <1>6, <2>1 DEF IInv, MonotoneInv, Monotone
  <2>3. Clamp(pst[p][curr].cpu, pst[p][prev].cpu) = pst[p][curr].cpu
    BY <1>1, <1>2, <2>2 DEF Clamp, Count
  <2>. QED BY <1>1, <1>2, <2>2, <2>3, SubCountBound DEF RowOf
<1>7. RowOf(p).pid = p
  BY <1>3 DEF RowOf
<1>. QED BY <1>4, <1>5, <1>6, <1>7

\* A steady process that is not reported has not moved since the last report.
LEMMA QuietWhenNotReported ==
  ASSUME IInv, pc = "write", NEW p \in Pids, steady[p], ~ Reported(p)
  PROVE  /\ pst[p][curr].cpu = pst[p][prev].cpu
         /\ pst[p][curr].io = pst[p][prev].io
<1>1. CpuRead(p) /\ p \in nodes
  BY DEF IInv, SteadyInv, ScanInv, CpuRead
<1>2. pst[p][curr].pid = p /\ p # 0
  BY <1>1 DEF IInv, MonotoneInv, Monotone, Pids
<1>. QED BY <1>1, <1>2 DEF Reported, IsActive

\* The report: rows for the nodes that moved, and the counters of all others
\* given back.
LEMMA WriteStatsStep ==
  ASSUME IInv, WriteStats
  PROVE  IInv'
<1> USE KernelAssumption
<1>0. /\ curr' = curr /\ prev' = prev /\ curr \in {0, 1} /\ prev \in {0, 1}
      /\ curr # prev /\ pc = "write" /\ pc' = "sleep"
  BY DEF WriteStats, prev, IInv, TypeOK
<1>a. \A p \in Pids :
        /\ pst'[p] \in [{0, 1} -> PidStats]
        /\ \A b \in {0, 1} : pst'[p][b].pid = pst[p][b].pid
        /\ steady[p] => pst'[p] = pst[p]
  <2> SUFFICES ASSUME NEW p \in Pids
               PROVE  /\ pst'[p] \in [{0, 1} -> PidStats]
                      /\ \A b \in {0, 1} : pst'[p][b].pid = pst[p][b].pid
                      /\ steady[p] => pst'[p] = pst[p]
    OBVIOUS
  <2>0. pst[p] \in [{0, 1} -> PidStats]
    BY DEF IInv, TypeOK
  <2>1. CASE Reported(p)
    <3> DEFINE c == Clamp(pst[p][curr].cpu, pst[p][prev].cpu)
    <3>1. pst'[p] = [pst[p] EXCEPT ![curr] = [pst[p][curr] EXCEPT !.cpu = c]]
      BY <2>0, <2>1 DEF WriteStats, PidStats
    <3>2. c \in Count /\ (steady[p] => c = pst[p][curr].cpu)
      BY <1>0, <2>1, RowOfReported
    <3> HIDE DEF c
    <3>3. [pst[p][curr] EXCEPT !.cpu = c] \in PidStats
      BY <1>0, <2>0, <3>2 DEF PidStats
    <3>4. steady[p] => [pst[p][curr] EXCEPT !.cpu = c] = pst[p][curr]
      BY <1>0, <2>0, <3>2 DEF PidStats
    <3>. QED BY <1>0, <2>0, <3>1, <3>3, <3>4 DEF PidStats
  <2>2. CASE ~ Reported(p)
    BY <2>0, <2>2 DEF WriteStats
  <2>. QED BY <2>1, <2>2
<1>b. \A p \in Pids : steady[p] => booked'[p] = pst[p][curr].io
  <2> SUFFICES ASSUME NEW p \in Pids, steady[p]
               PROVE  booked'[p] = pst[p][curr].io
    OBVIOUS
  <2>1. booked[p] = pst[p][prev].io
    BY <1>0 DEF IInv, BookedInv, Booked, LastReported
  <2>2. CASE Reported(p)
    BY <1>0, <2>1, <2>2, RowOfReported, SampleNumbers DEF WriteStats
  <2>3. CASE ~ Reported(p)
    BY <1>0, <2>1, <2>3, QuietWhenNotReported DEF WriteStats
  <2>. QED BY <2>2, <2>3
<1>1. TypeOK'
  <2>1. pst' \in [Pids -> [{0, 1} -> PidStats]]
    BY <1>a DEF WriteStats
  <2>2. rows' \subseteq Row
    BY <1>0, RowOfReported DEF WriteStats, IInv, TypeOK
  <2>3. booked' \in [Pids -> Nat]
    <3> SUFFICES ASSUME NEW p \in Pids PROVE booked'[p] \in Nat
      BY DEF WriteStats
    <3>1. CASE Reported(p) /\ steady[p]
      <4>1. RowOf(p).io \in Nat
        BY <1>0, <3>1, RowOfReported DEF Row
      <4>2. booked[p] \in Nat
        BY DEF IInv, TypeOK
      <4>. QED BY <3>1, <4>1, <4>2 DEF WriteStats
    <3>2. CASE ~ (Reported(p) /\ steady[p])
      BY <3>2 DEF WriteStats, IInv, TypeOK
    <3>. QED BY <3>1, <3>2
  <2>4. perf' \in [Fds -> Counter] /\ fd' \in [Pids -> Fds \cup {NoFd}]
    BY DEF WriteStats, ClearPositions, IInv, TypeOK, KernelTypeOK, Counter, Free,
           Count, Fds
  <2>. QED BY <1>0, <2>1, <2>2, <2>3, <2>4
           DEF WriteStats, IInv, TypeOK, KernelTypeOK
<1>2. CountersInv'
  BY DEF WriteStats, ClearPositions, IInv, CountersInv, Free
<1>3. CounterLedger'
  <2> DEFINE S == {p \in nodes : Dropped(p)}
  <2>1. /\ perf' = [f \in Fds |-> IF \E p \in S : fd[p] = f THEN Free ELSE perf[f]]
        /\ fd' = [p \in Pids |-> IF p \in S THEN NoFd ELSE fd[p]]
        /\ UNCHANGED <<nodes, gen, steady>>
    BY DEF WriteStats, ClearPositions
  <2>2. CounterLedger /\ NoFd \notin Fds /\ nodes \subseteq Pids
    BY DEF IInv, TypeOK, NoFd, Fds
  <2> HIDE DEF S
  <2>3. \A p \in Pids : fd'[p] \in Fds => p \notin S /\ fd'[p] = fd[p]
    BY <2>1, <2>2
  <2>4. \A p, q \in Pids : fd[p] \in Fds /\ fd[q] = fd[p] => p = q
    BY <2>2 DEF CounterLedger
  <2>5. \A p \in Pids : fd'[p] \in Fds => perf'[fd'[p]] = perf[fd[p]]
    BY <2>1, <2>2, <2>3, <2>4 DEF S
  <2>6. \A p \in Pids : fd'[p] \in Fds =>
          /\ p \in nodes' /\ perf'[fd'[p]].pid = p
          /\ steady'[p] => perf'[fd'[p]].gen = gen'[p]
    BY <2>1, <2>2, <2>3, <2>5 DEF CounterLedger
  <2>7. \A f \in Fds : perf'[f] # Free => \E p \in Pids : fd'[p] = f
    BY <2>1, <2>2 DEF CounterLedger
  <2>. QED BY <2>6, <2>7 DEF CounterLedger, Free
<1>4. CounterOnlyWhileReported'
  <2> SUFFICES ASSUME NEW p \in Pids, fd'[p] \in Fds PROVE \E r \in rows' : r.pid = p
    BY DEF CounterOnlyWhileReported
  <2>1. fd[p] \in Fds /\ ~ (p \in nodes /\ Dropped(p))
    BY DEF WriteStats, ClearPositions, NoFd, Fds
  <2>2. p \in nodes
    BY <2>1 DEF IInv, CounterLedger
  <2>3. Reported(p)
    BY <2>1, <2>2 DEF Dropped, Reported, IsActive
  <2>. QED BY <1>0, <2>2, <2>3, RowOfReported DEF WriteStats
<1>5. ScanInv'
  BY <1>0, <1>a DEF WriteStats, ClearPositions, IInv, TypeOK, ScanInv, Reading
<1>6. SteadyInv'
  BY DEF WriteStats, IInv, SteadyInv, Scanning, Reading
<1>7. MonotoneInv'
  <2> SUFFICES ASSUME NEW q \in Pids, steady[q] PROVE Monotone(q)'
    BY DEF MonotoneInv, Monotone, WriteStats
  <2>1. CpuRead(q) /\ IoRead(q)
    BY DEF IInv, SteadyInv, WriteStats, CpuRead, IoRead
  <2>2. UNCHANGED <<cpu, io, steady>>
    BY DEF WriteStats
  <2>3. pst'[q] = pst[q]
    BY <1>a
  <2>. QED BY <1>0, <2>1, <2>2, <2>3, SampleNumbers, MonotoneKept
<1>8. BookedInv'
  <2> SUFFICES ASSUME NEW q \in Pids PROVE Booked(q)'
    BY DEF BookedInv
  <2>1. steady'[q] = steady[q] /\ LastReported' = curr
    BY <1>0 DEF WriteStats, LastReported
  <2>2. CASE steady[q]
    BY <1>0, <1>a, <1>b, <2>1, <2>2 DEF Booked
  <2>3. CASE ~ steady[q]
    BY <2>1, <2>3 DEF IInv, BookedInv, Booked, WriteStats
  <2>. QED BY <2>2, <2>3
<1>. QED BY <1>1, <1>2, <1>3, <1>4, <1>5, <1>6, <1>7, <1>8 DEF IInv

-----------------------------------------------------------------------------
\* A process starts: the pid was not alive, so no steady history is touched, and
\* counters of its earlier owners keep an older incarnation.
LEMMA StartStep ==
  ASSUME IInv, NEW p \in Pids, Start(p), UNCHANGED monitorVars
  PROVE  IInv'
<1> USE KernelAssumption DEF monitorVars
<1>0. ~ steady[p] /\ gen[p] \in Nat
  BY DEF Start, IInv, SteadyInv, TypeOK, KernelTypeOK
<1>a. /\ gen'[p] = gen[p] + 1
      /\ \A q \in Pids \ {p} : gen'[q] = gen[q] /\ cpu'[q] = cpu[q] /\ io'[q] = io[q]
  BY DEF Start, IInv, TypeOK, KernelTypeOK
<1>1. TypeOK'
  <2>1. alive' \in SUBSET Pids /\ cpu' \in [Pids -> Count] /\ io' \in [Pids -> Count]
    BY DEF Start, IInv, TypeOK, KernelTypeOK, Count
  <2>2. gen' \in [Pids -> Nat]
    BY <1>0 DEF Start, IInv, TypeOK, KernelTypeOK
  <2>. QED BY <2>1, <2>2 DEF Start, IInv, TypeOK, KernelTypeOK
<1>2. CountersInv'
  <2> SUFFICES ASSUME NEW f \in Fds, perf[f].pid # 0
               PROVE  /\ perf[f].gen <= gen'[perf[f].pid]
                      /\ perf[f].gen = gen'[perf[f].pid] => perf[f].count <= cpu'[perf[f].pid]
    BY DEF Start, IInv, CountersInv
  <2>1. perf[f].pid \in Pids /\ perf[f].gen \in Nat
    BY DEF IInv, TypeOK, KernelTypeOK, Counter, Pids
  <2>2. perf[f].gen <= gen[perf[f].pid]
    BY DEF IInv, CountersInv
  <2>3. CASE perf[f].pid = p
    BY <1>0, <1>a, <2>1, <2>2, <2>3
  <2>4. CASE perf[f].pid # p
    BY <1>a, <2>1, <2>2, <2>4 DEF IInv, CountersInv
  <2>. QED BY <2>3, <2>4
<1>3. CounterLedger'
  BY <1>0, <1>a DEF Start, IInv, CounterLedger
<1>4. CounterOnlyWhileReported'
  BY DEF Start, IInv, CounterOnlyWhileReported
<1>5. ScanInv'
  BY DEF IInv, ScanInv
<1>6. SteadyInv'
  BY DEF Start, IInv, SteadyInv, Scanning
<1>7. MonotoneInv'
  <2> SUFFICES ASSUME NEW q \in Pids, steady[q] PROVE Monotone(q)'
    BY DEF MonotoneInv, Monotone
  <2>1. (CpuRead(q)' => CpuRead(q)) /\ (IoRead(q)' => IoRead(q))
    BY DEF CpuRead, IoRead
  <2>2. cpu'[q] = cpu[q] /\ io'[q] = io[q]
    BY <1>0, <1>a
  <2>. QED BY <2>1, <2>2, SampleNumbers, MonotoneKept
<1>8. BookedInv'
  BY DEF IInv, BookedInv, Booked, LastReported, prev
<1>. QED BY <1>1, <1>2, <1>3, <1>4, <1>5, <1>6, <1>7, <1>8 DEF IInv

\* A process exits: its history ends.
LEMMA ExitStep ==
  ASSUME IInv, NEW p \in Pids, Exit(p), Lose(p),
         UNCHANGED <<nodes, fd, pst, curr, pc, pid, rows, fresh>>
  PROVE  IInv'
<1> USE KernelAssumption
<1>a. \A q \in Pids : steady'[q] => steady[q] /\ q # p /\ booked'[q] = booked[q]
  BY DEF Lose, IInv, TypeOK
<1>1. TypeOK'
  BY DEF Exit, Lose, IInv, TypeOK, KernelTypeOK
<1>2. CountersInv'
  BY DEF Exit, IInv, CountersInv
<1>3. CounterLedger'
  BY <1>a DEF Exit, IInv, CounterLedger
<1>4. CounterOnlyWhileReported'
  BY DEF Exit, IInv, CounterOnlyWhileReported
<1>5. ScanInv'
  BY <1>a DEF IInv, ScanInv
<1>6. SteadyInv'
  BY <1>a DEF Exit, IInv, SteadyInv, Scanning
<1>7. MonotoneInv'
  <2> SUFFICES ASSUME NEW q \in Pids PROVE Monotone(q)'
    BY DEF MonotoneInv
  <2>1. (CpuRead(q)' => CpuRead(q)) /\ (IoRead(q)' => IoRead(q))
    BY DEF CpuRead, IoRead
  <2>. QED BY <1>a, <2>1, SampleNumbers, MonotoneKept DEF Exit
<1>8. BookedInv'
  <2> SUFFICES ASSUME NEW q \in Pids PROVE Booked(q)'
    BY DEF BookedInv
  <2>1. CASE q # p
    BY <2>1, BookedKept DEF Lose, IInv, TypeOK, LastReported, prev
  <2>2. CASE q = p
    BY <2>2 DEF Booked, Lose, IInv, TypeOK
  <2>. QED BY <2>1, <2>2
<1>. QED BY <1>1, <1>2, <1>3, <1>4, <1>5, <1>6, <1>7, <1>8 DEF IInv

\* A process runs: its time grows, and with it the counters open on it.
LEMMA RunStep ==
  ASSUME IInv, NEW p \in Pids, Run(p), UNCHANGED monitorVars
  PROVE  IInv'
<1> USE KernelAssumption DEF monitorVars
<1>a. \A q \in Pids : /\ cpu[q] \in Nat /\ cpu'[q] = IF q = p THEN cpu[q] + 1 ELSE cpu[q]
                      /\ gen'[q] = gen[q] /\ io'[q] = io[q]
  BY DEF Run, IInv, TypeOK, KernelTypeOK, Count
<1>b. \A f \in Fds :
        /\ perf[f].pid \in 0 .. MaxPid /\ perf[f].gen \in Nat /\ perf[f].count \in Nat
        /\ perf'[f] = IF perf[f].pid = p /\ perf[f].gen = gen[p]
                        THEN [perf[f] EXCEPT !.count = @ + 1] ELSE perf[f]
        /\ perf'[f].pid = perf[f].pid /\ perf'[f].gen = perf[f].gen
        /\ perf'[f] = Free <=> perf[f] = Free
  <2> SUFFICES ASSUME NEW f \in Fds
               PROVE  /\ perf[f].pid \in 0 .. MaxPid /\ perf[f].gen \in Nat
                      /\ perf[f].count \in Nat
                      /\ perf'[f] = IF perf[f].pid = p /\ perf[f].gen = gen[p]
                                      THEN [perf[f] EXCEPT !.count = @ + 1] ELSE perf[f]
                      /\ perf'[f].pid = perf[f].pid /\ perf'[f].gen = perf[f].gen
                      /\ perf'[f] = Free <=> perf[f] = Free
    OBVIOUS
  <2>1. perf[f] \in Counter
    BY DEF IInv, TypeOK, KernelTypeOK
  <2>2. perf'[f] = IF perf[f].pid = p /\ perf[f].gen = gen[p]
                     THEN [perf[f] EXCEPT !.count = @ + 1] ELSE perf[f]
    BY DEF Run
  <2>3. p # 0
    BY DEF Pids
  <2>. QED BY <2>1, <2>2, <2>3 DEF Counter, Count, Free
<1>2. CountersInv'
  <2> SUFFICES ASSUME NEW f \in Fds
               PROVE  /\ perf'[f].pid = 0 => perf'[f] = Free
                      /\ perf'[f].pid # 0 =>
                           /\ perf'[f].gen <= gen'[perf'[f].pid]
                           /\ perf'[f].gen = gen'[perf'[f].pid] =>
                                perf'[f].count <= cpu'[perf'[f].pid]
    BY DEF CountersInv
  <2>1. perf[f] \in Counter
    BY DEF IInv, TypeOK, KernelTypeOK
  <2>2. perf[f].pid # 0 => perf[f].pid \in Pids
    BY <2>1 DEF Counter, Pids
  <2>3. /\ perf[f].pid = 0 => perf[f] = Free
        /\ perf[f].pid # 0 =>
             /\ perf[f].gen <= gen[perf[f].pid]
             /\ perf[f].gen = gen[perf[f].pid] => perf[f].count <= cpu[perf[f].pid]
    BY DEF IInv, CountersInv
  <2>4. CASE perf[f].pid = p /\ perf[f].gen = gen[p]
    <3>1. perf'[f].count = perf[f].count + 1
      BY <1>b, <2>1, <2>4 DEF Counter
    <3>2. perf[f].count \in Nat /\ perf[f].count <= cpu[p]
      BY <2>1, <2>3, <2>4 DEF Counter, Count, Pids
    <3>3. gen'[p] = gen[p] /\ cpu'[p] = cpu[p] + 1 /\ cpu[p] \in Nat
      BY <1>a
    <3>4. perf'[f].pid = p /\ perf'[f].gen = gen[p]
      <4>1. perf'[f].pid = perf[f].pid /\ perf'[f].gen = perf[f].gen
        BY <1>b
      <4>. QED BY <2>4, <4>1
    <3>5. gen[p] \in Nat
      BY DEF IInv, TypeOK, KernelTypeOK
    <3>6. p # 0
      BY DEF Pids
    <3>. QED BY <3>1, <3>2, <3>3, <3>4, <3>5, <3>6
  <2>5. CASE ~ (perf[f].pid = p /\ perf[f].gen = gen[p])
    <3>1. perf'[f] = perf[f]
      BY <1>b, <2>5
    <3>2. perf[f].count \in Nat
      BY <2>1 DEF Counter, Count
    <3>. QED BY <1>a, <2>2, <2>3, <2>5, <3>1, <3>2
  <2>. QED BY <2>4, <2>5
<1>1. TypeOK'
  <2>1. cpu' \in [Pids -> Count]
    BY DEF Run, IInv, TypeOK, KernelTypeOK, Count
  <2>2. perf' \in [Fds -> Counter]
    <3> SUFFICES ASSUME NEW f \in Fds PROVE perf'[f] \in Counter
      BY DEF Run
    <3>1. perf[f] \in Counter /\ perf[f].count \in Nat
      BY <1>b DEF IInv, TypeOK, KernelTypeOK
    <3>2. perf[f].pid = p /\ perf[f].gen = gen[p] => perf[f].count + 1 \in Count
      BY <1>a, <3>1 DEF Run, IInv, CountersInv, Count, Pids
    <3>. QED BY <1>b, <3>1, <3>2 DEF Counter
  <2>. QED BY <2>1, <2>2 DEF Run, IInv, TypeOK, KernelTypeOK
<1>3. CounterLedger'
  BY <1>a, <1>b DEF Run, IInv, CounterLedger
<1>4. CounterOnlyWhileReported'
  BY DEF Run, IInv, CounterOnlyWhileReported
<1>5. ScanInv'
  BY DEF IInv, ScanInv
<1>6. SteadyInv'
  BY DEF Run, IInv, SteadyInv, Scanning
<1>7. MonotoneInv'
  <2> SUFFICES ASSUME NEW q \in Pids PROVE Monotone(q)'
    BY DEF MonotoneInv
  <2>1. (CpuRead(q)' => CpuRead(q)) /\ (IoRead(q)' => IoRead(q))
    BY DEF CpuRead, IoRead
  <2>2. cpu'[q] \in Nat /\ cpu[q] <= cpu'[q] /\ io'[q] = io[q]
    BY <1>a
  <2>. QED BY <2>1, <2>2, SampleNumbers, MonotoneKept
<1>8. BookedInv'
  BY DEF IInv, BookedInv, Booked, LastReported, prev
<1>. QED BY <1>1, <1>2, <1>3, <1>4, <1>5, <1>6, <1>7, <1>8 DEF IInv

\* A process does I/O.
LEMMA DoIoStep ==
  ASSUME IInv, NEW p \in Pids, DoIo(p), UNCHANGED monitorVars
  PROVE  IInv'
<1> USE KernelAssumption DEF monitorVars
<1>1. TypeOK'
  <2>1. io' \in [Pids -> Count]
    BY DEF DoIo, IInv, TypeOK, KernelTypeOK, Count
  <2>. QED BY <2>1 DEF DoIo, IInv, TypeOK, KernelTypeOK
<1>2. CountersInv'
  BY DEF DoIo, IInv, CountersInv
<1>3. CounterLedger'
  BY DEF DoIo, IInv, CounterLedger
<1>4. CounterOnlyWhileReported'
  BY DEF DoIo, IInv, CounterOnlyWhileReported
<1>5. ScanInv'
  BY DEF IInv, ScanInv
<1>6. SteadyInv'
  BY DEF DoIo, IInv, SteadyInv, Scanning
<1>7. MonotoneInv'
  <2> SUFFICES ASSUME NEW q \in Pids PROVE Monotone(q)'
    BY DEF MonotoneInv
  <2>1. (CpuRead(q)' => CpuRead(q)) /\ (IoRead(q)' => IoRead(q))
    BY DEF CpuRead, IoRead
  <2>2. io'[q] \in Nat /\ io[q] <= io'[q] /\ cpu'[q] = cpu[q]
    BY DEF DoIo, IInv, TypeOK, KernelTypeOK, Count
  <2>. QED BY <2>1, <2>2, SampleNumbers, MonotoneKept
<1>8. BookedInv'
  BY DEF IInv, BookedInv, Booked, LastReported, prev
<1>. QED BY <1>1, <1>2, <1>3, <1>4, <1>5, <1>6, <1>7, <1>8 DEF IInv

-----------------------------------------------------------------------------
\* Every step of Sampler keeps IInv.
LEMMA NextIInv == IInv /\ [Next]_vars => IInv'
<1> SUFFICES ASSUME IInv, [Next]_vars PROVE IInv'
  OBVIOUS
<1>1. CASE Environment
  BY <1>1, StartStep, ExitStep, RunStep, DoIoStep DEF Environment
<1>2. CASE Monitor
  BY <1>2, ScanKnownStep, ScanNewStep, EndScanStep, ReadStatStep, ReadStatusStep,
     ReadIoStep, ReadFailsStep, ReadSmapsStep, SmapsFailsStep, OpenCounterStep,
     ReadCounterStep, WriteStatsStep, NextCycleStep DEF Monitor
<1>3. CASE UNCHANGED vars
  BY <1>3 DEF vars, kernelVars, monitorVars, IInv, TypeOK, KernelTypeOK,
              CountersInv, CounterLedger, CounterOnlyWhileReported, ScanInv,
              SteadyInv, Scanning, MonotoneInv, Monotone, CpuRead, IoRead, BookedInv,
              Booked, LastReported, prev
<1>. QED BY <1>1, <1>2, <1>3 DEF Next, Halted

\* The inductive invariant holds in every reachable state.
THEOREM Invariant == Spec => []IInv
  BY InitIInv, NextIInv, PTL DEF Spec

\* The variables of the sampler keep their types: no row has a negative figure and
\* no sample leaves the range of the counters, whatever pids are reused.
THEOREM TypeCorrect == Spec => []TypeOK
<1>1. IInv => TypeOK
  BY DEF IInv
<1>. QED BY <1>1, Invariant, PTL

\* Every open perf counter is held by the node of the process it counts, and by no
\* other (read_proc_pid_mem against clear_position).
THEOREM LedgerBalanced == Spec => []CounterLedger
<1>1. IInv => CounterLedger
  BY DEF IInv
<1>. QED BY <1>1, Invariant, PTL

\* After write_stat only the processes it reported hold a counter descriptor.
THEOREM CountersGivenBack == Spec => []CounterOnlyWhileReported
<1>1. IInv => CounterOnlyWhileReported
  BY DEF IInv
<1>. QED BY <1>1, Invariant, PTL

\* The I/O of the rows of a process read by every scan adds up to its latest sample,
\* although only two samples are kept and idle cycles write nothing.
THEOREM UsageConserved == Spec => []UsageBookedOnce
<1>1. IInv => UsageBookedOnce
  <2> SUFFICES ASSUME IInv, pc = "sleep", NEW p \in nodes, steady[p]
               PROVE  booked[p] = pst[p][curr].io
    BY DEF UsageBookedOnce
  <2>1. p \in Pids
    BY DEF IInv, TypeOK
  <2>. QED BY <2>1 DEF IInv, BookedInv, Booked, LastReported
<1>. QED BY <1>1, Invariant, PTL

=============================================================================
