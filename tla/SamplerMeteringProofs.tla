----------------------- MODULE SamplerMeteringProofs -----------------------
(***************************************************************************)
(* Sampler implements Metering, proved for every value of the constants:    *)
(* under the inductive invariant each step maps to a step of the abstract   *)
(* meter or leaves it unchanged.                                            *)
(***************************************************************************)
EXTENDS SamplerMetering, SamplerProofs

\* A step that does not touch p's history, its position in the scan or the samples
\* of it that count leaves what the meter shows of p alone.
LEMMA ShownKept ==
  ASSUME NEW p \in Pids, steady'[p] = steady[p], IoRead(p)' = IoRead(p),
         steady[p] /\ IoRead(p) => pst'[p][curr'].io = pst[p][curr].io,
         steady[p] /\ ~ IoRead(p) => pst'[p][prev'].io = pst[p][prev].io
  PROVE  LastSeen(p)' = LastSeen(p)
  BY DEF LastSeen

\* Initially nobody is metered and nothing is billed.
LEMMA InitMeters == Init => Meter!MeterInit
  BY DEF Init, KernelInit, Meter!MeterInit, LastSeen

-----------------------------------------------------------------------------
\* Steps that read nothing of the I/O figures are invisible.
LEMMA QuietSteps ==
  ASSUME IInv,
         \/ \E p \in Pids : ScanKnown(p)
         \/ EndScan \/ ReadStat \/ ReadStatus \/ ReadSmaps \/ SmapsFails
         \/ OpenCounter \/ ReadCounter \/ NextCycle
         \/ \E p \in Pids : Run(p) /\ UNCHANGED monitorVars
  PROVE  UNCHANGED Meter!meterVars
<1>0. /\ UNCHANGED <<io, steady, booked>>
      /\ curr \in {0, 1} /\ prev \in {0, 1} /\ pst \in [Pids -> [{0, 1} -> PidStats]]
  BY DEF ScanKnown, EndScan, ReadStat, ReadStatus, ReadSmaps, SmapsFails, OpenCounter,
         ReadCounter, NextCycle, Run, kernelVars, monitorVars, IInv, TypeOK, prev
<1>1. ASSUME NEW q \in Pids PROVE LastSeen(q)' = LastSeen(q)
  <2>1. CASE \E p \in Pids : ScanKnown(p)
    <3> PICK p \in Pids : ScanKnown(p)
      BY <2>1
    <3>1. IoRead(q)' = IoRead(q)
      <4>1. p \notin fresh
        BY KernelAssumption DEF ScanKnown, NextEntry, IInv, TypeOK, ScanInv, Pids
      <4>. QED BY <4>1 DEF ScanKnown, NextEntry, IoRead
    <3>2. IoRead(q) => q # p
      BY KernelAssumption DEF ScanKnown, NextEntry, IoRead, IInv, TypeOK, ScanInv, Pids
    <3>. QED BY <1>0, <3>1, <3>2, ShownKept DEF ScanKnown, prev
  <2>2. CASE EndScan \/ ReadSmaps \/ SmapsFails \/ OpenCounter
    <3>1. IoRead(q)' = IoRead(q) /\ UNCHANGED <<pst, curr>>
      BY <2>2 DEF EndScan, ReadSmaps, SmapsFails, OpenCounter, IoRead
    <3>. QED BY <1>0, <3>1, ShownKept DEF prev
  <2>3. CASE ReadStat \/ ReadStatus
    <3>1. IoRead(q)' = IoRead(q) /\ (IoRead(q) => q # pid) /\ curr' = curr
      BY <2>3 DEF ReadStat, ReadStatus, IoRead
    <3>2. \A b \in {0, 1} : b # curr \/ q # pid => pst'[q][b].io = pst[q][b].io
      BY <1>0, <2>3 DEF ReadStat, ReadStatus
    <3>. QED BY <1>0, <3>1, <3>2, ShownKept DEF prev
  <2>4. CASE ReadCounter
    <3>1. IoRead(q)' = IoRead(q) /\ curr' = curr
      BY <2>4 DEF ReadCounter, IoRead
    <3>2. \A b \in {0, 1} : pst'[q][b].io = pst[q][b].io
      <4>1. pst[q][curr] \in PidStats
        BY <1>0
      <4>. QED BY <1>0, <2>4, <4>1 DEF ReadCounter, PidStats
    <3>. QED BY <1>0, <3>1, <3>2, ShownKept DEF prev
  <2>5. CASE NextCycle
    <3>1. ~ IoRead(q)' /\ prev' = curr /\ pst' = pst
      BY <1>0, <2>5 DEF NextCycle, IoRead, prev
    <3>2. steady[q] => IoRead(q)
      BY <2>5 DEF NextCycle, IInv, SteadyInv, IoRead
    <3>. QED BY <1>0, <3>1, <3>2 DEF LastSeen
  <2>6. CASE \E p \in Pids : Run(p) /\ UNCHANGED monitorVars
    <3>1. IoRead(q)' = IoRead(q) /\ UNCHANGED <<pst, curr>>
      BY <2>6 DEF monitorVars, IoRead
    <3>. QED BY <1>0, <3>1, ShownKept DEF prev
  <2>. QED BY <2>1, <2>2, <2>3, <2>4, <2>5, <2>6
<1>. QED BY <1>0, <1>1 DEF Meter!meterVars

\* A new node enters metering with nothing seen and nothing billed.
LEMMA ScanNewEnters ==
  ASSUME IInv, NEW p \in Pids, ScanNew(p)
  PROVE  Meter!Enter(p)
<1>0. /\ curr \in {0, 1} /\ prev \in {0, 1} /\ curr' = curr /\ prev' = prev
      /\ steady \in [Pids -> BOOLEAN] /\ ~ steady[p] /\ io' = io
      /\ booked \in [Pids -> Nat]
  BY DEF ScanNew, kernelVars, prev, IInv, TypeOK, ScanInv
<1>1. \A q \in Pids \ {p} : pst'[q] = pst[q] /\ steady'[q] = steady[q]
                            /\ booked'[q] = booked[q]
  BY <1>0 DEF ScanNew, IInv, TypeOK
<1>2. steady'[p] /\ booked'[p] = 0 /\ pst'[p][prev] = NoStats /\ ~ IoRead(p)'
  BY <1>0 DEF ScanNew, IInv, TypeOK, IoRead
<1>3. LastSeen(p)' = 0
  BY <1>0, <1>2 DEF LastSeen, NoStats
<1>4. ASSUME NEW q \in Pids \ {p} PROVE LastSeen(q)' = LastSeen(q)
  <2>1. IoRead(q)' = IoRead(q)
    BY DEF ScanNew, NextEntry, IoRead
  <2>. QED BY <1>0, <1>1, <2>1, ShownKept
<1>5. {q \in Pids : steady'[q]} = {q \in Pids : steady[q]} \cup {p}
  BY <1>1, <1>2
<1>6. [q \in Pids |-> LastSeen(q)'] = [[q \in Pids |-> LastSeen(q)] EXCEPT ![p] = 0]
  BY <1>3, <1>4
<1>7. booked' = [booked EXCEPT ![p] = 0]
  BY DEF ScanNew
<1>. QED BY <1>0, <1>5, <1>6, <1>7 DEF Meter!Enter

\* A step that loses p's history and leaves the history of all others alone takes p
\* out of metering.
LEMMA LoseLeaves ==
  ASSUME IInv, NEW p \in Pids, Lose(p), io' = io,
         \A q \in Pids \ {p} : LastSeen(q)' = LastSeen(q)
  PROVE  Meter!Leave(p)
<1>1. /\ \A q \in Pids \ {p} : steady'[q] = steady[q] /\ booked'[q] = booked[q]
      /\ ~ steady'[p] /\ booked'[p] = 0
  BY DEF Lose, IInv, TypeOK
<1>2. LastSeen(p)' = 0
  BY <1>1 DEF LastSeen
<1>3. {q \in Pids : steady'[q]} = {q \in Pids : steady[q]} \ {p}
  BY <1>1
<1>4. [q \in Pids |-> LastSeen(q)'] = [[q \in Pids |-> LastSeen(q)] EXCEPT ![p] = 0]
  BY <1>2
<1>5. booked' = [booked EXCEPT ![p] = 0]
  BY DEF Lose
<1>. QED BY <1>3, <1>4, <1>5 DEF Meter!Leave

\* So does a failed read.
LEMMA ReadFailsLeaves ==
  ASSUME IInv, ReadFails
  PROVE  \E p \in Pids : Meter!Leave(p)
<1>0. /\ pid \in Pids /\ curr \in {0, 1} /\ prev \in {0, 1} /\ curr' = curr /\ prev' = prev
      /\ pst \in [Pids -> [{0, 1} -> PidStats]] /\ io' = io
  BY DEF ReadFails, kernelVars, prev, IInv, TypeOK, ScanInv, Reading
<1> PICK p \in Pids : p = pid
  BY <1>0
<1>1. ASSUME NEW q \in Pids \ {p} PROVE LastSeen(q)' = LastSeen(q)
  <2>1. IoRead(q)' = IoRead(q) /\ pst'[q] = pst[q] /\ steady'[q] = steady[q]
    BY <1>0 DEF ReadFails, Lose, IoRead, IInv, TypeOK
  <2>. QED BY <1>0, <2>1, ShownKept
<1>2. Lose(p)
  BY DEF ReadFails, Lose
<1>3. Meter!Leave(p)
  BY <1>0, <1>1, <1>2, LoseLeaves
<1>. QED BY <1>3

\* And an exit.
LEMMA ExitLeaves ==
  ASSUME IInv, NEW p \in Pids, Exit(p), Lose(p),
         UNCHANGED <<nodes, fd, pst, curr, pc, pid, rows, fresh>>
  PROVE  Meter!Leave(p)
<1>1. ASSUME NEW q \in Pids \ {p} PROVE LastSeen(q)' = LastSeen(q)
  <2>1. IoRead(q)' = IoRead(q) /\ steady'[q] = steady[q] /\ prev' = prev
    BY DEF Lose, IoRead, IInv, TypeOK, prev
  <2>. QED BY <2>1, ShownKept
<1>. QED BY <1>1, LoseLeaves DEF Exit

\* The io file is the reading of a metered process.
LEMMA ReadIoReads ==
  ASSUME IInv, ReadIo
  PROVE  (\E p \in Pids : Meter!Read(p)) \/ UNCHANGED Meter!meterVars
<1>0. /\ pid \in Pids /\ curr \in {0, 1} /\ prev \in {0, 1} /\ curr' = curr /\ prev' = prev
      /\ pst \in [Pids -> [{0, 1} -> PidStats]] /\ UNCHANGED <<io, steady, booked>>
  BY DEF ReadIo, kernelVars, prev, IInv, TypeOK, ScanInv, Reading
<1> PICK p \in Pids : p = pid
  BY <1>0
<1>1. ASSUME NEW q \in Pids \ {p} PROVE LastSeen(q)' = LastSeen(q)
  <2>1. IoRead(q)' = IoRead(q) /\ pst'[q] = pst[q]
    BY <1>0 DEF ReadIo, IoRead
  <2>. QED BY <1>0, <2>1, ShownKept
<1>2. CASE steady[p]
  <2>1. IoRead(p)'
    BY <1>0 DEF ReadIo, IoRead, IInv, ScanInv, Reading
  <2>2. pst'[p][curr].io = io[p]
    <3>1. pst[p][curr] \in PidStats
      BY <1>0
    <3>. QED BY <1>0, <3>1 DEF ReadIo, PidStats
  <2>3. LastSeen(p)' = io[p]
    BY <1>0, <1>2, <2>1, <2>2 DEF LastSeen
  <2>4. [q \in Pids |-> LastSeen(q)']
          = [[q \in Pids |-> LastSeen(q)] EXCEPT ![p] = io[p]]
    BY <1>1, <2>3
  <2>5. Meter!Read(p)
    BY <1>0, <1>2, <2>4 DEF Meter!Read
  <2>. QED BY <2>5
<1>3. CASE ~ steady[p]
  <2>1. LastSeen(p)' = LastSeen(p)
    BY <1>0, <1>3 DEF LastSeen
  <2>2. \A q \in Pids : LastSeen(q)' = LastSeen(q)
    BY <1>1, <2>1
  <2>. QED BY <1>0, <2>2 DEF Meter!meterVars
<1>. QED BY <1>2, <1>3

\* write_stat is the report.
LEMMA WriteStatsReports ==
  ASSUME IInv, IInv', WriteStats
  PROVE  Meter!Report
<1>0. /\ curr \in {0, 1} /\ prev \in {0, 1} /\ curr' = curr /\ prev' = prev
      /\ UNCHANGED <<io, steady, fresh>> /\ pc = "write" /\ pc' = "sleep"
  BY DEF WriteStats, prev, IInv, TypeOK
<1>1. ASSUME NEW q \in Pids
      PROVE  booked'[q] = LastSeen(q) /\ LastSeen(q)' = LastSeen(q)
  <2>1. CASE steady[q]
    <3>1. IoRead(q) /\ IoRead(q)'
      BY <1>0, <2>1 DEF IInv, SteadyInv, IoRead
    <3>2. pst'[q][curr].io = pst[q][curr].io
      BY <1>0 DEF WriteStats, IInv, TypeOK, PidStats
    <3>3. booked'[q] = pst'[q][curr].io
      <4>1. Booked(q)'
        BY DEF IInv, BookedInv
      <4>. QED BY <1>0, <2>1, <4>1 DEF Booked, LastReported
    <3>. QED BY <1>0, <2>1, <3>1, <3>2, <3>3 DEF LastSeen
  <2>2. CASE ~ steady[q]
    <3>1. booked'[q] = 0
      <4>1. Booked(q)'
        BY DEF IInv, BookedInv
      <4>. QED BY <1>0, <2>2, <4>1 DEF Booked
    <3>. QED BY <1>0, <2>2, <3>1 DEF LastSeen
  <2>. QED BY <2>1, <2>2
<1>2. booked' = [q \in Pids |-> LastSeen(q)]
  BY <1>1 DEF IInv, TypeOK
<1>. QED BY <1>0, <1>1, <1>2 DEF Meter!Report

\* A process starts under a pid that is not metered; a process does I/O.
LEMMA StartRenews ==
  ASSUME IInv, NEW p \in Pids, Start(p), UNCHANGED monitorVars
  PROVE  Meter!Renew(p)
<1>1. ~ steady[p]
  BY DEF Start, IInv, SteadyInv
<1>2. \A q \in Pids : LastSeen(q)' = LastSeen(q)
  BY DEF monitorVars, LastSeen, IoRead, prev
<1>. QED BY <1>1, <1>2 DEF Start, Meter!Renew, monitorVars

\* I/O of a process is use of its meter.
LEMMA DoIoUses ==
  ASSUME IInv, NEW p \in Pids, DoIo(p), UNCHANGED monitorVars
  PROVE  Meter!Use(p)
<1>1. \A q \in Pids : LastSeen(q)' = LastSeen(q)
  BY DEF monitorVars, LastSeen, IoRead, prev
<1>. QED BY <1>1 DEF DoIo, Meter!Use, monitorVars

-----------------------------------------------------------------------------
\* Every step of the sampler is a step of the meter, or invisible to it.
LEMMA NextMeters ==
  ASSUME IInv, IInv', [Next]_vars
  PROVE  [Meter!MeterNext]_(Meter!meterVars)
<1>1. CASE Environment
  <2>1. ASSUME NEW p \in Pids, Start(p) \/ Run(p) \/ DoIo(p), UNCHANGED monitorVars
        PROVE  [Meter!MeterNext]_(Meter!meterVars)
    BY <2>1, StartRenews, DoIoUses, QuietSteps DEF Meter!MeterNext
  <2>2. ASSUME NEW p \in Pids, Exit(p), Lose(p),
               UNCHANGED <<nodes, fd, pst, curr, pc, pid, rows, fresh>>
        PROVE  [Meter!MeterNext]_(Meter!meterVars)
    BY <2>2, ExitLeaves DEF Meter!MeterNext
  <2>. QED BY <1>1, <2>1, <2>2 DEF Environment
<1>2. CASE Monitor
  <2>1. CASE \E p \in Pids : ScanNew(p)
    BY <2>1, ScanNewEnters DEF Meter!MeterNext
  <2>2. CASE ReadIo
    BY <2>2, ReadIoReads DEF Meter!MeterNext
  <2>3. CASE ReadFails
    BY <2>3, ReadFailsLeaves DEF Meter!MeterNext
  <2>4. CASE WriteStats
    BY <2>4, WriteStatsReports DEF Meter!MeterNext
  <2>5. CASE \/ \E p \in Pids : ScanKnown(p)
             \/ EndScan \/ ReadStat \/ ReadStatus \/ ReadSmaps \/ SmapsFails
             \/ OpenCounter \/ ReadCounter \/ NextCycle
    BY <2>5, QuietSteps
  <2>. QED BY <1>2, <2>1, <2>2, <2>3, <2>4, <2>5 DEF Monitor
<1>3. CASE UNCHANGED vars
  BY <1>3 DEF vars, kernelVars, monitorVars, Meter!meterVars, LastSeen, IoRead, prev
<1>. QED BY <1>1, <1>2, <1>3 DEF Next, Halted

\* The sampler implements the abstract meter.
THEOREM MeteringRefinement == Spec => Metered
  BY InitMeters, Invariant, NextMeters, PTL DEF Spec, Metered, Meter!MeterSpec

=============================================================================
