---------------------------- MODULE SystemStats ----------------------------
(***************************************************************************)
(* The figures of the whole system, and how they relate to those of the     *)
(* processes: sys_stats[3] of ptop.c, filled in the course of a cycle by    *)
(* read_stat_cpu, read_cpufreq_stats, stat_sysmem_stats, stat_sysnet_stats  *)
(* and write_stat, and stored by write_system_stats.                        *)
(*                                                                          *)
(* Every file is read at a moment of its own, and the machine's counters    *)
(* move on from read to read.  The processes are here the ones that live    *)
(* all the time; those that come and go are in Sampler.  Each row is stored *)
(* by a statement of its own, whose failure is ignored.                     *)
(***************************************************************************)
EXTENDS Counters, CpuPower

CONSTANTS
  MaxProc,      \* processes are 1 .. MaxProc, in the order of the walk
  Width,        \* what an u32 counts to
  Max32,        \* MAXU32VAL
  KB,           \* bytes in a kilobyte
  MaxWork,      \* bound: what all counters of the machine advance by together
  MaxFails      \* bound: statements that fail

ASSUME SystemStatsAssumption ==
  /\ MaxProc \in Nat \ {0}
  /\ Width \in Nat \ {0}
  /\ Max32 \in 0 .. Width - 1
  /\ KB \in Nat \ {0}
  /\ MaxWork \in Nat
  /\ MaxFails \in Nat
  /\ MaxWork <= MaxVal /\ Width <= MaxVal     \* see MaxVal
  /\ MaxWork < Width64                        \* an u64 never wraps

VARIABLES
  pc,           \* the next read or write of the cycle
  curr,         \* the half that is filled
  at,           \* the process the scan or the walk has got to
  busy, ticks,  \* /proc/stat: time spent in processes, all time
  net,          \* /proc/net/dev: what the wireless interface has counted
  io,           \* io[h][p]: half h of the samples of process p
  sys,          \* sys[h]: sys_stats[0] and sys_stats[1]
  row,          \* sys_stats[2], the row that is stored
  rows,         \* rows of process_info stored in this cycle, added up
  \* History, not in the program:
  work,         \* what all counters have advanced by
  booked,       \* all rows of sys_info, added up
  linked,       \* the interface has been read in every cycle
  steady,       \* in this cycle all processes were Ordinary
  failed,       \* statements that failed: insert_sys_info, insert_ps
  stored,       \* the row of this cycle is in sys_info
  whole         \* those of all its processes are in process_info

samples == <<io, sys, row, rows>>
outcome == <<failed, stored, whole>>
history == <<booked, linked, steady, outcome>>
statVars == <<pc, curr, at, busy, ticks, net, samples, work, history, powerVars>>

Procs == 1 .. MaxProc
prev  == 1 - curr
machine == <<busy, ticks, net>>

NoInfo == [run |-> 0, itv |-> 0, net |-> 0, mem |-> 0, rd |-> 0, wr |-> 0]
NoIo   == [rd |-> 0, wr |-> 0, cw |-> 0]
NoRows == [rd |-> 0, wr |-> 0, rdKB |-> 0]

Info   == [run: Nat, itv: Nat, net: Nat, mem: Nat, rd: Nat, wr: Nat]
IoInfo == [rd: Nat, wr: Nat, cw: Nat]

SysTypeOK ==
  /\ pc \in {"stat", "scan", "freq", "mem", "net", "walk", "store", "pause"}
  /\ curr \in 0 .. 1
  /\ at \in Procs
  /\ busy \in Nat /\ ticks \in Nat /\ net \in Nat
  /\ io \in [0 .. 1 -> [Procs -> IoInfo]]
  /\ sys \in [0 .. 1 -> Info]
  /\ row \in Info
  /\ rows \in [rd: Nat, wr: Nat, rdKB: Nat]
  /\ work \in 0 .. MaxWork
  /\ booked \in [run: Nat, mem: Nat, net: Nat]
  /\ linked \in BOOLEAN /\ steady \in BOOLEAN
  /\ failed \in [sys: Nat, ps: Nat] /\ failed.sys + failed.ps <= MaxFails
  /\ stored \in BOOLEAN /\ whole \in BOOLEAN

SysInit ==
  /\ pc = "stat"
  /\ curr = 1
  /\ at = 1
  /\ busy = 0 /\ ticks = 0 /\ net = 0
  /\ io = [h \in 0 .. 1 |-> [p \in Procs |-> NoIo]]
  /\ sys = [h \in 0 .. 1 |-> NoInfo]
  /\ row = NoInfo
  /\ rows = NoRows
  /\ work = 0
  /\ booked = [run |-> 0, mem |-> 0, net |-> 0]
  /\ linked = TRUE
  /\ steady = TRUE
  /\ failed = [sys |-> 0, ps |-> 0]
  /\ stored = FALSE /\ whole = TRUE
  /\ PowerInit

-----------------------------------------------------------------------------
Advance == 0 .. MaxWork - work
Works(n) == work' = work + n /\ work' <= MaxWork

\* subcount(newval, oldval): its arguments are u32.
SubCount32(new, old) ==
  LET n == new % Width
      o == old % Width
  IN  IF n >= o THEN n - o ELSE ((Max32 - o) + n) % Width

\* memset(&sys_stats[curr])
Reset == NoInfo

\* read_stat_cpu: runtime is user + sys - guest, itv all but guest, both u32.
ReadStat ==
  /\ pc = "stat"
  /\ \E run, other \in Advance :
       /\ Works(run + other)
       /\ busy' = busy + run
       /\ ticks' = ticks + run + other
  /\ sys' = [sys EXCEPT ![curr] =
               [Reset EXCEPT !.run = busy' % Width, !.itv = ticks' % Width]]
  /\ rows' = NoRows
  /\ steady' = TRUE /\ stored' = FALSE /\ whole' = TRUE
  /\ at' = 1
  /\ pc' = "scan"
  /\ UNCHANGED <<curr, net, io, row, booked, linked, failed, powerVars>>

\* The scan or the walk goes on to the next process.
Onward(then) ==
  IF at < MaxProc THEN at' = at + 1 /\ pc' = pc ELSE at' = 1 /\ pc' = then

\* read_proc_pid_io of one process.
ScanProcess ==
  /\ pc = "scan"
  /\ \E r, w, c \in Advance :
       /\ Works(r + w + c)
       /\ io' = [io EXCEPT ![curr][at] = [rd |-> io[prev][at].rd + r,
                                          wr |-> io[prev][at].wr + w,
                                          cw |-> io[prev][at].cw + c]]
  /\ Onward("freq")
  /\ UNCHANGED <<curr, machine, sys, row, rows, history, powerVars>>

\* read_cpufreq_stats
ReadFreq ==
  /\ pc = "freq"
  /\ \E t \in [Freqs -> Advance], n \in Advance :
       n = SumFunction(t) /\ Works(n) /\ ReadCpufreq(t)
  /\ pc' = "mem"
  /\ UNCHANGED <<curr, at, machine, samples, history>>

\* stat_sysmem_stats: the sum of the counters of all cpus.
ReadMem ==
  /\ pc = "mem"
  /\ \E m \in Advance :
       /\ Works(m)
       /\ sys' = [sys EXCEPT ![curr].mem = sys[prev].mem + m]
  /\ pc' = "net"
  /\ UNCHANGED <<curr, at, machine, io, row, rows, history, powerVars>>

\* stat_sysnet_stats: nothing, if one of its two files cannot be opened or names no
\* such interface.
ReadNet ==
  /\ pc = "net"
  /\ \E n \in Advance, up \in BOOLEAN :
       /\ Works(n)
       /\ net' = net + n
       /\ sys' = [sys EXCEPT ![curr].net = IF up THEN net' ELSE 0]
       /\ linked' = (linked /\ up)
  /\ pc' = "walk"
  /\ UNCHANGED <<curr, at, busy, ticks, io, row, rows, booked, steady, outcome, powerVars>>

-----------------------------------------------------------------------------
\* Processor time of the cycle, the divisor of all percentages.
Interval == SubCount(sys[curr].run, sys[prev].run)

\* The difference of two samples, figure by figure.
Diff(sub(_, _), field) == sub(io[curr][at][field], io[prev][at][field])

LesserOf(a, b) == IF a <= b THEN a ELSE b

\* Mutant: cancelled writes are not taken off.
WrittenByAll == Diff(SubCount, "wr")

\* The row of a process: no more is cancelled than was written.
Written ==
  LET w == Diff(SubCount, "wr") IN w - LesserOf(Diff(SubCount, "cw"), w)

\* Mutant: a kilobyte begun is one.
InKBUp(bytes) == (bytes + KB - 1) \div KB

\* rKB / 1024 of DiskEnergy and systemEnergy.
InKB(bytes) == bytes \div KB

\* This process takes part in no overflow and cancels no more than it has written.
Ordinary ==
  /\ \A field \in {"rd", "wr", "cw"} :
       io[curr][at][field] \div Width = io[prev][at][field] \div Width
  /\ io[curr][at].cw - io[prev][at].cw <= io[curr][at].wr - io[prev][at].wr

\* A statement that fails.
Fails(insert) ==
  /\ failed' = [failed EXCEPT ![insert] = @ + 1]
  /\ failed'.sys + failed'.ps <= MaxFails

\* write_stat for one process.  One that did nothing is passed over; it would add
\* zeros.  insert_ps may fail, and does with no processor time to divide by, when the
\* row holds inf or nan; the totals of the system have been added to before.
WalkProcess ==
  /\ pc = "walk"
  /\ sys' = [sys EXCEPT
       ![curr].rd = @ + Diff(SubCount32, "rd"),
       ![curr].wr = @ + ((Diff(SubCount32, "wr") - Diff(SubCount32, "cw")) % Width)]
  /\ \/ /\ Interval # 0
        /\ rows' = [rd   |-> rows.rd + Diff(SubCount, "rd"),
                    wr   |-> rows.wr + Written,
                    rdKB |-> rows.rdKB + InKB(Diff(SubCount, "rd"))]
        /\ UNCHANGED <<failed, whole>>
     \/ /\ IF Interval = 0 THEN UNCHANGED failed ELSE Fails("ps")
        /\ rows' = rows
        /\ whole' = FALSE
  /\ steady' = (steady /\ Ordinary)
  /\ Onward("store")
  /\ UNCHANGED <<curr, machine, io, row, work, booked, linked, stored, powerVars>>

RowField(field) == SubCount(sys[curr][field], sys[prev][field])

\* Mutant: the line of runtime is missing.
DifferencesButRun ==
  [sys[curr] EXCEPT !.net = RowField("net"), !.mem = RowField("mem"),
                    !.itv = RowField("itv") % Width]

\* What is stored: itv and runtime are u32; disk figures and power are those of the
\* cycle already.
Differences ==
  [sys[curr] EXCEPT !.net = RowField("net"), !.mem = RowField("mem"),
                    !.run = RowField("run") % Width,
                    !.itv = RowField("itv") % Width]

\* write_system_stats and insert_sys_info, which may fail: what the row holds is lost,
\* for the next one starts from the sample of this cycle.
WriteSystem ==
  /\ pc = "store"
  /\ row' = Differences
  /\ stored' \in BOOLEAN
  /\ IF stored' THEN UNCHANGED failed ELSE Fails("sys")
  /\ LET more(field) == IF stored' THEN row'[field] ELSE 0
     IN  booked' = [run |-> IF ticks < Width THEN booked.run + more("run") ELSE 0,
                    mem |-> booked.mem + more("mem"),
                    net |-> IF linked THEN booked.net + more("net") ELSE 0]
  /\ pc' = "pause"
  /\ UNCHANGED <<curr, at, machine, io, sys, rows, work, linked, steady, whole, powerVars>>

\* Mutant: the half is not changed.
OtherHalfNot == curr

\* curr ^= 1
OtherHalf == 1 - curr

\* pause()
Pause ==
  /\ pc = "pause"
  /\ curr' = OtherHalf
  /\ pc' = "stat"
  /\ UNCHANGED <<at, machine, samples, work, history, powerVars>>

SysNext ==
  \/ ReadStat \/ ScanProcess \/ ReadFreq \/ ReadMem \/ ReadNet
  \/ WalkProcess \/ WriteSystem \/ Pause

SysSpec == SysInit /\ [][SysNext]_statVars

-----------------------------------------------------------------------------
(***************************************************************************)
(* Properties.                                                              *)
(***************************************************************************)

\* The rows of sys_info add up to the counters of the machine as they were last read
\* (write_system_stats): nothing is stored twice, although each figure is read at a
\* moment of its own and only one earlier sample is kept, and nothing is lost but the
\* rows whose statements failed (insert_sys_info).  Of the times as long as they fit an
\* u32, of the network while the interface can be read.
SystemBookedOnce ==
  pc = "pause" =>
    /\ booked.mem <= sys[curr].mem
    /\ ticks < Width => booked.run <= busy
    /\ linked => booked.net <= net
    /\ failed.sys = 0 => /\ booked.mem = sys[curr].mem
                         /\ ticks < Width => booked.run = busy
                         /\ linked => booked.net = net

\* In a steady cycle whose row is stored in sys_info the processes have read and written
\* no more than the system (write_stat), and the same if no insert_ps has failed or
\* been refused, although one table is counted with subcount in u32 and the other with
\* u64_subcount.
DiskTablesAgree ==
  pc = "pause" /\ steady /\ stored =>
    /\ rows.rd <= row.rd /\ rows.wr <= row.wr
    /\ whole => row.rd = rows.rd /\ row.wr = rows.wr

\* What the processes are charged for reading is no more than the total displayed
\* above them, if there is one, though DiskEnergy rounds each row and systemEnergy
\* their sum.
DiskChargeWithinTotal ==
  pc = "pause" /\ steady /\ stored => rows.rdKB <= InKB(row.rd)

\* runtime / itv, by which CPUEnergy scales the power, is at most one.
RunShareBounded == pc = "pause" /\ ticks < Width => row.run <= row.itv

\* subcount takes "into account the possibility of overflow of a 32-bit
\* kernel-counter" (common.c:217): a counter that crosses the width once between two
\* samples makes no difference, and the two tables agree on what was read.
OverflowHandled ==
  /\ pc = "pause" /\ stored /\ whole
  /\ \A p \in Procs : io[curr][p].rd - io[prev][p].rd < Width
  => row.rd = rows.rd

-----------------------------------------------------------------------------
(***************************************************************************)
(* The inductive invariant.                                                 *)
(***************************************************************************)

\* The half that the last row of sys_info was about.
Stored == IF pc = "pause" THEN curr ELSE prev

\* What the rows add up to, and what the counters can have got to.
BookedInv ==
  /\ booked.mem <= sys[Stored].mem
  /\ ticks < Width => booked.run <= sys[Stored].run
  /\ linked => booked.net <= sys[Stored].net
  /\ failed.sys = 0 => /\ booked.mem = sys[Stored].mem
                       /\ ticks < Width => booked.run = sys[Stored].run
                       /\ linked => booked.net = sys[Stored].net
  /\ linked /\ pc \in {"walk", "store", "pause"} => sys[curr].net = net
  /\ \A h \in 0 .. 1 : sys[h].net <= net
  /\ net <= work
  /\ pc \in {"net", "walk", "store"} => sys[prev].mem <= sys[curr].mem

\* The times of the last two reads of /proc/stat.
TimesInv ==
  /\ busy <= ticks
  /\ IF pc = "stat"
       THEN sys[prev].run = busy % Width /\ sys[prev].itv = ticks % Width
       ELSE /\ sys[curr].run = busy % Width /\ sys[curr].itv = ticks % Width
            /\ sys[prev].run < Width /\ sys[prev].itv < Width
            /\ ticks < Width => /\ sys[prev].run <= busy
                                /\ sys[prev].itv <= ticks
                                /\ busy - sys[prev].run <= ticks - sys[prev].itv

\* Counters of a process do not run backwards between the scans.
IoInv ==
  pc # "stat" =>
    \A p \in Procs : (pc = "scan" => p < at) =>
      \A field \in {"rd", "wr", "cw"} : io[prev][p][field] <= io[curr][p][field]

\* What the walk has added up so far, in both tables and in kilobytes.
WalkInv ==
  /\ pc # "stat" /\ steady =>
       /\ rows.rd <= sys[curr].rd /\ rows.wr <= sys[curr].wr
       /\ whole => sys[curr].rd = rows.rd /\ sys[curr].wr = rows.wr
  /\ KB * rows.rdKB <= rows.rd
  /\ pc = "pause" => row.rd = sys[curr].rd /\ row.wr = sys[curr].wr

SysInv == SysTypeOK /\ BookedInv /\ TimesInv /\ IoInv /\ WalkInv /\ RunShareBounded

=============================================================================
