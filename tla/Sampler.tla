------------------------------ MODULE Sampler ------------------------------
(***************************************************************************)
(* The sampling engine of ptop: read_process_stats and write_process_stats  *)
(* of ptop.c with the readers of pid_stats.c, the per-process perf counters *)
(* of eperf.c and the nodes of avltree.c they hang on.                      *)
(*                                                                          *)
(* Every cycle scans /proc.  Each pid found gets a node of the tree (once,  *)
(* nodes are never deleted) with two sample buffers and a counter           *)
(* descriptor; the scan fills pst_list[curr] file by file while processes   *)
(* run, exit and start, and then write_stat turns the difference between    *)
(* pst_list[curr] and pst_list[prev] of EVERY node into a row for the       *)
(* database.                                                                *)
(***************************************************************************)
EXTENDS Kernel, Counters

CONSTANT
  ClampTicks    \* a CPU time that drops by less than this is pulled up (100)

ASSUME SamplerAssumption ==
  /\ ClampTicks \in Nat
  /\ MaxCount <= MaxVal

VARIABLES
  nodes,        \* pids with a node in the tree
  fd,           \* fd[p]: the counter descriptor of the node, or NoFd
  pst,          \* pst[p][b]: the sample buffers pst_list[0], pst_list[1]
  curr,         \* the half of the double buffer being filled
  pc,           \* where the cycle is
  pid,          \* last pid readdir returned; the one being read
  rows,         \* the rows write_stat handed to insert_ps in this cycle
  \* History, not in the program:
  fresh,        \* pids whose node this cycle's scan has visited
  steady,       \* steady[p]: same process, read by every scan since inserted
  booked        \* booked[p]: I/O of p's rows since inserted, while steady

monitorVars == <<nodes, fd, pst, curr, pc, pid, rows, fresh, steady, booked>>
vars == <<kernelVars, monitorVars>>

NoFd == -1
prev == 1 - curr

PidStats == [pid: 0 .. MaxPid, cpu: Count, io: Count, acc: Count]
NoStats  == [pid |-> 0, cpu |-> 0, io |-> 0, acc |-> 0]
Row      == [pid: Pids, io: Nat, acc: Nat]

Reading == {"stat", "status", "io", "smaps", "open", "counter"}

TypeOK ==
  /\ KernelTypeOK
  /\ nodes \in SUBSET Pids
  /\ fd \in [Pids -> Fds \cup {NoFd}]
  /\ pst \in [Pids -> [{0, 1} -> PidStats]]
  /\ curr \in {0, 1}
  /\ pc \in Reading \cup {"readdir", "write", "sleep", "exited"}
  /\ pid \in 0 .. MaxPid
  /\ rows \subseteq Row
  /\ fresh \in SUBSET Pids
  /\ steady \in [Pids -> BOOLEAN]
  /\ booked \in [Pids -> Nat]

Init ==
  /\ KernelInit
  /\ nodes = {}
  /\ fd = [p \in Pids |-> NoFd]
  /\ pst = [p \in Pids |-> [b \in {0, 1} |-> NoStats]]
  /\ curr = 1
  /\ pc = "readdir"
  /\ pid = 0
  /\ rows = {}
  /\ fresh = {}
  /\ steady = [p \in Pids |-> FALSE]
  /\ booked = [p \in Pids |-> 0]

-----------------------------------------------------------------------------
\* Mutant: I/O does not count as activity.
IsActiveCpuOnly(old, new) ==
  IF new.pid = 0 THEN 0 ELSE IF new.cpu # old.cpu THEN 1 ELSE -1

\* is_active(pstj, psti): 0 no such process, 1 it did something, -1 idle.
IsActive(old, new) ==
  IF new.pid = 0 THEN 0
  ELSE IF new.cpu # old.cpu \/ new.io # old.io THEN 1 ELSE -1

\* The node's history ends: what it holds is no longer one process, read by
\* every scan.
Lose(p) ==
  /\ steady' = [steady EXCEPT ![p] = FALSE]
  /\ booked' = [booked EXCEPT ![p] = 0]

\* readdir returns p: /proc lists the live pids in ascending order.
NextEntry(p) ==
  /\ pc = "readdir"
  /\ p \in alive
  /\ p > pid
  /\ \A q \in alive : q > pid => p <= q

\* find() has the node: read_pid_stats begins by clearing the sample.
ScanKnown(p) ==
  /\ NextEntry(p)
  /\ p \in nodes
  /\ pst' = [pst EXCEPT ![p][curr] = NoStats]
  /\ pid' = p
  /\ pc' = "stat"
  /\ fresh' = fresh \cup {p}
  /\ UNCHANGED <<kernelVars, nodes, fd, curr, rows, steady, booked>>

\* find() has no node: insert() makes one, without counter, both samples zero.
ScanNew(p) ==
  /\ NextEntry(p)
  /\ p \notin nodes
  /\ nodes' = nodes \cup {p}
  /\ fd' = [fd EXCEPT ![p] = NoFd]
  /\ pst' = [pst EXCEPT ![p] = [b \in {0, 1} |-> NoStats]]
  /\ pid' = p
  /\ pc' = "stat"
  /\ fresh' = fresh \cup {p}
  /\ steady' = [steady EXCEPT ![p] = TRUE]
  /\ booked' = [booked EXCEPT ![p] = 0]
  /\ UNCHANGED <<kernelVars, curr, rows>>

\* readdir has no more entries.
EndScan ==
  /\ pc = "readdir"
  /\ ~ \E p \in alive : p > pid
  /\ pc' = "write"
  /\ UNCHANGED <<kernelVars, nodes, fd, pst, curr, pid, rows, fresh, steady,
                 booked>>

\* read_proc_pid_stat.
ReadStat ==
  /\ pc = "stat"
  /\ Readable(pid)
  /\ pst' = [pst EXCEPT ![pid][curr] = [@ EXCEPT !.pid = pid, !.cpu = cpu[pid]]]
  /\ pc' = "status"
  /\ UNCHANGED <<kernelVars, nodes, fd, curr, pid, rows, fresh, steady, booked>>

\* read_proc_pid_status.
ReadStatus ==
  /\ pc = "status"
  /\ Readable(pid)
  /\ pst' = [pst EXCEPT ![pid][curr] = [@ EXCEPT !.pid = pid]]
  /\ pc' = "io"
  /\ UNCHANGED <<kernelVars, nodes, fd, curr, pid, rows, fresh, steady, booked>>

\* read_proc_pid_io.
ReadIo ==
  /\ pc = "io"
  /\ Readable(pid)
  /\ pst' = [pst EXCEPT ![pid][curr] = [@ EXCEPT !.pid = pid, !.io = io[pid]]]
  /\ pc' = "smaps"
  /\ UNCHANGED <<kernelVars, nodes, fd, curr, pid, rows, fresh, steady, booked>>

\* Mutant: a failed read is tried again.
ReadFailsRetries ==
  /\ pc \in {"stat", "status", "io"}
  /\ ~ Readable(pid)
  /\ pst' = [pst EXCEPT ![pid][curr] = [@ EXCEPT !.pid = 0]]
  /\ pc' = "stat"
  /\ Lose(pid)
  /\ UNCHANGED <<kernelVars, nodes, fd, curr, pid, rows, fresh>>

\* One of the three cannot open its file: the scan marks the sample with pid 0
\* (what was read so far stays in it) and goes on with the next entry.
ReadFails ==
  /\ pc \in {"stat", "status", "io"}
  /\ ~ Readable(pid)
  /\ pst' = [pst EXCEPT ![pid][curr] = [@ EXCEPT !.pid = 0]]
  /\ pc' = "readdir"
  /\ Lose(pid)
  /\ UNCHANGED <<kernelVars, nodes, fd, curr, pid, rows, fresh>>

\* read_smaps.
ReadSmaps ==
  /\ pc = "smaps"
  /\ Readable(pid)
  /\ pc' = "open"
  /\ UNCHANGED <<kernelVars, nodes, fd, pst, curr, pid, rows, fresh, steady,
                 booked>>

\* read_smaps has no error return: it ends the program.
SmapsFails ==
  /\ pc = "smaps"
  /\ ~ Readable(pid)
  /\ pc' = "exited"
  /\ UNCHANGED <<kernelVars, nodes, fd, pst, curr, pid, rows, fresh, steady,
                 booked>>

\* create_perf_stat_counter(pid, FALSE), which yields -1 for a process that is
\* gone or when no descriptor is left.
PerfOpen(p) ==
  \/ /\ Readable(p)
     /\ \E f \in FreeFds :
          /\ IsLowest(f)
          /\ perf' = [perf EXCEPT ![f] = [pid |-> p, gen |-> gen[p], count |-> 0]]
          /\ fd' = [fd EXCEPT ![p] = f]
  \/ /\ ~ Readable(p)
     /\ fd' = [fd EXCEPT ![p] = NoFd]
     /\ UNCHANGED perf

\* Mutant: a counter is opened whether or not the node has one.
OpenCounterAlways ==
  /\ pc = "open"
  /\ pc' = "counter"
  /\ IF IsActive(pst[pid][prev], pst[pid][curr]) # 0
       THEN PerfOpen(pid)
       ELSE UNCHANGED <<perf, fd>>
  /\ UNCHANGED <<alive, gen, cpu, io, nodes, pst, curr, pid, rows, fresh,
                 steady, booked>>

\* read_proc_pid_mem opens a counter on a node that has none, when is_active
\* is not 0.
OpenCounter ==
  /\ pc = "open"
  /\ pc' = "counter"
  /\ IF IsActive(pst[pid][prev], pst[pid][curr]) # 0 /\ fd[pid] \notin Fds
       THEN PerfOpen(pid)
       ELSE UNCHANGED <<perf, fd>>
  /\ UNCHANGED <<alive, gen, cpu, io, nodes, pst, curr, pid, rows, fresh,
                 steady, booked>>

\* read_counter(p->fd), and the end of this pid.
ReadCounter ==
  /\ pc = "counter"
  /\ pst' = [pst EXCEPT ![pid][curr] =
               [@ EXCEPT !.acc = IF fd[pid] \in Fds THEN perf[fd[pid]].count ELSE 0]]
  /\ pc' = "readdir"
  /\ UNCHANGED <<kernelVars, nodes, fd, curr, pid, rows, fresh, steady, booked>>

-----------------------------------------------------------------------------
\* A CPU time slightly below the previous one is taken as equal to it.
Clamp(new, old) == IF new < old /\ old - new < ClampTicks THEN old ELSE new

Reported(p) == p \in nodes /\ IsActive(pst[p][prev], pst[p][curr]) > 0
\* Mutant: only the nodes of processes that are gone give their counter back.
DroppedIfGone(p) == p \in nodes /\ IsActive(pst[p][prev], pst[p][curr]) = 0
Dropped(p)  == p \in nodes /\ IsActive(pst[p][prev], pst[p][curr]) <= 0

\* Mutant: the row has the figures since the process started.
RowOfTotals(p) ==
  [pid |-> pst[p][curr].pid, io |-> pst[p][curr].io, acc |-> pst[p][curr].acc]

\* The row write_stat makes of a node: the columns that are plain differences, of
\* which io stands for read_bytes.  (Columns that are percentages or rates, as those
\* of the CPU times, are not in the row of the model.)
RowOf(p) ==
  LET new == pst[p][curr]
      old == pst[p][prev]
  IN [pid |-> new.pid,
      io  |-> SubCount(new.io, old.io),
      acc |-> IF new.acc > 0 THEN SubCount(new.acc, old.acc) ELSE 0]

\* Mutant: the descriptor is closed and remembered.
ClearPositionsKeepsFd(S) ==
  /\ perf' = [f \in Fds |-> IF \E p \in S : fd[p] = f THEN Free ELSE perf[f]]
  /\ UNCHANGED fd

\* clear_position(), on every node of the set S.
ClearPositions(S) ==
  /\ perf' = [f \in Fds |-> IF \E p \in S : fd[p] = f THEN Free ELSE perf[f]]
  /\ fd' = [p \in Pids |-> IF p \in S THEN NoFd ELSE fd[p]]

\* write_process_stats: write_stat walks the whole tree.
WriteStats ==
  /\ pc = "write"
  /\ rows' = {RowOf(p) : p \in {q \in nodes : Reported(q)}}
  /\ ClearPositions({p \in nodes : Dropped(p)})
  /\ pst' = [p \in Pids |->
               IF Reported(p)
                 THEN [pst[p] EXCEPT ![curr].cpu = Clamp(@, pst[p][prev].cpu)]
                 ELSE pst[p]]
  /\ booked' = [p \in Pids |->
                  IF Reported(p) /\ steady[p]
                    THEN booked[p] + RowOf(p).io
                    ELSE booked[p]]
  /\ pc' = "sleep"
  /\ UNCHANGED <<alive, gen, cpu, io, nodes, curr, pid, fresh, steady>>

\* Mutant: the halves of the double buffer are not swapped.
NextCycleSameHalf ==
  /\ pc = "sleep"
  /\ pid' = 0
  /\ fresh' = {}
  /\ rows' = {}
  /\ pc' = "readdir"
  /\ UNCHANGED <<kernelVars, nodes, fd, pst, curr, steady, booked>>

\* curr ^= 1; pause(); the next cycle opens /proc again.
NextCycle ==
  /\ pc = "sleep"
  /\ curr' = prev
  /\ pid' = 0
  /\ fresh' = {}
  /\ rows' = {}
  /\ pc' = "readdir"
  /\ UNCHANGED <<kernelVars, nodes, fd, pst, steady, booked>>

\* After exit() nothing happens any more.
Halted ==
  /\ pc = "exited"
  /\ UNCHANGED vars

-----------------------------------------------------------------------------
\* A process of the machine does something; the exit of one ends its history.
Environment ==
  \E p \in Pids :
    \/ (Start(p) \/ Run(p) \/ DoIo(p)) /\ UNCHANGED monitorVars
    \/ /\ Exit(p)
       /\ Lose(p)
       /\ UNCHANGED <<nodes, fd, pst, curr, pc, pid, rows, fresh>>

Monitor ==
  \/ \E p \in Pids : ScanKnown(p) \/ ScanNew(p)
  \/ EndScan
  \/ ReadStat \/ ReadStatus \/ ReadIo \/ ReadFails
  \/ ReadSmaps \/ SmapsFails \/ OpenCounter \/ ReadCounter
  \/ WriteStats \/ NextCycle

Next == Environment \/ Monitor \/ Halted

Spec == Init /\ [][Next]_vars /\ WF_vars(Monitor)

-----------------------------------------------------------------------------
(***************************************************************************)
(* Properties.                                                              *)
(***************************************************************************)

\* avltree.c and eperf.c share descriptors by value: opened in read_proc_pid_mem,
\* closed in clear_position, possibly many cycles later.  Whatever exits, restarts
\* or fails to be read in between, every open counter is held by exactly one node,
\* the node of the pid it counts, and a node never holds a descriptor that was
\* closed; for a process read by every scan it counts that very process and not
\* an earlier owner of the pid.
CounterLedger ==
  /\ \A p \in Pids : fd[p] \in Fds =>
       /\ p \in nodes
       /\ perf[fd[p]].pid = p
       /\ steady[p] => perf[fd[p]].gen = gen[p]
  /\ \A f \in Fds : perf[f] # Free => \E p \in Pids : fd[p] = f

\* read_proc_pid_mem opens a counter for idle processes too; write_stat must have
\* given back every one of them by the time ptop sleeps: across the pause only the
\* processes it just reported hold a descriptor.
CounterOnlyWhileReported ==
  pc = "sleep" => \A p \in Pids : fd[p] \in Fds => \E r \in rows : r.pid = p

\* The double buffer is the only memory between cycles, and an idle cycle writes no
\* row.  Still, for a process that every scan has read since its node exists, the
\* bytes of the rows handed to insert_ps add up to exactly its latest sample: no
\* I/O is lost or written twice (the first row carries the I/O since the process
\* started).
UsageBookedOnce ==
  pc = "sleep" => \A p \in nodes : steady[p] => booked[p] = pst[p][curr].io

\* However processes come, go and fail to be read during it, a scan of /proc ends
\* and the cycle gets to its report (or the program ends).
ScanEnds == pc = "readdir" ~> pc \in {"sleep", "exited"}

\* What a process has done is reported at last: I/O a scanned process did is in
\* its rows some cycles later, unless it exits, cannot be read, or the program ends.
UsageEventuallyBooked ==
  \A p \in Pids, n \in 1 .. MaxCount :
    (steady[p] /\ io[p] >= n) ~> (booked[p] >= n \/ ~ steady[p] \/ pc = "exited")

\* is_active documents "0 if PID no longer exists" (ptop.c:92): a row would then be
\* about a process this cycle's scan found.
ExitedNotReported == pc = "sleep" => \A r \in rows : r.pid \in fresh

=============================================================================
