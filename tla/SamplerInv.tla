----------------------------- MODULE SamplerInv -----------------------------
(***************************************************************************)
(* The inductive invariant of Sampler: what has to hold between any two     *)
(* steps of a cycle for its properties to hold at the end of the cycle.     *)
(***************************************************************************)
EXTENDS Sampler

Scanning == pc \in Reading \cup {"readdir"}

\* The parts of p's new sample that this cycle's scan has read.
CpuRead(p) == p \in fresh /\ ~ (pid = p /\ pc = "stat")
IoRead(p)  == p \in fresh /\ ~ (pid = p /\ pc \in {"stat", "status", "io"})

\* Counters count within the lifetime they belong to.
CountersInv ==
  \A f \in Fds :
    /\ perf[f].pid = 0 => perf[f] = Free
    /\ perf[f].pid # 0 =>
         /\ perf[f].gen <= gen[perf[f].pid]
         /\ perf[f].gen = gen[perf[f].pid] => perf[f].count <= cpu[perf[f].pid]

\* Nodes, the pid under the cursor and the pids visited so far.
ScanInv ==
  /\ \A p \in Pids \ nodes : fd[p] = NoFd /\ ~ steady[p]
  /\ \A p \in Pids, b \in {0, 1} : pst[p][b].pid \in {0, p}
  /\ pc \in Reading => pid \in fresh
  /\ \A p \in fresh : p \in nodes /\ p <= pid

\* A steady process is alive, ahead of the cursor or already visited.
SteadyInv ==
  \A p \in Pids : steady[p] =>
    /\ p \in alive
    /\ Scanning /\ p \notin fresh => p > pid
    /\ pc \in {"write", "sleep"} => p \in fresh

\* The samples of a steady process never run backwards.
Monotone(p) ==
  steady[p] =>
    /\ pst[p][prev].cpu <= cpu[p] /\ pst[p][prev].io <= io[p]
    /\ CpuRead(p) => /\ pst[p][curr].pid = p
                     /\ pst[p][prev].cpu <= pst[p][curr].cpu
                     /\ pst[p][curr].cpu <= cpu[p]
    /\ IoRead(p) => /\ pst[p][prev].io <= pst[p][curr].io
                    /\ pst[p][curr].io <= io[p]
MonotoneInv == \A p \in Pids : Monotone(p)

\* What is booked is the last sample a report was made from, or nothing.
LastReported == IF pc = "sleep" THEN curr ELSE prev
Booked(p) ==
  booked[p] = IF steady[p] THEN pst[p][LastReported].io ELSE 0
BookedInv == \A p \in Pids : Booked(p)

IInv ==
  /\ TypeOK
  /\ CountersInv
  /\ CounterLedger
  /\ CounterOnlyWhileReported
  /\ ScanInv
  /\ SteadyInv
  /\ MonotoneInv
  /\ BookedInv
=============================================================================
