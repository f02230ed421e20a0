------------------------------- MODULE Kernel -------------------------------
(***************************************************************************)
(* What ptop sees of the Linux kernel (external: only the use that the      *)
(* program makes of it is modelled).                                        *)
(*                                                                          *)
(* Processes come and go at any moment, also between two reads of the same  *)
(* /proc/<pid> directory, and a pid may be given to a later process.  Each  *)
(* process has cumulative counters that only grow: "cpu" stands for the     *)
(* figures of /proc/<pid>/stat, "io" for those of /proc/<pid>/io (of the    *)
(* status file only whether it can be read matters here).  A perf counter   *)
(* is a descriptor bound to the process (pid and incarnation) it was opened *)
(* on; it counts from zero from that moment, and stays open, frozen, when   *)
(* the process exits.  The reader is root: no read fails for permission.    *)
(***************************************************************************)
EXTENDS Integers

CONSTANTS
  MaxPid,       \* pids are 1 .. MaxPid
  MaxFd,        \* descriptors left to perf counters and to /proc reads
  MaxGen,       \* bound: incarnations of one pid
  MaxCount      \* bound: value of a process counter

ASSUME KernelAssumption ==
  /\ MaxPid \in Nat /\ MaxFd \in Nat
  /\ MaxGen \in Nat /\ MaxCount \in Nat

VARIABLES
  alive,        \* pids that have a directory under /proc
  gen,          \* gen[p]: how many processes have had pid p
  cpu, io,      \* cumulative counters of the process that has (had) pid p
  perf          \* perf[f]: the perf counter behind descriptor f

kernelVars == <<alive, gen, cpu, io, perf>>

Pids == 1 .. MaxPid
Fds  == 1 .. MaxFd

Count   == 0 .. MaxCount
Counter == [pid: 0 .. MaxPid, gen: Nat, count: Count]
Free    == [pid |-> 0, gen |-> 0, count |-> 0]

KernelTypeOK ==
  /\ alive \in SUBSET Pids
  /\ gen \in [Pids -> Nat]
  /\ cpu \in [Pids -> Count]
  /\ io \in [Pids -> Count]
  /\ perf \in [Fds -> Counter]

KernelInit ==
  /\ alive \in SUBSET Pids
  /\ gen = [p \in Pids |-> 0]
  /\ cpu = [p \in Pids |-> 0]
  /\ io = [p \in Pids |-> 0]
  /\ perf = [f \in Fds |-> Free]

-----------------------------------------------------------------------------
FreeFds == {f \in Fds : perf[f] = Free}

\* POSIX hands out the lowest free descriptor.
IsLowest(f) == f \in FreeFds /\ \A g \in FreeFds : f <= g

\* fopen of a file of /proc/<pid>: needs the process, and a descriptor for the
\* time of the read.
Readable(p) == p \in alive /\ FreeFds # {}

\* A process starts: a new incarnation with counters at zero.
Start(p) ==
  /\ p \notin alive
  /\ gen[p] < MaxGen
  /\ alive' = alive \cup {p}
  /\ gen' = [gen EXCEPT ![p] = @ + 1]
  /\ cpu' = [cpu EXCEPT ![p] = 0]
  /\ io' = [io EXCEPT ![p] = 0]
  /\ UNCHANGED perf

Exit(p) ==
  /\ p \in alive
  /\ alive' = alive \ {p}
  /\ UNCHANGED <<gen, cpu, io, perf>>

\* The process runs, and the counters open on it advance.
Run(p) ==
  /\ p \in alive
  /\ cpu[p] < MaxCount
  /\ cpu' = [cpu EXCEPT ![p] = @ + 1]
  /\ perf' = [f \in Fds |->
                IF perf[f].pid = p /\ perf[f].gen = gen[p]
                  THEN [perf[f] EXCEPT !.count = @ + 1] ELSE perf[f]]
  /\ UNCHANGED <<alive, gen, io>>

\* The process does I/O, faults or is switched out.
DoIo(p) ==
  /\ p \in alive
  /\ io[p] < MaxCount
  /\ io' = [io EXCEPT ![p] = @ + 1]
  /\ UNCHANGED <<alive, gen, cpu, perf>>

=============================================================================
