------------------------------ MODULE CpuPower ------------------------------
(***************************************************************************)
(* The power of the cpu, read_cpufreq_stats of cpu_stats.c.                 *)
(*                                                                          *)
(* The kernel keeps a table for each cpu: how many clock ticks it has spent *)
(* in each of its frequencies, the highest first.  The program reads the    *)
(* tables of all cpus into one array, so that the last one read is what     *)
(* remains, and weights what it has grown by since the last cycle with the  *)
(* power of each frequency.  Watts are integers here, and figures are       *)
(* scaled by 100 * Slowest, the divisors of the code.                       *)
(***************************************************************************)
EXTENDS Integers, Functions

CONSTANTS
  Cpus,         \* the directories cpu0, cpu1, ... of the machine
  Slowest,      \* index of the lowest frequency: a table has Slowest + 1 lines
  MaxPower,     \* maxcpupower, in watts
  MinPower,     \* mincpupower, in watts
  Width64       \* what an u64 counts to

ASSUME CpuPowerAssumption ==
  /\ Slowest \in 1 .. 15
  /\ MinPower \in Nat
  /\ MaxPower \in Nat /\ MinPower <= MaxPower
  /\ Width64 \in Nat \ {0}
  /\ "none" \notin Cpus

VARIABLES
  cpufreq,      \* cpufreq_stats: the kernel accounts for frequencies
  table,        \* table[c]: the file time_in_state of cpu c
  freqs,        \* the array freqs: counts of this cycle
  oldfreqs,     \* the array oldfreqs: counts of the last cycle
  power,        \* cpupower of this cycle
  \* History, not in the program:
  cpuRead       \* the cpus whose tables are in <<freqs, oldfreqs>>; "none": no table

powerVars == <<cpufreq, table, freqs, oldfreqs, power, cpuRead>>

Freqs == 0 .. Slowest
NoCounts == [f \in Freqs |-> 0]

PowerInit ==
  /\ cpufreq \in BOOLEAN
  /\ table = [c \in Cpus |-> NoCounts]
  /\ freqs = NoCounts
  /\ oldfreqs = NoCounts
  /\ power = 0
  /\ cpuRead = <<"none", "none">>

-----------------------------------------------------------------------------
\* Mutant: the weights fall below the lowest power.
WeightByLines(f) == MaxPower * Slowest - MaxPower * f

\* From the highest power at index 0 down to the lowest at index Slowest.
Weight(f) == MaxPower * Slowest - (MaxPower - MinPower) * f

\* What the counts grew by, as u64.
Grown(new, old) == [f \in Freqs |-> (new[f] - old[f]) % Width64]

PowerOf(delta) == SumFunction([f \in Freqs |-> Weight(f) * delta[f]])

\* The table of cpu c is the last that can be read, where it has got to by then.
ReadTable(c, ticks) ==
  /\ table' = [table EXCEPT ![c] = [f \in Freqs |-> @[f] + ticks[f]]]
  /\ freqs' = table'[c]
  /\ power' = PowerOf(Grown(freqs', oldfreqs'))
  /\ cpuRead' = <<c, cpuRead[1]>>

\* The directory or all of its files cannot be opened: the counts are gone.
ReadNoTable ==
  /\ freqs' = NoCounts
  /\ power' = 0
  /\ cpuRead' = <<"none", cpuRead[1]>>
  /\ UNCHANGED table

\* read_cpufreq_stats; the clock has advanced by "ticks" on the cpu that counts.
ReadCpufreq(ticks) ==
  /\ IF cpufreq
       THEN /\ oldfreqs' = freqs               \* memcpy(&oldfreqs, &freqs)
            /\ \/ \E c \in Cpus : ReadTable(c, ticks)
               \/ ReadNoTable
       ELSE power' = 0 /\ UNCHANGED <<table, freqs, oldfreqs, cpuRead>>
  /\ UNCHANGED cpufreq

-----------------------------------------------------------------------------
\* Two cycles in a row have read the table of the same cpu.
SameCpu == cpuRead[1] = cpuRead[2] /\ cpuRead[1] \in Cpus

\* Clock ticks of the cycle on the cpu that counts.
Elapsed == SumFunction(freqs) - SumFunction(oldfreqs)

\* The power lies between mincpupower and maxcpupower for the time that has passed,
\* whatever was read in the cycles before, as long as two cycles in a row read the
\* table of the same cpu (read_cpufreq_stats, cpu_stats.c:316-366).
PowerWithinLimits ==
  SameCpu => /\ power >= MinPower * Slowest * Elapsed
             /\ power <= MaxPower * Slowest * Elapsed

-----------------------------------------------------------------------------
\* The inductive invariant: what is left of the last two cycles.
PowerInv ==
  /\ table \in [Cpus -> [Freqs -> Nat]]
  /\ freqs \in [Freqs -> Nat] /\ oldfreqs \in [Freqs -> Nat]
  /\ cpuRead[1] \in Cpus => freqs = table[cpuRead[1]]
  /\ SameCpu => cpufreq
  /\ SameCpu => /\ \A f \in Freqs : freqs[f] - oldfreqs[f] \in 0 .. Width64 - 1
                /\ power = PowerOf(Grown(freqs, oldfreqs))

=============================================================================
