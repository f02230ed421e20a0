# pTop: a TLA+ development

pTop (`src/src/*.c`) estimates how much energy each process of a Linux machine
consumes. It samples `/proc` and per-process performance counters, stores one row
per active process and cycle in MySQL, and shows the result with curses. This
directory holds TLA+ modules that model its core, TLC configurations that check
them on small instances, and proofs for every instance.

## 1. The system

pTop is one single-threaded C program. What makes it hard is outside of it:
processes come and go between any two reads, signals arrive at any instruction,
the clock runs on, and the database server may refuse a statement.

| Component | Code | State it keeps | Operations |
|---|---|---|---|
| Main loop | `ptop.c` `main_loop`, `alarm_handler` | `curr`, `cycle`, the pending alarm | one cycle: read, write, show every 3rd time, prune every 31st time, swap halves, `pause()` |
| Sampling engine | `ptop.c` `read_process_stats` ... `write_process_stats`, `pid_stats.c`, `m_stats.c` `read_smaps` | per node: `pst_list[0]`, `pst_list[1]`, `fd` | scan, read of one process file by file, `is_active`, a row per active node |
| Process counters | `eperf.c`, `clear_position` | open perf descriptors | open, read, close, close all |
| Process tree | `avltree.c` | `tree` | `find`, `insert`, walk, `empty` (`delete` is an empty stub) |
| Counter arithmetic | `common.c` | none | `subcount`, `u64_subcount` |
| Display list | `ptop.c` `add_higher_process_info` | global `pst_list[41]`, `amount` | sorted insertion |
| Display control | `display.c` `show_proc_stat` | `screen`, curses mode, handlers | draw, wait for a key, prompts, quit |
| Shutdown | `display.c` `cleanstop`, `ptop.c` `system_clean` | what is still open | `endwin`, clear tables, close counters, free tree, `exit` |
| Sample tables | `database.c` | `process_info`, `sys_info`, `device_energy`, `process_energy` | insert, prune, clear; a connection per statement |
| Energy formulas | `energy.c` | none | sums over the rows of a window |
| System statistics | `cpu_stats.c`, `m_stats.c` | `sys_stats[3]` | parse `/proc/stat`, `/proc/net`, cpufreq |
| Start-up | `ptop.c` `main`, `system_init` | `interval`, `cpu_nr`, ... | runs once |

How they interact: the main loop calls everything else. The scan finds or inserts
a tree node per pid and fills `pst_list[curr]` of the node; the writer compares
the two halves and hands rows to `insert_ps` and candidates to the display list;
`show_proc_stat` asks `energy.c` for windows of the rows just stored.
`alarm_handler` and `cleanstop` run as signal handlers on top of any of this.

What is hard, and what makes each part correct:

* Sampling engine. A process may exit, or its pid be reused, between two reads of
  its files; nodes and descriptors outlive the process. No usage may be lost or
  reported twice; no descriptor may leak, be closed twice or be shared; a scan
  must end.
* Main loop. `pause()` has no timeout, the alarm may expire during a cycle and is
  cancelled during prompts. It must never sleep without an alarm.
* Shutdown. A cleanup can be interrupted by another one, and by nothing it
  prepared for. Whatever it began has to be completed.
* Tables. Rows of two tables belong together by the second in which their cycle
  began; pruning counts cycles, windows count seconds.
* Tree. Rotations depend on heights that earlier rotations left behind, and a
  signal may walk a half rotated tree.
* Display list. A sorted insertion at the limit of an array that still holds
  entries of earlier cycles.
* System statistics. Every figure is read at a moment of its own, while the
  machine goes on, with one earlier sample to compare with, in two integer widths;
  the rows have to add up, and to agree with those of the processes.
* Energy tables. Displays count cycles, their windows count seconds; no second may
  be claimed by two of them.

## 2. Modules

| Module | What it is |
|---|---|
| `Kernel` | Processes with their counters, and perf descriptors (external: modelled from pTop's use) |
| `Counters` | `u64_subcount` |
| `CpuPower` | `read_cpufreq_stats`: the power of the cpu from the tables of its frequencies |
| `SystemStats`, `SystemStatsProofs` | `sys_stats[3]`, from reading `/proc` to the row of `sys_info`, extends `Counters` and `CpuPower`; theorems |
| `Sampler` | The sampling engine, extends `Kernel` and `Counters` |
| `SamplerInv`, `SamplerProofs` | Its inductive invariant, its theorems |
| `Metering` | Abstract specification: what the engine promises about usage |
| `SamplerMetering`, `SamplerMeteringProofs` | The refinement mapping, the refinement theorem |
| `MainLoop`, `MainLoopProofs` | Control, display control and shutdown; its theorems |
| `Console`, `ConsoleProofs` | Start, prompts and the closing of counters step by step, extends and refines `MainLoop`; theorems |
| `Records` | The tables `process_info` and `sys_info`, composed with `MainLoop` (extends it) |
| `EnergyTables` | The tables `device_energy` and `process_energy` on top of `Records` (extends it) |
| `RecordsProofs` | The theorems about both |
| `AvlTree` | The process tree |
| `AvlTreeInv`, `AvlTreeProofs` | Its inductive invariant, its theorems |
| `TopList`, `TopListProofs` | The display list; theorems |
| `MC*` | Instances for TLC; the values are in the `.cfg` files |

Operators commented "Mutant" are slightly wrong versions of the definition after
them. They are used to see that a property notices the change.

### Sampler

One step per file that is read, so that `Start`, `Exit`, `Run` and `DoIo` of any
process come between any two of them. `pc` is the program point: `readdir`, then
`stat`, `status`, `io`, `smaps`, `open`, `counter` for the pid at hand, then
`write` and `sleep`. `nodes`, `fd`, `pst`, `curr` are the tree's nodes, their
descriptors, their samples and the half being filled. `rows` is what `write_stat`
gave to `insert_ps` in this cycle. `write_stat` makes no read of the machine, so
the whole walk is one step.

Data is reduced to what the properties tell apart: `cpu` stands for the times of
`/proc/<pid>/stat`, `io` for the figures of the `io` and `status` files, `acc`
for the perf counter. `is_active` is modelled with all its returns. The
second `fopen` of the stat file is covered: its failure leaves the state that a
failing status file leaves. A row has the columns that are plain differences. Those
that are percentages or rates of the cycle's length, as the CPU times (ptop.c:337-340),
are left out: they have a divisor that changes from row to row, and nothing adds them
up. `cpu` matters for what `is_active` says and for the clamp of ptop.c:334-336.

History variables, which the program does not have: `fresh` (pids this scan
visited), `steady` (same process since the node was inserted, read by every scan)
and `booked` (the I/O of its rows since then). They appear in no guard. `UsageBookedOnce`
is about the rows handed to `insert_ps`; which of them get stored is in `SystemStats`.

Assumptions on the machine: pTop runs as root (README.md:40), so no read fails for
permission; `readdir` lists pids in ascending order; `MaxFd` counts what is left
after stdio, the database socket, the cpu counters and the `/proc` stream. pids
that start behind the cursor of the scan are missed by it, as in Linux.

### MainLoop

`timer` is what the kernel holds for `alarm()`: a second passes (`Tick`), the alarm
expires and SIGALRM is raised (`Expire`), and some time later `alarm_handler` runs and
sets it again (`Deliver`), at any point of the cycle. `alarm(0)` of a prompt cancels
the alarm, but not a signal that is `pending`. `pause()` and `select()` return when a
caught signal arrives. `traps` says that `cleanstop` is installed, which happens in the
first display. A caught signal starts `cleanstop` over on top of whatever runs, with
its own number blocked; `stage` is how far the innermost cleanup has got. An outer one
never resumes, because the inner one calls `exit`. `how` records how the program
ended. Before the first display the signals have their default action; between
`initscr` and `signal()` they have that of curses, which restores the terminal.

`cleanstop` calls curses, MySQL, `malloc`, `free` and `exit`, none of which may be
entered from a signal handler while one of their calls is under way. `inside` is what
the signals have interrupted, any part of what may have been running (`InUse`: the heap
and curses in the loop, what the stage calls in a cleanup). A stage that calls such
a library, or frees the tree again, is `Unsafe`: it may go on, crash (`Crash`), or do
nothing for ever, for it has no fairness.

The display is one step: drawing has no effect on control. Its database queries
are in `Records` and `EnergyTables`.

### Console

What `MainLoop` takes for one step, step by step, with signals between any two of
them. `boot` is where `system_init` is; signals have their default action until the
first display. `help` and `kill` of `MainLoop` become the loops of `showhelp` (`lin`
lines printed, `unread` rows of them since the last key) and of the kill prompt
(`killpid`; `getnumval` returns a `long`, which `ToInt` narrows to an `int` of
`IntWidth` values). A line of the help takes `HelpRows[l]` rows of the window, more than
one if it is wider than the terminal, and the prompts take `PromptRows`. `CloseCounter` is one assignment of `close_all_counters`:
`opened` is what the kernel has open, `held` what the array `fd` says, and `half`
lies between `close(fd)` and `fd = -1`. A caught signal runs `close_all_counters`
again from the first cpu. What a cleanup does to the tables and the tree is as in
`MainLoop`. `ConSpec` implements `Spec` of `MainLoop` with the identity as
refinement mapping (`ImplementsLoop`); all other variables are `Console`'s own.

### Records

Extends `MainLoop` with the clock `now`, the time stamp `ctime` of the cycle, and
the number of rows per second in both tables, for one process that is active in
every cycle. A cycle takes its time stamp in a step of its own (`RecBegin`): up to
`MaxLag` seconds may begin after the end of `pause()`, and by then `alarm_handler` has
set the next alarm. Every statement opens its own connection and may fail on its own,
at most `MaxFails` times; the program ignores it. `written`, `early`, `woken`, `lag` and
`fails` are history: what was ever stored, the time stamps of the cycles that a resize
made begin, what ended the last pause and how many seconds have begun since, and how
many statements failed. They appear in no guard but the bounds. `RecInv` is
the inductive invariant. The tables are taken to be empty at the start
(`system_init` deletes all rows but those of the current second, which exist only if
another run ended in it). The wall clock is monotone.

### EnergyTables

Extends `Records` with what a display stores: `systemEnergy` sums up the rows of
`sys_info` in the window into one row of `device_energy`, and the four energies of a
listed process become one row of `process_energy`. `device[t]` and `process[t]`
count the rows that include the second `t`; each `INSERT` may fail or, for the
process, be left out because it is not among those listed. Nothing removes these
rows: the statements are commented out (database.c:247). `EnergyInv` is the
inductive invariant.

### CpuPower and SystemStats

`SystemStats` follows one cycle through the reads of `read_process_stats` and
`read_system_stats`, the walk of `write_stat` and `write_system_stats`. `busy`,
`ticks`, `net` and the frequency tables are counters of the machine, which advance
between and during any two reads (`Advance`, all of them together by at most
`MaxWork`). `io` holds the two samples of each process, `sys` the two halves of
`sys_stats`, `row` its third element, `rows` the sum of the cycle's rows of
`process_info`. Both directions of the network are alike, so one figure
stands for both. Widths are parameters: an `u32` counts to `Width`, an `u64` of the
frequency counts to `Width64`, and `MaxVal` and `Max32` are the constants that
`u64_subcount` and `subcount` add after a counter ran backwards, which in the code
are not the widths minus one.

`CpuPower` keeps what `read_cpufreq_stats` keeps: the tables of all cpus are
read into one array, so the last file read is what counts (`ReadTable`), and none may
be readable (`ReadNoTable`). Watts are integers, and the divisors 100 and the
number of frequencies are multiplied out.

Each row is stored by a statement that may fail, at most `MaxFails` times; `insert_ps`
also fails in a cycle without runtime, when its row holds inf or nan (`WalkProcess`).
What a lost row of `sys_info` held is lost, for the next difference starts from the
sample of this cycle (`WriteSystem`).

Assumptions: the processes of `SystemStats` live throughout (those that come and go
are in `Sampler`); the cpu counters stay readable; all tables of frequencies are
equally long; a float holds the figures exactly. History: `work`,
`booked` (the stored rows of `sys_info` added up), `linked` (no cycle missed the
network), `steady` (in this cycle no process crossed the `u32` or cancelled more than
it wrote), `failed`, `stored` and `whole` (the row of the system, and those of all
processes, are in their tables); they appear in no guard but the bounds.

### AvlTree

`insert` is modelled assignment by assignment: `path` is the stack of recursive
calls, `todo` the assignments left of a rotation. `Create` links a node whose
contents are arbitrary, as `malloc` returns it; `Initialise` is the `memset` and
what follows. A node is named by its `Element`, which is sound because rotations
move pointers and never contents. `Find` and `Walk` are the recursions of `find` and of
`write_stat` and `empty`, written as recursive functions over the pointers.

### TopList

The loop of `add_higher_process_info` runs down from `length - 1` and stops at
the first entry that stays; `LandsAt` says where, `Inserted` what the array is
then. The history `walked` holds the shares in the order of the walk. Shares are ordered;
the nan that a cycle without runtime may yield is left out.

### Metering

Users are read now and then; a report bills every metered user exactly what was
last read. `SamplerMetering` maps `metered` to the steady pids, `seen` to
`LastSeen` (the half of the double buffer the scan has got to) and `billed` to
`booked`.

## 3. Runs

| Run | Module | What it checks |
|---|---|---|
| `sampler_one` | `MCSampler` | One pid, three incarnations, two descriptors (1,340,000 states). `CounterLedger`: an open counter is held by exactly the node of its pid. `CounterOnlyWhileReported`: across the pause only processes just reported hold one. `UsageBookedOnce`: the bytes of the rows of a process read by every scan add up to its latest sample. `Metered`: refinement of `Metering`. `ScanEnds`: while processes start, exit and are reused, every scan gets to its report, or the program ends. |
| `sampler_two` | `MCSampler` | Two pids, one incarnation each, that compete for two descriptors (666,000 states). The invariant of the proofs, and `UsageEventuallyBooked`: usage of a process that stays is reported at last. |
| `main_loop` | `MCMainLoop` | `Console` (53,000 states, its full state space). `PauseIsTimed`: never `pause()` without an alarm that is set or on its way. `CleanedUp`: an end through `cleanstop` has done all of it; `CountersClosed`: down to the counter of each cpu. `HelpReadable`: no row of the help scrolls away unread, in a terminal wide enough for its lines. `SamplesAgain`: a pause ends with a new sample, or the program ends. `CleanupEnds`: a cleanup that began ends the program, unless it comes to call what a signal has interrupted. `ImplementsLoop`: start, prompts and closing in detail implement `MainLoop`, with its fairness. |
| `records` | `MCRecords` | `EnergyTables` and `Records` on top of the control (7,470,000 states). `ChargedOnce`: the join of `CPUEnergy` charges no row twice, but for resizes. `WindowIntact`: no row of a window is pruned too early. `ClaimedOnce`: no second is in two rows of an energy table, but for resizes. |
| `system_stats` | `MCSystemStats` | Two processes, two cpus, one statement that fails (8,460,000 states). `SystemBookedOnce`: the stored rows of `sys_info` add up to the machine's counters as last read, or to less if one was lost. `DiskTablesAgree`: in a steady cycle the total of the system is at least the sum of the rows of the processes, and equal if all are stored. `DiskChargeWithinTotal`: rounding never charges the processes more than the total. `RunShareBounded`: runtime is at most all time. `PowerWithinLimits`: the power lies between its two limits times the time that passed, if the same cpu was read twice. |
| `avl_tree` | `MCAvlTree` | All orders of inserting up to seven pids, assignment by assignment (38,600 states). `FindsEveryNode`, `Balanced`, `FreedOnceMidInsertion`: `empty` would free every node at most once at any point of an insertion, but the one before `memset`. |
| `top_list` | `MCTopList` | Walks of up to five processes over a list of three (2,900 states). `ListSorted`, `ListKeepsFirst`, `SpareUntouched`, `ShowsThisCycle`. |

Runs that are expected to end in a violation are disagreements between the
program and what a comment or document says of it:

| Run | What the text says | What the program does |
|---|---|---|
| `sampler_exited` | `is_active`: "0 if PID no longer exists." (ptop.c:92) | A process that exits between two cycles keeps its node and its two samples. No scan visits the node again, its samples differ, and it gets the same row in every second cycle until ptop ends. |
| `main_loop_terminal` | `generic_end`: "function to be called when the program stops" (display.c:208) | A stop in `exit` of a reader, after the first display, leaves the terminal in curses mode. |
| `records_resize` | `CPUEnergy`: "energy consumption by the process ID during length seconds" (energy.c:111) | A resize ends `pause()` early. Two cycles begin in one second and each row of one table is joined with both of the other. |
| `system_stats_wrap` | `subcount`: "taking into account the possibility of overflow of a 32-bit kernel-counter" (common.c:217) | After an overflow it adds 0x11111111 instead of 2^32: the totals of the cycle differ from the rows of the processes. |
| `top_list_highest` | pTop "could tells which process consumes more energy" (README.md:44) | Once the list is full, processes with higher shares are passed over: it shows the first 40, not the highest 40. |

Bounds and why they suffice. The engine treats pids alike and relates a node only
to its own pid and to the shared pool of descriptors, so one pid with three
incarnations and counters up to 2 (`sampler_one`: two increments in different
cycles, starts ahead of and behind the cursor of the scan, drops by reuse), and two pids
that share two descriptors (`sampler_two`, without starts: with them the run has
several million states, too many for its liveness) show what one pid may do to
another. Two descriptors are the least with which a process that
holds a counter can still be read, because each read of a file needs one; with both
taken by counters the scan runs out of them, which occurs too. `ClampTicks` is 2 there (100 in the code), so that
drops of both sides of the limit occur. The control runs with a sample rate of 2, a
key timer of 3, a display every 3rd and pruning every 2nd cycle, which makes all
combinations of due and not due occur. Two cpus let a cleanup be interrupted before,
in and between two counters; four lines of help in a window of four rows make the paging
start within the text; an `int` of four values and numbers up to five let a number
typed become every `int`, also -1 and -2. `HelpRows` is
one row for each line, a terminal wide enough for the text. `records` has 7 seconds, one
failing statement and one second in
which a resize may make a cycle begin (signals are left to `main_loop`: they add
nothing to the tables that the key `q` does not), which is room for four cycles, the second and the
fourth of which display and prune; a sample rate of 3 with `CleanEvery` 2 is the largest
rate for which `WindowIntact` holds, and a `MaxLag` of 2 the latest time stamp with which
`ChargedOnce` does, see below; with a display every second cycle and a key timer of 1 the
windows of two displays come as close as they can.
`system_stats` has counters that
advance by three units in any number of cycles and an `u32` that counts to three, so
that overflows, processes that cancel more than they write, cycles without runtime and
lost rows occur, and so do changes of the cpu whose table counts. `system_stats_wrap` needs one unit more. Seven nodes make all
four rotations occur at inner nodes. Three slots and five processes fill the
list and go past it.

Deadlock is checked in every run: `Halted`, `Ended`, `RecEnded` and `Full` are the
only states in which nothing happens any more (the last one and the bounds of
`RecEnded` belong to the instances).

Fairness. `Sampler` has weak fairness of the monitor's own steps: the program is
scheduled; nothing is assumed of other processes. Calls to `/proc` return at once.
`MainLoop` has weak fairness of the program's steps and of the clock, delivery of
SIGALRM included: the kernel delivers what is raised and not blocked. That the program
goes on assumes that the database server answers or refuses in finite time. Nobody has to
press a key, answer a prompt or send a signal, and an `Unsafe` cleanup has no fairness:
nothing says that it goes on. `Console` assumes the same of its finer steps
(`ConProgram`, `ConClock`). `AvlTree`, `TopList`, `Records`,
`EnergyTables` and `SystemStats` state safety only and need none.

## 4. Proofs

All proofs are checked by TLAPS with SMT, Zenon and, for the temporal steps, LS4.
They hold for every value of the constants that the named assumptions of the
modules allow (`KernelAssumption`, `SamplerAssumption`, `MainLoopAssumption`,
`RecordsAssumption`, `TopListAssumption`, `ConsoleAssumption`, `CpuPowerAssumption`,
`SystemStatsAssumption`, `MaxValAssumption`, `AvlAssumption`: mostly that bounds are
natural numbers; `MaxVal` is taken to be above everything an instance counts to, as the
program's constant is above every real counter; an `u64` counter of the machine, of
which there is one per frequency, never gets to 2^64, `MaxWork < Width64`). They are theorems
about the models: about the program as far as a model is faithful to it.

Sampling engine (`SamplerProofs`). None of the four properties is inductive alone.
`IInv` of `SamplerInv` adds what connects the program points: a perf counter counts
within the lifetime of its process (`CountersInv`); the pids visited have nodes and
lie at or behind the cursor (`ScanInv`); a steady process is alive and either ahead of
the cursor or visited (`SteadyInv`); its samples never run backwards, as far as this scan
has read them (`MonotoneInv`); and what is booked is the sample the last report was
made from (`BookedInv`). One lemma per step of the scan, one for `write_stat` (where rows
are made, counters closed and positions cleared) and one for the environment show that
it is kept. `TypeCorrect`, `LedgerBalanced`, `CountersGivenBack` and `UsageConserved` follow.

Refinement (`SamplerMeteringProofs`). `MeteringRefinement`: under the mapping of
`SamplerMetering` each step of the engine is a step of `Metering` or a stutter. A read
of an I/O file is `Metering`'s read, `write_stat` its report; the report needs that
the difference of the two halves is what `seen` grew by since the last bill, which
is where `IInv` enters.

Control (`MainLoopProofs`). `LoopInv` says, per program point, where an alarm is
set or pending (everywhere in the loop but in a prompt), that cleanups
reached a stage only after what comes before it, and that each installed handler
runs at most once on top of another, which bounds how often the tree is freed.
`LoopTypes`, `NeverPausesForEver`, `CleanupComplete` follow.

Console (`ConsoleProofs`). `ConsoleIsLoop`: each step is one of `MainLoop` or a stutter, so
`LoopInv` carries over. `ConInv` adds: before the cpu that
`close_all_counters` has got to nothing is open, and what is open can be found in
the array (`CounterInv`) - which an interrupting cleanup needs, because it only closes
what it finds; how many rows are unread when the program waits (`HelpInv`); that no
handler is installed before the loop runs (`BootInv`). `HelpNotLost` has the hypothesis
`HelpFits`, which the code does not check: a window of at least two rows, as wide as the
text and the prompt (section 5).

Tables (`RecordsProofs`). `ControlUndisturbed`: the control part of every step of
`RecNext` is a step of `MainLoop` or a stutter, so the invariant of `MainLoop` carries
over. `RecInv` adds: no row has a time stamp still to come; a second has at most one row
of `sys_info` unless a resize made a cycle begin in it (`PairInv`), because when the next
alarm is delivered the second of the last time stamp is over (`AlarmInv`: the alarm was set
before the stamp was taken, but the stamp is late by less than the sample rate); a row that is
missing was pruned more than `CleanEvery` seconds ago. `NeverChargedTwice` follows
from the second, `WindowsAreIntact` from the last. Both have a hypothesis that the code
does not check: `MaxLag < Interval` (section 5 says what happens without it), and
`Interval <= CleanEvery + 1`.

Energy tables (`RecordsProofs`). `EnergyInv` follows a second that a display has
claimed: it stays in the window only until the pause after that display; the next
cycle is never displayed, and ends in a pause whose alarm lies a whole interval
after the second (the alarm handler had just set it); after that the second is out of every
window (`InDisplay`, `NextCycleLong`, `OutOfWindow`). That two cycles in a row are
never both displayed (`NotDueTwice`) is arithmetic about the cycle's number and
needs a period of at least two; with a display in every cycle the property fails,
as the key timer may be shorter than the sample rate.

System statistics (`SystemStatsProofs`). `SysInv` says which half the last row came from
and that its figures are what has been booked, or less if a row was lost (`BookedInv`), that the samples of
`/proc/stat` are the counters modulo the width, and, as long as they fit, that runtime grew by
no more than all time (`TimesInv`), that samples of a process do not run backwards
(`IoInv`), and what the walk has added up so far in both tables, in bytes and in
rounded kilobytes, and that the processes never get ahead of the system when rows are lost
(`WalkInv`). One lemma per step; the step of the walk rests on two
lemmas: the difference of two `u32` is the plain one if no multiple of the width lies
between the counters, and rounding a sum loses no more than rounding its terms.

Power of the cpu (`SystemStatsProofs`). `PowerInv` of `CpuPower` says that the program's copy of
the frequency table is the table of the cpu it read last, and that, if it read the same cpu
twice, no count ran backwards and `power` is that of the difference. The weight of each
frequency lies between `MinPower * Slowest` and `MaxPower * Slowest`; that the sum over
the frequencies then lies between these times the time that passed (`SumBetween`) is by
induction over the set of frequencies, of any size. `PowerStaysWithinLimits` follows.

Process tree (`AvlTreeProofs`). None of the properties is inductive, and in the middle of a
rotation the tree is no tree of height-balanced subtrees at all. `AvlInv` of `AvlTreeInv` speaks of a
memory (root, links and heights) and of a set `S[n]` of nodes below each node `n`, of which it
says only that there are such sets. `Sorted`: what is reached from a link is in the
set of its node and on the right side of it, hence no walk passes a node twice. `Whole`: in
addition all nodes are reached, each by one link. Outside of rotations (`SteadyInv`) the
memory is `Whole`, no height exceeds the number of nodes below (`Low`, which bounds the stack),
the pending calls are a path from the root toward `x` (`Chain`), and all heights are right but
that of the node at work, where the subtree toward `x` has grown by one at most and, if
it has, leans toward `x` (`HeightsAre`, `Grown`, `Tilted`): this is why the rotation that `insert`
selects by comparing elements is the one the heights call for. Within a rotation
(`RotateInv`) the remaining assignments lead through memories that are all `Sorted` to one that is
`Whole` and right (`Leads`), so an interrupting `cleanstop` may come before each of them. The work is in
`SingleLeads` and `DoubleLeads`, the start of a rotation. A left and a right rotation are mirror images,
and `AvlTreeInv` speaks of sides instead of fields, so that most lemmas serve both.
`StaysBalanced`, `AlwaysFinds` and `NeverFreedTwice` follow; for the latter two, `find` and the walk
are shown to be well-defined functions on a `Sorted` memory (of all arguments for which
they were not, take one with the fewest nodes below), and what they return to depend on `S`.
`AvlInv` itself quantifies over all sets and sequences and is out of TLC's reach; its consequences are
what `avl_tree` checks.

Display list (`TopListProofs`). `EntryInserted` states what the insertion does to a
list that has room: all entries before the new one are at least as high and stay, all
behind it were lower and move up by one. `FullListStays` states what it does to a full one:
nothing. From these, sortedness, completeness and the bound are kept, and
`NothingStaleShown` follows because what is displayed is one less than was counted.

Every invariant and the safety half of every refinement that the passing runs check is
proved. Only model-checked are the liveness properties (`ScanEnds`, `UsageEventuallyBooked`,
`SamplesAgain`, `CleanupEnds`, the liveness half of `ImplementsLoop`), because they need `ENABLED` and
fairness, which are out of the prover's reach.

## 5. Known limits of the program

Seen while modelling, beyond the runs of section 3:

* `read_smaps` calls `exit(2)` when it cannot open its file: a process that exits at
  that moment takes ptop with it.
* A SIGALRM that is pending when `alarm(0)` is to "stop the clock" (display.c:519, 529) is
  delivered in the prompt, and its handler starts the clock again.
* `cleanstop` runs as a signal handler and calls MySQL, `malloc`, curses and `exit` on top of
  the same calls: it may wait for a lock that the interrupted call holds, or crash.
  `CleanupEnds` is about the cleanups to which this does not happen (`Unsafe`).
* The number typed for the kill prompt is a `long`, `killpid` an `int`: a number beyond 2^31
  becomes a negative one, of which only -1 is refused, and stands for a process group.
* `showhelp` counts lines, not rows: in a terminal narrower than its text (30 columns are
  enough for ptop) or a window of one row the text scrolls before the program waits.
* At a sample rate of 1, two cycles get one time stamp when a second begins between an
  alarm and `time(NULL)`; `CPUEnergy` then joins them crosswise, without any resize.
* Statements fail without notice: the figures of a lost row of `sys_info` are in no row.
* `freeup_all(0)`, also at the end, leaves the rows of the current second in the tables.
* `init_stat_data` returns 1 also when the server does not answer: the check in
  `system_init` never fails.
* A cycle in which the runtime of the machine has not advanced divides by zero: the
  rows of its processes hold inf or nan and are refused, while the totals are stored.
* A process that cancels more than it has written in a cycle makes `diskwrite` of the
  total wrap to about 4 GB (ptop.c:328).
* Only the frequency table of the cpu read last counts; when another one is last in
  the next cycle, counts of two cpus are subtracted.
* A cycle in which the wireless interface cannot be read stores a number near
  `MAXU64VAL`, and the next one all traffic since boot.
* `runtime` leaves out niced time (cpu_stats.c:93). `time` of `device_energy` is always 0.
* `statmsg` is local to `show_proc_stat`: the messages of the kill prompt are never
  displayed.
* The total of a cycle also contains the differences of processes that have exited, as
  often as their rows are repeated.
* A scan that runs out of descriptors takes all remaining live processes for
  terminated. Their counters are closed, and the next row carries totals since
  the process started.
* A process that gets the pid of a dead one inherits its previous sample; the first
  row is the difference of two processes.
* `write_process_stats` returns `idx - 1`, so the last listed process is not shown.
* `pst_db.utime` is computed from `psti->utime` twice (ptop.c:337), always zero
  minus the guest time.
* At a sample rate above `CLEAN_INTERVAL + 1` = 32 seconds, pruning can delete rows of
  the window that the next display asks for; `WindowIntact` needs the rate to be
  at most that.
* After `cleanstop` has freed the tree, another signal frees it again
  (`TreeFreedOnce` in `MainLoop` states that this never happens and does not hold).
* A signal between `malloc` and `memset` of a new node makes `empty` follow
  pointers that were never set.
* `persists_process_energy` never frees its copy of the command line (and allocates
  it one byte short); `create_conn` keeps the handle of a failed connection;
  `device_energy` and `process_energy` are never pruned.
* `fd[MAX_NR_CPUS]` of `eperf.c` is indexed by the number of processors without a check.
* The help text offers a pause key that is not implemented (`paused` is never set).

## 6. Not modelled, and why

The floating-point factors of the energy formulas, `getEBattery` and `DsplyEnergy`
(unused or constant); what rows a formula sums up is modelled. Screen drawing and
formatting have no state. Of the start, argument parsing, `get_HZ`, `get_kb_shift` and
`get_cpu_nr` are constants of the instances. `test`, `count_pid`, `read_meminfo`,
`get_sys_cpu_nr`, `get_proc_cpu_nr` and a few helpers are never called.
`perf_event.h` is a copy of a kernel header.

## 7. Plan

Done: `Sampler` with `Metering`; `MainLoop`, `Console`; `Records`, `EnergyTables`;
`SystemStats`, `CpuPower`; `AvlTree`; `TopList`; theorems about all of them.

Left, in order:

1. `Sampler` and `MainLoop` composed: signals between two reads of a scan, with the
   tree of `AvlTree` behind `nodes` (refinement to the set).
2. `Sampler` and `SystemStats` composed: the totals while processes come and go.
