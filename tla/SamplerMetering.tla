-------------------------- MODULE SamplerMetering --------------------------
(***************************************************************************)
(* Sampler implements Metering: the scan, the two sample buffers and the    *)
(* rows of write_stat amount to reading processes and billing what was      *)
(* read.                                                                    *)
(***************************************************************************)
EXTENDS SamplerInv

\* A process is metered while the scans follow it, and last read in the half of
\* the double buffer that this cycle's scan has got to.
LastSeen(p) ==
  IF ~ steady[p] THEN 0 ELSE IF IoRead(p) THEN pst[p][curr].io ELSE pst[p][prev].io

Meter == INSTANCE Metering WITH
  Users   <- Pids,
  MaxUse  <- MaxCount,
  metered <- {p \in Pids : steady[p]},
  used    <- io,
  seen    <- [p \in Pids |-> LastSeen(p)],
  billed  <- booked

\* Every behaviour of the sampler, seen through LastSeen and booked, is a behaviour
\* of the abstract meter: all rows of a report belong to the same moment of the
\* cycle, and a bill is never anything but a value that was once read.
Metered == Meter!MeterSpec

=============================================================================
