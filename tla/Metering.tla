------------------------------ MODULE Metering ------------------------------
(***************************************************************************)
(* What the sampling engine promises about the usage of a process, without  *)
(* scans, double buffers or descriptors.  A process under metering is read  *)
(* now and then; a report then bills every metered process exactly what it  *)
(* had used when it was last read.  Metering of a process may be lost (it   *)
(* exits, a read fails) and begin again; its bill then starts from zero.    *)
(***************************************************************************)
EXTENDS Integers

CONSTANTS
  Users,        \* the pids
  MaxUse        \* bound: usage of one process

VARIABLES
  metered,      \* users under metering
  used,         \* used[u]: what u has used so far
  seen,         \* seen[u]: used[u] when u was last read
  billed        \* billed[u]: what the reports say u has used

meterVars == <<metered, used, seen, billed>>

MeterInit ==
  /\ metered = {}
  /\ used = [u \in Users |-> 0]
  /\ seen = [u \in Users |-> 0]
  /\ billed = [u \in Users |-> 0]

Use(u) ==
  /\ used[u] < MaxUse
  /\ used' = [used EXCEPT ![u] = @ + 1]
  /\ UNCHANGED <<metered, seen, billed>>

\* The name of a user that is not metered goes to a new user.
Renew(u) ==
  /\ u \notin metered
  /\ used' = [used EXCEPT ![u] = 0]
  /\ UNCHANGED <<metered, seen, billed>>

Enter(u) ==
  /\ u \notin metered
  /\ metered' = metered \cup {u}
  /\ seen' = [seen EXCEPT ![u] = 0]
  /\ billed' = [billed EXCEPT ![u] = 0]
  /\ UNCHANGED used

Leave(u) ==
  /\ metered' = metered \ {u}
  /\ seen' = [seen EXCEPT ![u] = 0]
  /\ billed' = [billed EXCEPT ![u] = 0]
  /\ UNCHANGED used

Read(u) ==
  /\ u \in metered
  /\ seen' = [seen EXCEPT ![u] = used[u]]
  /\ UNCHANGED <<metered, used, billed>>

Report ==
  /\ billed' = seen
  /\ UNCHANGED <<metered, used, seen>>

MeterNext ==
  \/ \E u \in Users : Use(u) \/ Renew(u) \/ Enter(u) \/ Leave(u) \/ Read(u)
  \/ Report

MeterSpec == MeterInit /\ [][MeterNext]_meterVars

=============================================================================
