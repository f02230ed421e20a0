----------------------------- MODULE MCRecords -----------------------------
(* Instances of Records, with EnergyTables, for TLC.                         *)
EXTENDS EnergyTables
=============================================================================
