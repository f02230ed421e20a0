---------------------------- MODULE MCSystemStats ----------------------------
(***************************************************************************)
(* Instances of SystemStats; the values are in the .cfg files.              *)
(***************************************************************************)
EXTENDS SystemStats

=============================================================================
