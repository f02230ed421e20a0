----------------------------- MODULE MCTopList -----------------------------
(* Instances of TopList for TLC.                                             *)
EXTENDS TopList
=============================================================================
