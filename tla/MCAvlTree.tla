----------------------------- MODULE MCAvlTree -----------------------------
(* Instances of AvlTree for TLC.                                             *)
EXTENDS AvlTree
=============================================================================
