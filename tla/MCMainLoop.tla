---------------------------- MODULE MCMainLoop -----------------------------
(* Instances of MainLoop, with Console, for TLC.                             *)
EXTENDS Console

\* The help text in a terminal that is wide enough for its lines.
Wide == [l \in 1 .. HelpLines |-> 1]
=============================================================================
