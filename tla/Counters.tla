------------------------------ MODULE Counters ------------------------------
(***************************************************************************)
(* The counter arithmetic of common.c.  Every quantity ptop reports is the  *)
(* difference of two samples of a cumulative kernel counter.  The result    *)
(* is exact as long as the newer sample is not below the older one; below   *)
(* it, the code adds a constant (MAXU64VAL, 0x1111111111111111) that stands *)
(* here as the parameter MaxVal.                                            *)
(***************************************************************************)
EXTENDS Integers

CONSTANT
  MaxVal        \* MAXU64VAL; any number no counter of an instance reaches

ASSUME MaxValAssumption == MaxVal \in Nat

\* Mutant: the plain difference.
SubCountPlain(new, old) == new - old

\* u64_subcount(newval, oldval).
SubCount(new, old) == IF new >= old THEN new - old ELSE (MaxVal - old) + new

=============================================================================
