------------------------------ MODULE TopList ------------------------------
(***************************************************************************)
(* The list of processes ptop displays: the global array pst_list of ptop.c *)
(* that write_stat fills through add_higher_process_info while it walks the *)
(* tree, and the part of it that show_proc_stat shows.                      *)
(*                                                                          *)
(* The array is kept sorted by an insertion that starts at its end and is   *)
(* told how many of its entries belong to this cycle; the rest of the array *)
(* still holds entries of earlier cycles.                                   *)
(***************************************************************************)
EXTENDS Integers

CONSTANTS
  ShowNum,      \* SHOW_NUM
  MaxShare,     \* bound: the cpu share of a process
  MaxWalk       \* bound: the processes a walk lists

ASSUME TopListAssumption ==
  /\ ShowNum \in Nat \ {0}
  /\ MaxShare \in Nat
  /\ MaxWalk \in Nat

VARIABLES
  pst_list,     \* the array; it has one element more than ShowNum
  idx,          \* how many entries this walk has asked for
  amount,       \* what write_process_stats returned
  pc,           \* "walk", "show"
  \* History, not in the program:
  walked        \* walked[n]: the cpu share of the n-th process of this walk

vars == <<pst_list, idx, amount, pc, walked>>

\* Processes are told apart by their turn in the walk; 0 is none of this cycle's.
Turns   == 0 .. MaxWalk
Share   == 0 .. MaxShare
Entry   == [proc: Turns, cpu: Share]
NoEntry == [proc |-> 0, cpu |-> 0]
Slots   == 0 .. ShowNum - 1
Memory  == 0 .. ShowNum

Min2(a, b) == IF a < b THEN a ELSE b

TypeOK ==
  /\ pst_list \in [Memory -> Entry]
  /\ idx \in Turns
  /\ amount \in -1 .. MaxWalk
  /\ pc \in {"walk", "show"}
  /\ walked \in [Turns -> Share]

Init ==
  /\ pst_list = [i \in Memory |-> NoEntry]
  /\ idx = 0
  /\ amount = 0
  /\ pc = "walk"
  /\ walked = [n \in Turns |-> 0]

-----------------------------------------------------------------------------
\* Mutant: the last slot moves too.
MovesUpAlways(i, cpu) == pst_list[i].cpu < cpu

\* The loop of add_higher_process_info moves entry i up; the last slot stays.
MovesUp(i, cpu) == pst_list[i].cpu < cpu /\ i # ShowNum - 1

\* Mutant: the scan stops one entry early.
LandsAtLate(k, length, cpu) ==
  /\ \A i \in k .. length - 1 : MovesUp(i, cpu)
  /\ k > 1 => ~ MovesUp(k - 1, cpu)

\* The loop, run from entry length - 1 down, leaves i + 1 = k.
LandsAt(k, length, cpu) ==
  /\ \A i \in k .. length - 1 : MovesUp(i, cpu)
  /\ k > 0 => ~ MovesUp(k - 1, cpu)

\* The array after add_higher_process_info(pi, length), where the loop ended at k.
Inserted(pi, k, length) ==
  [i \in Memory |->
     CASE i = k /\ k <= ShowNum - 1 -> pi
       [] k < i /\ i <= length      -> pst_list[i - 1]
       [] OTHER                     -> pst_list[i]]

\* Mutant: the length of the list is one short.
AddHigherShort(cpu) ==
  LET length == Min2(idx, ShowNum) IN
  \E k \in 0 .. length :
    /\ LandsAt(k, length, cpu)
    /\ pst_list' = Inserted([proc |-> idx + 1, cpu |-> cpu], k, length - 1)

\* add_higher_process_info(&pst_db, *idx >= SHOW_NUM ? SHOW_NUM : *idx).
AddHigher(cpu) ==
  LET length == Min2(idx, ShowNum) IN
  \E k \in 0 .. length :
    /\ LandsAt(k, length, cpu)
    /\ pst_list' = Inserted([proc |-> idx + 1, cpu |-> cpu], k, length)

\* write_stat comes to a process that used something (its cpu share may be 0).
Visit(cpu) ==
  /\ pc = "walk"
  /\ idx < MaxWalk
  /\ AddHigher(cpu)
  /\ idx' = idx + 1
  /\ walked' = [walked EXCEPT ![idx + 1] = cpu]
  /\ UNCHANGED <<amount, pc>>

\* Mutant: it returns the next index, as write_stat left it.
EndWalkNext ==
  /\ pc = "walk"
  /\ amount' = idx + 1
  /\ pc' = "show"
  /\ UNCHANGED <<pst_list, idx, walked>>

\* write_process_stats returns idx - 1, which is displayed.
EndWalk ==
  /\ pc = "walk"
  /\ amount' = idx - 1
  /\ pc' = "show"
  /\ UNCHANGED <<pst_list, idx, walked>>

\* The next cycle starts with idx = 0 and the array as it is.  (What it holds is an
\* entry of an earlier cycle now.)
NextWalk ==
  /\ pc = "show"
  /\ idx' = 0
  /\ pst_list' = [i \in Memory |-> [pst_list[i] EXCEPT !.proc = 0]]
  /\ walked' = [n \in Turns |-> 0]
  /\ pc' = "walk"
  /\ UNCHANGED amount

Next == (\E cpu \in Share : Visit(cpu)) \/ EndWalk \/ NextWalk

Spec == Init /\ [][Next]_vars

-----------------------------------------------------------------------------
\* The entries of this cycle, and those that show_proc_stat displays.
Listed == 0 .. Min2(idx, ShowNum) - 1
Shown  == 0 .. Min2(amount, ShowNum) - 1

(***************************************************************************)
(* Properties.                                                              *)
(***************************************************************************)

\* However the shares come, the entries are in descending order, those of equal
\* share in the order of the walk, although the array still holds larger shares of
\* an earlier cycle.
ListSorted ==
  \A i, j \in Listed : i < j =>
    \/ pst_list[i].cpu > pst_list[j].cpu
    \/ pst_list[i].cpu = pst_list[j].cpu /\ pst_list[i].proc < pst_list[j].proc

\* The moves never lose or double an entry: the list holds the first SHOW_NUM processes
\* of the walk, each once and with its share.  (Not the SHOW_NUM highest ones.)
ListKeepsFirst ==
  \A n \in 1 .. Min2(idx, ShowNum) :
    \E i \in Listed : pst_list[i] = [proc |-> n, cpu |-> walked[n]]

\* A full list is left alone by every further process: nothing is moved into the
\* spare element of the array, and so never behind its end.
SpareUntouched == pst_list[ShowNum] = NoEntry

\* What is displayed are entries of this cycle, whatever is left in the array.
ShowsThisCycle == pc = "show" => \A i \in Shown : pst_list[i].proc # 0

\* ptop "tells which process consumes more energy" (README.md:44): among the processes
\* of the walk, one of the highest share is displayed.
HighestShown ==
  pc = "show" /\ amount > 0 =>
    \E i \in Shown : \A n \in 1 .. idx : walked[n] <= pst_list[i].cpu

-----------------------------------------------------------------------------
\* The inductive invariant: an entry of this cycle names an earlier turn of the walk,
\* and what is shown was counted in this walk.
EntriesInv ==
  /\ \A i \in Listed : pst_list[i].proc \in 1 .. idx
  /\ pc = "show" => amount = idx - 1

ListInv == TypeOK /\ EntriesInv /\ ListSorted /\ ListKeepsFirst /\ SpareUntouched

=============================================================================
