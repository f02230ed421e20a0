--------------------------- MODULE TopListProofs ---------------------------
(***************************************************************************)
(* TopList, proved for every size of the list and every walk: the list is   *)
(* sorted, holds the first processes of the walk, keeps within its bounds   *)
(* and shows no entry of an earlier cycle.                                  *)
(***************************************************************************)
EXTENDS TopList, TLAPS

USE DEF Turns, Share, Entry, NoEntry, Slots, Memory, Min2, Listed

\* The list starts empty.
LEMMA InitListInv == Init => ListInv
  BY TopListAssumption
     DEF Init, ListInv, TypeOK, EntriesInv, ListSorted, ListKeepsFirst, SpareUntouched

\* A full list is left as it is: its last entry stays, so the loop ends behind it.
LEMMA FullListStays ==
  ASSUME ListInv, NEW cpu \in Share, AddHigher(cpu), idx >= ShowNum
  PROVE  pst_list' = pst_list
<1>1. PICK k \in 0 .. ShowNum :
         /\ LandsAt(k, ShowNum, cpu)
         /\ pst_list' = Inserted([proc |-> idx + 1, cpu |-> cpu], k, ShowNum)
  BY TopListAssumption DEF AddHigher, ListInv, TypeOK
<1>2. k = ShowNum
  <2> SUFFICES ASSUME k <= ShowNum - 1 PROVE FALSE
    BY TopListAssumption
  <2>1. ShowNum - 1 \in k .. ShowNum - 1
    BY TopListAssumption
  <2>. QED BY <1>1, <2>1 DEF LandsAt, MovesUp
<1>3. \A i \in Memory : pst_list'[i] = pst_list[i]
  BY <1>1, <1>2, TopListAssumption DEF Inserted
<1>4. /\ pst_list' = [i \in Memory |-> pst_list'[i]]
      /\ pst_list = [i \in Memory |-> pst_list[i]]
  BY <1>1 DEF Inserted, ListInv, TypeOK
<1>. QED BY <1>3, <1>4

\* An entry that fits is inserted at some k: all before it are at least as high, all
\* behind it were lower and have moved up by one.
LEMMA EntryInserted ==
  ASSUME ListInv, NEW cpu \in Share, AddHigher(cpu), idx < ShowNum, idx < MaxWalk
  PROVE  \E k \in 0 .. idx :
           /\ pst_list' \in [Memory -> Entry]
           /\ pst_list'[k] = [proc |-> idx + 1, cpu |-> cpu]
           /\ \A i \in 0 .. k - 1 : pst_list'[i] = pst_list[i] /\ pst_list[i].cpu >= cpu
           /\ \A i \in k .. idx - 1 :
                pst_list'[i + 1] = pst_list[i] /\ pst_list[i].cpu < cpu
           /\ \A i \in Memory : i > idx => pst_list'[i] = pst_list[i]
<1> DEFINE pi == [proc |-> idx + 1, cpu |-> cpu]
<1>0. /\ idx \in Nat /\ idx + 1 \in Turns /\ ShowNum \in Nat \ {0} /\ cpu \in Nat
      /\ pst_list \in [Memory -> Entry]
  BY TopListAssumption DEF ListInv, TypeOK
<1>1. PICK k \in 0 .. idx : LandsAt(k, idx, cpu) /\ pst_list' = Inserted(pi, k, idx)
  BY <1>0 DEF AddHigher
<1>2. pi \in Entry
  BY <1>0
<1>3. \A i \in Memory : pst_list'[i] = IF i = k THEN pi
                                       ELSE IF k < i /\ i <= idx THEN pst_list[i - 1]
                                       ELSE pst_list[i]
  BY <1>0, <1>1 DEF Inserted
<1>4. pst_list' \in [Memory -> Entry]
  <2>1. ASSUME NEW i \in Memory PROVE pst_list'[i] \in Entry
    <3>1. k < i /\ i <= idx => i - 1 \in Memory
      BY <1>0
    <3>2. pst_list[i] \in Entry /\ (i - 1 \in Memory => pst_list[i - 1] \in Entry)
      BY <1>0
    <3>. HIDE DEF Entry, Memory, pi
    <3>. QED BY <1>2, <1>3, <3>1, <3>2
  <2>2. pst_list' = [i \in Memory |-> pst_list'[i]]
    BY <1>1 DEF Inserted
  <2>. QED BY <2>1, <2>2
<1>5. \A i \in k .. idx - 1 : pst_list'[i + 1] = pst_list[i] /\ pst_list[i].cpu < cpu
  <2> SUFFICES ASSUME NEW i \in k .. idx - 1
               PROVE  pst_list'[i + 1] = pst_list[i] /\ pst_list[i].cpu < cpu
    OBVIOUS
  <2>1. i + 1 \in Memory /\ i + 1 # k /\ k < i + 1 /\ i + 1 <= idx /\ (i + 1) - 1 = i
    BY <1>0
  <2>2. pst_list'[i + 1] = pst_list[i]
    BY <1>3, <2>1
  <2>3. pst_list[i].cpu < cpu
    BY <1>1 DEF LandsAt, MovesUp
  <2>. QED BY <2>2, <2>3
<1>6. \A i \in 0 .. k - 1 : pst_list[i].cpu >= cpu
  <2> SUFFICES ASSUME NEW i \in 0 .. k - 1 PROVE pst_list[i].cpu >= cpu
    OBVIOUS
  <2>1. pst_list[k - 1].cpu >= cpu
    BY SMTT(30), <1>0, <1>1 DEF LandsAt, MovesUp
  <2>2. pst_list[i].cpu \in Nat /\ pst_list[k - 1].cpu \in Nat
    <3>1. i \in Memory /\ k - 1 \in Memory
      BY <1>0
    <3>. QED BY <1>0, <3>1
  <2>3. pst_list[i].cpu >= pst_list[k - 1].cpu
    <3>1. CASE i = k - 1
      BY <2>2, <3>1
    <3>2. CASE i # k - 1
      <4>1. i \in Listed /\ k - 1 \in Listed /\ i < k - 1
        BY <1>0, <3>2
      <4>. QED BY <2>2, <4>1 DEF ListInv, ListSorted
    <3>. QED BY <3>1, <3>2
  <2>. QED BY <2>1, <2>2, <2>3
<1>7. \A i \in 0 .. k - 1 : pst_list'[i] = pst_list[i]
  <2> SUFFICES ASSUME NEW i \in 0 .. k - 1 PROVE pst_list'[i] = pst_list[i]
    OBVIOUS
  <2>1. i \in Memory /\ i < k
    BY <1>0
  <2>. QED BY <1>3, <2>1
<1>8. \A i \in Memory : i > idx => pst_list'[i] = pst_list[i]
  <2> SUFFICES ASSUME NEW i \in Memory, i > idx PROVE pst_list'[i] = pst_list[i]
    OBVIOUS
  <2>1. i # k /\ ~ (i <= idx)
    BY <1>0
  <2>. QED BY <1>3, <2>1
<1>9. pst_list'[k] = pi
  <2>1. k \in Memory
    BY <1>0
  <2>. QED BY <1>3, <2>1
<1>. QED BY <1>1, <1>4, <1>5, <1>6, <1>7, <1>8, <1>9

\* A further process keeps the invariant.
LEMMA VisitStep ==
  ASSUME ListInv, NEW cpu \in Share, Visit(cpu)
  PROVE  ListInv'
<1>0. /\ pc = "walk" /\ pc' = "walk" /\ amount' = amount
      /\ idx \in Nat /\ idx < MaxWalk /\ idx' = idx + 1 /\ idx + 1 \in Turns
      /\ amount \in -1 .. MaxWalk
      /\ walked \in [Turns -> Share]
      /\ walked' = [walked EXCEPT ![idx + 1] = cpu]
      /\ AddHigher(cpu)
      /\ ShowNum \in Nat \ {0} /\ pst_list \in [Memory -> Entry]
  BY TopListAssumption DEF Visit, ListInv, TypeOK
<1>1. /\ walked' \in [Turns -> Share] /\ walked'[idx + 1] = cpu
      /\ \A n \in 1 .. idx : walked'[n] = walked[n]
  BY <1>0
<1>2. CASE idx >= ShowNum
  <2>1. pst_list' = pst_list
    BY <1>0, <1>2, FullListStays
  <2>2. TypeOK' /\ SpareUntouched'
    BY <1>0, <1>1, <2>1 DEF ListInv, TypeOK, SpareUntouched
  <2>3. EntriesInv'
    BY SMTT(30), <1>0, <1>2, <2>1 DEF ListInv, EntriesInv
  <2>4. ListSorted'
    BY <1>0, <1>2, <2>1 DEF ListInv, ListSorted
  <2>5. ListKeepsFirst'
    BY <1>0, <1>1, <1>2, <2>1 DEF ListInv, ListKeepsFirst
  <2>. QED BY <2>2, <2>3, <2>4, <2>5 DEF ListInv
<1>3. CASE idx < ShowNum
  <2>1. PICK k \in 0 .. idx :
          /\ pst_list' \in [Memory -> Entry]
          /\ pst_list'[k] = [proc |-> idx + 1, cpu |-> cpu]
          /\ \A i \in 0 .. k - 1 : pst_list'[i] = pst_list[i] /\ pst_list[i].cpu >= cpu
          /\ \A i \in k .. idx - 1 :
               pst_list'[i + 1] = pst_list[i] /\ pst_list[i].cpu < cpu
          /\ \A i \in Memory : i > idx => pst_list'[i] = pst_list[i]
    BY <1>0, <1>3, EntryInserted
  <2>2. TypeOK'
    BY <1>0, <1>1, <2>1 DEF ListInv, TypeOK
  <2>3. SpareUntouched'
    BY <1>0, <1>3, <2>1 DEF ListInv, SpareUntouched
  <2>4. \A i \in 0 .. idx : i < k =>
          /\ i \in 0 .. idx - 1
          /\ pst_list'[i] = pst_list[i] /\ pst_list[i].cpu >= cpu
    <3> SUFFICES ASSUME NEW i \in 0 .. idx, i < k
                 PROVE  /\ i \in 0 .. idx - 1
                        /\ pst_list'[i] = pst_list[i] /\ pst_list[i].cpu >= cpu
      OBVIOUS
    <3>1. i \in 0 .. k - 1 /\ i \in 0 .. idx - 1
      BY <1>0
    <3>. QED BY <2>1, <3>1
  <2>5. \A i \in 0 .. idx : i > k =>
          /\ i - 1 \in 0 .. idx - 1
          /\ pst_list'[i] = pst_list[i - 1] /\ pst_list[i - 1].cpu < cpu
    <3> SUFFICES ASSUME NEW i \in 0 .. idx, i > k
                 PROVE  /\ i - 1 \in 0 .. idx - 1
                        /\ pst_list'[i] = pst_list[i - 1] /\ pst_list[i - 1].cpu < cpu
      OBVIOUS
    <3>1. i - 1 \in k .. idx - 1 /\ i - 1 \in 0 .. idx - 1 /\ (i - 1) + 1 = i
      BY <1>0
    <3>. QED BY <2>1, <3>1
  <2>6. \A i \in 0 .. idx - 1 : /\ pst_list[i].proc \in 1 .. idx
                               /\ pst_list[i].proc \in Nat /\ pst_list[i].proc < idx + 1
                               /\ pst_list[i].cpu \in Nat
    <3> SUFFICES ASSUME NEW i \in 0 .. idx - 1
                 PROVE  /\ pst_list[i].proc \in 1 .. idx
                        /\ pst_list[i].proc \in Nat /\ pst_list[i].proc < idx + 1
                        /\ pst_list[i].cpu \in Nat
      OBVIOUS
    <3>1. i \in Memory /\ i \in Listed
      BY <1>0, <1>3
    <3>2. pst_list[i].proc \in 1 .. idx
      BY <3>1 DEF ListInv, EntriesInv
    <3>3. pst_list[i] \in Entry
      BY <1>0, <3>1
    <3>4. pst_list[i].proc \in Nat /\ pst_list[i].proc < idx + 1
      <4>1. idx \in Nat
        BY <1>0
      <4>. QED BY <3>2, <4>1
    <3>. QED BY <3>2, <3>3, <3>4
  <2>7. EntriesInv'
    <3>1. \A i \in 0 .. idx : pst_list'[i].proc \in 1 .. idx + 1
      <4> SUFFICES ASSUME NEW i \in 0 .. idx PROVE pst_list'[i].proc \in 1 .. idx + 1
        OBVIOUS
      <4>0. idx \in Nat
        BY <1>0
      <4>1. CASE i < k
        <5>1. pst_list[i].proc \in 1 .. idx /\ pst_list'[i] = pst_list[i]
          BY <2>4, <2>6, <4>1
        <5>. QED BY <4>0, <5>1
      <4>2. CASE i = k
        <5>1. pst_list'[i].proc = idx + 1
          BY <2>1, <4>2
        <5>. QED BY <4>0, <5>1
      <4>3. CASE i > k
        <5>1. pst_list[i - 1].proc \in 1 .. idx /\ pst_list'[i] = pst_list[i - 1]
          BY <2>5, <2>6, <4>3
        <5>. QED BY <4>0, <5>1
      <4>. QED BY <1>0, <4>1, <4>2, <4>3
    <3>. QED BY SMTT(30), <1>0, <1>3, <3>1 DEF EntriesInv
  <2>8. ListSorted'
    <3> DEFINE Above(e, f) == e.cpu > f.cpu \/ (e.cpu = f.cpu /\ e.proc < f.proc)
    <3>1. \A i, j \in 0 .. idx - 1 : i < j => Above(pst_list[i], pst_list[j])
      BY <1>0, <1>3 DEF ListInv, ListSorted
    <3> SUFFICES ASSUME NEW i \in 0 .. idx, NEW j \in 0 .. idx, i < j
                 PROVE  Above(pst_list'[i], pst_list'[j])
      <4>1. Listed' = 0 .. idx
        BY <1>0, <1>3
      <4>. QED BY <4>1 DEF ListSorted
    <3>2. CASE i < k /\ j < k
      BY <2>4, <3>1, <3>2
    <3>3. CASE i < k /\ j = k
      <4>1. pst_list'[i] = pst_list[i] /\ pst_list[i].cpu >= cpu
        BY <2>4, <3>3
      <4>2. pst_list[i].cpu \in Nat /\ pst_list[i].proc \in Nat /\ pst_list[i].proc < idx + 1
        BY <2>4, <2>6, <3>3
      <4>3. pst_list'[j].cpu = cpu /\ pst_list'[j].proc = idx + 1 /\ cpu \in Nat
        BY <2>1, <3>3, TopListAssumption
      <4>. QED BY SMTT(30), <1>0, <4>1, <4>2, <4>3
    <3>4. CASE i < k /\ j > k
      <4>1. i < j - 1
        BY <1>0, <3>4
      <4>. QED BY <2>4, <2>5, <3>1, <3>4, <4>1
    <3>5. CASE i = k /\ j > k
      <4>1. pst_list'[j].cpu < cpu /\ pst_list'[i].cpu = cpu
        BY <2>1, <2>5, <3>5
      <4>2. pst_list'[j].cpu \in Nat /\ cpu \in Nat
        BY <2>5, <2>6, <3>5, TopListAssumption
      <4>. QED BY <4>1, <4>2
    <3>6. CASE i > k /\ j > k
      <4>1. i - 1 < j - 1
        BY <1>0
      <4>. QED BY <2>5, <3>1, <3>6, <4>1
    <3>. QED BY <1>0, <3>2, <3>3, <3>4, <3>5, <3>6
  <2>9. ListKeepsFirst'
    <3>1. ASSUME NEW n \in 1 .. idx + 1
          PROVE  \E i \in 0 .. idx : pst_list'[i] = [proc |-> n, cpu |-> walked'[n]]
      <4>1. CASE n = idx + 1
        BY <1>0, <1>1, <2>1, <4>1
      <4>2. CASE n \in 1 .. idx
        <5>1. PICK i \in 0 .. idx - 1 : pst_list[i] = [proc |-> n, cpu |-> walked[n]]
          BY <1>0, <1>3, <4>2 DEF ListInv, ListKeepsFirst
        <5>2. CASE i < k
          <6>1. i \in 0 .. idx
            BY <1>0
          <6>. QED BY <1>1, <2>4, <4>2, <5>1, <5>2, <6>1
        <5>3. CASE i >= k
          <6>1. i \in k .. idx - 1 /\ i + 1 \in 0 .. idx
            BY <1>0, <5>3
          <6>. QED BY <1>1, <2>1, <4>2, <5>1, <6>1
        <5>. QED BY <1>0, <5>2, <5>3
      <4>. QED BY <1>0, <4>1, <4>2
    <3>2. Min2(idx', ShowNum) = idx + 1 /\ Listed' = 0 .. idx
      BY <1>0, <1>3
    <3>. QED BY <3>1, <3>2 DEF ListKeepsFirst
  <2>. QED BY <2>2, <2>3, <2>7, <2>8, <2>9 DEF ListInv
<1>. QED BY <1>0, <1>2, <1>3

\* The end of a walk, and the begin of the next one.
LEMMA WalkSteps ==
  ASSUME ListInv, EndWalk \/ NextWalk
  PROVE  ListInv'
<1>1. CASE EndWalk
  <2>1. /\ idx \in Turns /\ amount' = idx - 1 /\ pc' = "show"
        /\ pst_list' = pst_list /\ idx' = idx /\ walked' = walked
    BY <1>1 DEF EndWalk, ListInv, TypeOK
  <2>2. amount' \in -1 .. MaxWalk
    BY <2>1, TopListAssumption
  <2>3. TypeOK' /\ SpareUntouched'
    BY <2>1, <2>2 DEF ListInv, TypeOK, SpareUntouched
  <2>4. EntriesInv'
    BY <2>1 DEF ListInv, EntriesInv
  <2>5. ListSorted' /\ ListKeepsFirst'
    BY <2>1 DEF ListInv, ListSorted, ListKeepsFirst
  <2>. QED BY <2>3, <2>4, <2>5 DEF ListInv
<1>2. CASE NextWalk
  <2>1. \A i \in Memory : pst_list[i] \in Entry
    BY DEF ListInv, TypeOK
  <2>2. \A i \in Memory : [pst_list[i] EXCEPT !.proc = 0] \in Entry
    BY <2>1, TopListAssumption
  <2>3. pst_list' \in [Memory -> Entry]
    BY <1>2, <2>2 DEF NextWalk
  <2>4. walked' \in [Turns -> Share] /\ idx' \in Turns
    BY <1>2, TopListAssumption DEF NextWalk
  <2>5. SpareUntouched'
    BY <1>2, TopListAssumption DEF NextWalk, ListInv, SpareUntouched
  <2>6. TypeOK' /\ SpareUntouched'
    BY <1>2, <2>3, <2>4, <2>5 DEF NextWalk, ListInv, TypeOK
  <2>7. EntriesInv' /\ ListSorted' /\ ListKeepsFirst'
    BY <1>2, TopListAssumption DEF NextWalk, EntriesInv, ListSorted, ListKeepsFirst
  <2>. QED BY <2>6, <2>7 DEF ListInv
<1>. QED BY <1>1, <1>2

\* The inductive invariant holds in every reachable state.
THEOREM ListInvariant == Spec => []ListInv
<1>1. ListInv /\ [Next]_vars => ListInv'
  <2> SUFFICES ASSUME ListInv, [Next]_vars PROVE ListInv'
    OBVIOUS
  <2>1. CASE UNCHANGED vars
    BY <2>1 DEF vars, ListInv, TypeOK, EntriesInv, ListSorted, ListKeepsFirst,
       SpareUntouched
  <2>. QED BY <2>1, VisitStep, WalkSteps DEF Next
<1>. QED BY <1>1, InitListInv, PTL DEF Spec

\* List, indices and shares keep their types, for every length and walk.
THEOREM ListTypes == Spec => []TypeOK
<1>1. ListInv => TypeOK
  BY DEF ListInv
<1>. QED BY <1>1, ListInvariant, PTL

\* The list is sorted, equal shares in the order of the walk.
THEOREM AlwaysSorted == Spec => []ListSorted
<1>1. ListInv => ListSorted
  BY DEF ListInv
<1>. QED BY <1>1, ListInvariant, PTL

\* The list holds the first SHOW_NUM processes of the walk.
THEOREM FirstOnesKept == Spec => []ListKeepsFirst
<1>1. ListInv => ListKeepsFirst
  BY DEF ListInv
<1>. QED BY <1>1, ListInvariant, PTL

\* Nothing is moved into the spare element.
THEOREM WithinBounds == Spec => []SpareUntouched
<1>1. ListInv => SpareUntouched
  BY DEF ListInv
<1>. QED BY <1>1, ListInvariant, PTL

\* No entry of an earlier cycle is displayed.
THEOREM NothingStaleShown == Spec => []ShowsThisCycle
<1>1. ListInv => ShowsThisCycle
  BY TopListAssumption DEF ListInv, TypeOK, EntriesInv, ShowsThisCycle, Shown
<1>. QED BY <1>1, ListInvariant, PTL

=============================================================================
