------------------------------ MODULE AvlTree ------------------------------
(***************************************************************************)
(* The tree of processes (avltree.c): find, insert with its rotations, and  *)
(* the walk that write_stat and empty() make of it.                         *)
(*                                                                          *)
(* insert works on the tree in place, one pointer after the other, and the  *)
(* signal handler cleanstop may run empty() between any two assignments;    *)
(* so an insertion is modelled assignment by assignment.  A node stands for *)
(* its own address: rotations move pointers, never the contents of a node,  *)
(* and the node of Element x is called x.                                   *)
(***************************************************************************)
EXTENDS Integers, Sequences, SequencesExt

CONSTANT MaxElement     \* pids are 1 .. MaxElement

ASSUME AvlAssumption == MaxElement \in Nat

VARIABLES
  tree,         \* the global root pointer
  left, right,  \* Left and Right of each node
  height,       \* Height of each node; NoHeight before it is set
  nodes,        \* the nodes that are allocated and initialised
  pc,           \* where insert is
  x,            \* the Element being inserted
  path,         \* the nodes whose insert() call is on the stack
  todo          \* the assignments left of the rotation in progress

links == <<tree, left, right>>
vars  == <<links, height, nodes, pc, x, path, todo>>

Elements == 1 .. MaxElement
NULL     == 0
Pointer  == Elements \cup {NULL}
NoHeight == -1

Assignment == [field: {"left", "right", "height", "root"}, of: Elements, to: Pointer]

TypeOK ==
  /\ tree \in Pointer
  /\ left \in [Elements -> Pointer] /\ right \in [Elements -> Pointer]
  /\ height \in [Elements -> {NoHeight} \cup 0 .. MaxElement]
  /\ \A n \in nodes : height[n] # NoHeight
  /\ nodes \in SUBSET Elements
  /\ pc \in {"idle", "descend", "raw", "height", "balance", "rotate"}
  /\ x \in Pointer
  /\ path \in Seq(Elements) /\ Len(path) <= MaxElement
  /\ todo \in Seq(Assignment)

Init ==
  /\ tree = NULL
  /\ left = [e \in Elements |-> NULL] /\ right = [e \in Elements |-> NULL]
  /\ height = [e \in Elements |-> NoHeight]
  /\ nodes = {}
  /\ pc = "idle" /\ x = NULL /\ path = <<>> /\ todo = <<>>

-----------------------------------------------------------------------------
\* find(e, tree).
Find(e) ==
  LET find[t \in Pointer] == IF t \in {NULL, e} THEN t
                             ELSE find[IF e < t THEN left[t] ELSE right[t]]
  IN find[tree]

\* height(t).
Height(t) == IF t = NULL THEN -1 ELSE height[t]
HeightFromSubtrees(t) == 1 + LET l == Height(left[t]) r == Height(right[t])
                             IN IF l > r THEN l ELSE r

\* *root in the call of insert that is reached along p, and an assignment to it.
Root(p) == IF p = <<>> THEN tree
           ELSE IF x < Last(p) THEN left[Last(p)] ELSE right[Last(p)]
SetRoot(p, n) ==
  /\ tree'  = IF p = <<>> THEN n ELSE tree
  /\ left'  = IF p # <<>> /\ x < Last(p) THEN [left EXCEPT ![Last(p)] = n] ELSE left
  /\ right' = IF p # <<>> /\ x > Last(p) THEN [right EXCEPT ![Last(p)] = n] ELSE right

Set(f, n, v) == [field |-> f, of |-> n, to |-> v]

\* Mutant: K1 is linked to K2 before K2 lets go of K1.
SingleRotateCyclic(k2, k1) ==
  << Set("right", k1, k2), Set("left", k2, right[k1]),
     Set("height", k2, NULL), Set("height", k1, NULL) >>
\* Mutant: the subtree between the two nodes is dropped.
SingleRotateDrops(k2, k1) ==
  << Set("left", k2, NULL), Set("right", k1, k2),
     Set("height", k2, NULL), Set("height", k1, NULL) >>

\* The assignments of SingleRotateWithLeft(K2), where K1 is its left child, and of
\* SingleRotateWithRight(K1), where K2 is its right child.
SingleRotateWithLeft(k2, k1) ==
  << Set("left", k2, right[k1]), Set("right", k1, k2),
     Set("height", k2, NULL), Set("height", k1, NULL) >>
SingleRotateWithRight(k1, k2) ==
  << Set("right", k1, left[k2]), Set("left", k2, k1),
     Set("height", k1, NULL), Set("height", k2, NULL) >>

\* DoubleRotateWithLeft(K3) and DoubleRotateWithRight(K1); K2 becomes the root.
DoubleRotateWithLeft(k3) ==
  LET k1 == left[k3]  k2 == right[k1]
  IN SingleRotateWithRight(k1, k2) \o << Set("left", k3, k2) >>
       \o SingleRotateWithLeft(k3, k2) \o << Set("root", k3, k2) >>
DoubleRotateWithRight(k1) ==
  LET k3 == right[k1]  k2 == left[k3]
  IN SingleRotateWithLeft(k3, k2) \o << Set("right", k1, k2) >>
       \o SingleRotateWithRight(k1, k2) \o << Set("root", k1, k2) >>

\* Mutant: the outer grandchild is never told from the inner one.
RotationSingleOnly(t) ==
  IF x < t
    THEN SingleRotateWithLeft(t, left[t]) \o << Set("root", t, left[t]) >>
    ELSE SingleRotateWithRight(t, right[t]) \o << Set("root", t, right[t]) >>

\* The rotation insert chooses at t, the root of a subtree that has become too high
\* on x's side.
Rotation(t) ==
  IF x < t
    THEN IF x < left[t]
           THEN SingleRotateWithLeft(t, left[t]) \o << Set("root", t, left[t]) >>
           ELSE DoubleRotateWithLeft(t)
    ELSE IF x > right[t]
           THEN SingleRotateWithRight(t, right[t]) \o << Set("root", t, right[t]) >>
           ELSE DoubleRotateWithRight(t)

-----------------------------------------------------------------------------
\* read_process_stats: insert(pid, -1, &tree, &position) where find() has no node.
Insert(e) ==
  /\ pc = "idle"
  /\ Find(e) = NULL
  /\ x' = e
  /\ pc' = "descend"
  /\ UNCHANGED <<links, height, nodes, path, todo>>

\* The recursive call for the subtree x belongs to.
Descend ==
  /\ pc = "descend"
  /\ Root(path) # NULL
  /\ path' = Append(path, Root(path))
  /\ UNCHANGED <<links, height, nodes, pc, x, todo>>

\* (*root) = malloc(...): the node is linked, its contents are anything.
Create ==
  /\ pc = "descend"
  /\ Root(path) = NULL
  /\ \E l, r \in nodes \cup {NULL} :
       LET Garbage(f, v) == [f EXCEPT ![x] = v] IN
       /\ tree' = IF path = <<>> THEN x ELSE tree
       /\ left' = Garbage(IF path # <<>> /\ x < Last(path)
                            THEN [left EXCEPT ![Last(path)] = x] ELSE left, l)
       /\ right' = Garbage(IF path # <<>> /\ x > Last(path)
                             THEN [right EXCEPT ![Last(path)] = x] ELSE right, r)
  /\ path' = Append(path, x)
  /\ pc' = "raw"
  /\ UNCHANGED <<height, nodes, x, todo>>

\* Mutant: the height stays unset.
InitialiseLinksOnly ==
  /\ pc = "raw"
  /\ left' = [left EXCEPT ![x] = NULL] /\ right' = [right EXCEPT ![x] = NULL]
  /\ nodes' = nodes \cup {x}
  /\ pc' = "height"
  /\ UNCHANGED <<tree, height, x, path, todo>>

\* memset() and the assignments that follow it.
Initialise ==
  /\ pc = "raw"
  /\ left' = [left EXCEPT ![x] = NULL] /\ right' = [right EXCEPT ![x] = NULL]
  /\ height' = [height EXCEPT ![x] = 0]
  /\ nodes' = nodes \cup {x}
  /\ pc' = "height"
  /\ UNCHANGED <<tree, x, path, todo>>

\* The call for a subtree has returned: is the subtree too high now?
Balance ==
  /\ pc = "balance"
  /\ LET t == Last(path)
         taller == IF x < t THEN Height(left[t]) - Height(right[t])
                            ELSE Height(right[t]) - Height(left[t])
     IN IF taller = 2 THEN pc' = "rotate" /\ todo' = Rotation(t)
                      ELSE pc' = "height" /\ UNCHANGED todo
  /\ UNCHANGED <<links, height, nodes, x, path>>

\* The next assignment of the rotation.
Rotate ==
  /\ pc = "rotate"
  /\ LET a == Head(todo) IN
       \/ /\ a.field = "left"
          /\ left' = [left EXCEPT ![a.of] = a.to]
          /\ UNCHANGED <<tree, right, height>>
       \/ /\ a.field = "right"
          /\ right' = [right EXCEPT ![a.of] = a.to]
          /\ UNCHANGED <<tree, left, height>>
       \/ /\ a.field = "height"
          /\ height' = [height EXCEPT ![a.of] = HeightFromSubtrees(a.of)]
          /\ UNCHANGED links
       \/ /\ a.field = "root"
          /\ SetRoot(Front(path), a.to)
          /\ UNCHANGED height
  /\ todo' = Tail(todo)
  /\ pc' = IF todo' = <<>> THEN "height" ELSE "rotate"
  /\ UNCHANGED <<nodes, x, path>>

\* The last statement of insert: the height of *root; the call returns.
Return ==
  /\ pc = "height"
  /\ LET t == Root(Front(path)) IN
       height' = [height EXCEPT ![t] = HeightFromSubtrees(t)]
  /\ path' = Front(path)
  /\ pc' = IF path' = <<>> THEN "idle" ELSE "balance"
  /\ UNCHANGED <<links, nodes, x, todo>>

\* Every pid has a node: nothing is left to insert.
Full == pc = "idle" /\ nodes = Elements /\ UNCHANGED vars

Next ==
  \/ \E e \in Elements : Insert(e)
  \/ Descend \/ Create \/ Initialise \/ Balance \/ Rotate \/ Return
  \/ Full

Spec == Init /\ [][Next]_vars

-----------------------------------------------------------------------------
\* The order in which write_stat visits the nodes, as far as Depth levels down.
Walk(Depth) ==
  LET walk[d \in 0 .. Depth] ==
        [t \in Pointer |->
           IF t = NULL \/ d = 0 THEN <<>>
           ELSE <<t>> \o walk[d - 1][left[t]] \o walk[d - 1][right[t]]]
  IN walk[Depth][tree]

\* No simple path is longer than this: a walk that is cut off repeats a node.
Visits == Walk(MaxElement + 1)

(***************************************************************************)
(* Properties.                                                              *)
(***************************************************************************)

\* Between two insertions find() gets to the node of every pid inserted so far, the
\* same node as ever (its two samples and its counter stay attached to the pid), and
\* to no other, whatever the order in which the pids came.  So write_stat, which
\* follows the same pointers, visits them all.
FindsEveryNode ==
  pc = "idle" => \A e \in Elements : Find(e) = IF e \in nodes THEN e ELSE NULL

\* Between two insertions the tree is balanced, and insert's own idea of the heights,
\* on which the next rotation is decided, is right.
Balanced ==
  pc = "idle" =>
    \A n \in nodes : /\ height[n] = HeightFromSubtrees(n)
                     /\ Height(left[n]) - Height(right[n]) \in -1 .. 1

\* A signal may come between any two assignments of an insertion, and cleanstop
\* then frees the tree as it is: the walk of empty() must get to an end and
\* never to the same node twice.  (It may miss nodes that a rotation has
\* detached.)  Between malloc() and memset() this is not so, see the README.
FreedOnceMidInsertion == pc # "raw" => IsInjective(Visits)

=============================================================================
