--------------------------- MODULE AvlTreeProofs ---------------------------
(***************************************************************************)
(* AvlTree, proved for every number of pids: at each moment of an insertion *)
(* the links are those of a search tree, also between the assignments of a  *)
(* rotation, where a signal may make cleanstop walk it; and when insert     *)
(* returns, the tree is balanced and find() gets to every node.             *)
(*                                                                          *)
(* First what rotations and assignments do to a tree, then what they do to  *)
(* its heights, then the lists of assignments of which insert's rotations   *)
(* consist, then one lemma for each step of the program.                    *)
(***************************************************************************)
EXTENDS AvlTreeInv, FiniteSetTheorems, SequenceTheorems, WellFoundedInduction, TLAPS

USE DEF NULL, Elements, Pointer

-----------------------------------------------------------------------------
(***************************************************************************)
(* Trees.                                                                   *)
(***************************************************************************)

\* NULL is the address of no node, and the nodes are ordered as numbers are.
LEMMA NullIsNoNode ==
  ASSUME NEW N \in SUBSET Elements
  PROVE  NULL \notin N /\ \A n \in N : n \in Int
  BY AvlAssumption

\* left and right are each other's opposite; a node belongs on one side of another.
LEMMA SideFacts ==
  /\ \A d \in Sides : /\ Opposite(d) \in Sides /\ Opposite(d) # d
                      /\ Opposite(Opposite(d)) = d
                      /\ \A c \in Sides : c # d => c = Opposite(d)
  /\ \A n, e : Side(n, e) \in Sides
  /\ \A d \in Sides, n, e \in Int : n # e => (d = Side(n, e) <=> Toward(d, e, n))
  BY DEF Sides, Opposite, Side, Toward

\* Being to a side of a node is a strict order, reversed for the other side.
LEMMA TowardFacts ==
  ASSUME NEW d \in Sides, NEW a \in Int, NEW b \in Int
  PROVE  /\ ~ Toward(d, a, a)
         /\ Toward(d, a, b) <=> Toward(Opposite(d), b, a)
         /\ ~ (Toward(d, a, b) /\ Toward(Opposite(d), a, b))
         /\ \A c \in Int : Toward(d, a, b) /\ Toward(d, b, c) => Toward(d, a, c)
  BY DEF Toward, Opposite, Sides

\* What the fields of a memory are.
LEMMA MemoryFacts ==
  ASSUME NEW m \in Memories, NEW d \in Sides
  PROVE  /\ m[d] \in [Elements -> Pointer]
         /\ m.left = m["left"] /\ m.right = m["right"]
         /\ m.tree \in Pointer
         /\ m.height \in [Elements -> {NoHeight} \cup 0 .. MaxElement]
  BY DEF Memories, Sides

\* The memory w is m with link d of n set to v; with the height of n set to v.
LinkPut(w, m, d, n, v) ==
  /\ w \in Memories
  /\ w[Opposite(d)] = m[Opposite(d)]
  /\ w[d][n] = v /\ \A o \in Elements : o # n => w[d][o] = m[d][o]
  /\ w.height = m.height /\ w.tree = m.tree

HeightPut(w, m, n, v) ==
  /\ w \in Memories
  /\ w.height[n] = v /\ \A o \in Elements : o # n => w.height[o] = m.height[o]
  /\ \A d \in Sides : w[d] = m[d]
  /\ w.left = m.left /\ w.right = m.right /\ w.tree = m.tree

\* Assigning a link changes this link only.
LEMMA PutLink ==
  ASSUME NEW m \in Memories, NEW d \in Sides, NEW n \in Elements, NEW v \in Pointer
  PROVE  LinkPut(Put(m, d, n, v), m, d, n, v)
  BY DEF Memories, Sides, Opposite, Put, LinkPut

\* Assigning a height changes this height only.
LEMMA PutHeight ==
  ASSUME NEW m \in Memories, NEW n \in Elements, NEW v \in 0 .. MaxElement
  PROVE  HeightPut(Put(m, "height", n, v), m, n, v)
  BY DEF Memories, Sides, Put, HeightPut

\* What exact sets say of a node and its child of a side.
AtNode(m, N, S, n, d) ==
  LET c == m[d][n]  o == m[Opposite(d)][n] IN
  /\ n \in Int /\ c \in N \cup {NULL} /\ o \in N \cup {NULL}
  /\ S[NULL] = {} /\ n \in S[n]
  /\ S[n] = {n} \cup S[c] \cup S[o]
  /\ \A e \in S[c] : e \in Int /\ Toward(d, e, n)
  /\ \A e \in S[o] : e \in Int /\ Toward(Opposite(d), e, n)
  /\ \A k \in N \cup {NULL} : S[k] \in SUBSET N
  /\ n # c /\ n # o /\ n \notin S[c] /\ n \notin S[o]
  /\ c # NULL => c # o /\ c \in S[c]

\* In a whole tree, so it is at every node.
LEMMA WholeFacts ==
  ASSUME NEW N \in SUBSET Elements, NEW m \in Memories, NEW S, Whole(m, N, S),
         NEW n \in N, NEW d \in Sides
  PROVE  AtNode(m, N, S, n, d)
<1> DEFINE c == m[d][n]  o == m[Opposite(d)][n]
<1>1. /\ n \in Int /\ c \in N \cup {NULL} /\ o \in N \cup {NULL}
      /\ S[NULL] = {} /\ n \in S[n]
      /\ \A k \in N \cup {NULL} : S[k] \in SUBSET N
      /\ S[c] \in SUBSET N /\ S[o] \in SUBSET N
  BY NullIsNoNode, SideFacts DEF Whole, Sorted, Linked, Below
<1>2. S[n] = {n} \cup S[c] \cup S[o]
  BY DEF Whole, Sides, Opposite
<1>3. /\ \A e \in S[c] : e \in Int /\ Toward(d, e, n)
      /\ \A e \in S[o] : e \in Int /\ Toward(Opposite(d), e, n)
  <2>1. \A e \in S[c] \cup S[o] : e \in Int
    BY <1>1, NullIsNoNode
  <2>. QED BY <2>1, SideFacts DEF Whole, Sorted
<1>4. \A k \in N : k \in S[k]
  BY DEF Whole, Sorted
<1>5. n \notin S[c] /\ n \notin S[o] /\ n # c /\ n # o
  BY <1>1, <1>3, <1>4, TowardFacts, SideFacts
<1>6. c # NULL => c # o /\ c \in S[c]
  BY <1>1, <1>3, <1>4, TowardFacts
<1>. QED BY <1>1, <1>2, <1>3, <1>5, <1>6 DEF AtNode

\* The root is nobody's child.
LEMMA RootIsNoChild ==
  ASSUME NEW N \in SUBSET Elements, NEW m \in Memories, NEW S, Whole(m, N, S),
         NEW n \in N, NEW d \in Sides
  PROVE  m[d][n] # m.tree
<1>1. AtNode(m, N, S, n, d) /\ S[m.tree] = N
  BY WholeFacts DEF Whole
<1>. QED BY <1>1 DEF AtNode

-----------------------------------------------------------------------------
(***************************************************************************)
(* Heights.                                                                 *)
(***************************************************************************)

\* Heights and leans are numbers, the same said for either side.
LEMMA HeightFacts ==
  ASSUME NEW m \in Memories, NEW n \in Elements, NEW d \in Sides
  PROVE  LET a == HeightIn(m, m[d][n])  b == HeightIn(m, m[Opposite(d)][n]) IN
         /\ a \in Int /\ b \in Int /\ a >= -1 /\ b >= -1
         /\ FromSubtrees(m, n) = 1 + Taller(a, b)
         /\ FromSubtrees(m, n) \in Nat
         /\ Lean(m, n, d) = a - b
         /\ Lean(m, n, "left") \in -1 .. 1 <=> a - b \in -1 .. 1
<1> DEFINE l == HeightIn(m, m.left[n])  r == HeightIn(m, m.right[n])
<1>1. l \in Int /\ l >= -1 /\ r \in Int /\ r >= -1
  <2>1. \A t \in Pointer : HeightIn(m, t) \in Int /\ HeightIn(m, t) >= -1
    BY AvlAssumption, MemoryFacts DEF HeightIn, NoHeight, Sides
  <2>2. m.left[n] \in Pointer /\ m.right[n] \in Pointer
    BY DEF Memories
  <2>. QED BY <2>1, <2>2
<1>2. /\ FromSubtrees(m, n) = 1 + Taller(l, r)
      /\ Lean(m, n, "left") = l - r /\ Lean(m, n, "right") = r - l
  BY DEF FromSubtrees, Lean, Opposite, Memories
<1>. HIDE DEF l, r
<1>3. CASE d = "left"
  BY <1>1, <1>2, <1>3 DEF l, r, Opposite, Taller, Memories
<1>4. CASE d = "right"
  BY <1>1, <1>2, <1>4 DEF l, r, Opposite, Taller, Memories
<1>. QED BY <1>3, <1>4 DEF Sides

\* The set below a node is larger than those below its children.
LEMMA Smaller ==
  ASSUME NEW N \in SUBSET Elements, NEW m \in Memories, NEW S, Whole(m, N, S), NEW n \in N
  PROVE  /\ Cardinality(S[n]) \in Nat /\ Cardinality(S[n]) <= Cardinality(N)
         /\ Cardinality(N) <= MaxElement /\ Cardinality(N) \in Nat
         /\ \A d \in Sides : /\ Cardinality(S[m[d][n]]) \in Nat
                             /\ Cardinality(S[m[d][n]]) < Cardinality(S[n])
<1>1. IsFiniteSet(Elements) /\ Cardinality(Elements) = MaxElement
  BY FS_Interval, AvlAssumption
<1>2. IsFiniteSet(N) /\ Cardinality(N) <= MaxElement /\ Cardinality(N) \in Nat
  BY <1>1, FS_Subset, FS_CardinalityType
<1>3. S[n] \in SUBSET N
  BY DEF Whole, Sorted, Below
<1>4. IsFiniteSet(S[n]) /\ Cardinality(S[n]) <= Cardinality(N) /\ Cardinality(S[n]) \in Nat
  BY <1>2, <1>3, FS_Subset, FS_CardinalityType
<1>5. ASSUME NEW d \in Sides
      PROVE  /\ Cardinality(S[m[d][n]]) \in Nat
             /\ Cardinality(S[m[d][n]]) < Cardinality(S[n])
  <2>1. S[m[d][n]] \in SUBSET S[n] /\ S[m[d][n]] # S[n]
    <3>1. AtNode(m, N, S, n, d)
      BY WholeFacts
    <3>. QED BY <3>1 DEF AtNode
  <2>. QED BY <1>4, <2>1, FS_Subset, FS_CardinalityType
<1>. QED BY <1>2, <1>4, <1>5

\* A height taken from the children is low if theirs are.
LEMMA LowFromChildren ==
  ASSUME NEW N \in SUBSET Elements, NEW m \in Memories, NEW S, Whole(m, N, S), NEW n \in N,
         \A d \in Sides : m[d][n] # NULL =>
           m.height[m[d][n]] \in 0 .. Cardinality(S[m[d][n]]) - 1
  PROVE  FromSubtrees(m, n) \in 0 .. Cardinality(S[n]) - 1
<1>1. ASSUME NEW d \in Sides
      PROVE  HeightIn(m, m[d][n]) + 1 <= Cardinality(S[n]) - 1
  <2>1. Cardinality(S[n]) \in Nat /\ Cardinality(S[m[d][n]]) \in Nat
        /\ Cardinality(S[m[d][n]]) < Cardinality(S[n])
    BY Smaller
  <2>. QED BY <2>1 DEF HeightIn
<1>2. Cardinality(S[n]) \in Nat
  BY Smaller
<1>. QED BY <1>1, <1>2, SideFacts, HeightFacts DEF Taller, Sides

-----------------------------------------------------------------------------
(***************************************************************************)
(* Single rotations: k2, the root of a subtree, and k1, its child of side d, *)
(* change places.                                                           *)
(***************************************************************************)

\* The sets below the two nodes once k1 is above k2.
Turned(m, S, d, k2, k1) ==
  [S EXCEPT ![k1] = S[k2],
            ![k2] = {k2} \cup S[m[Opposite(d)][k1]] \cup S[m[Opposite(d)][k2]]]

\* What is true of these sets, T.
AtTurn(m, N, S, T, d, k2, k1) ==
  LET o == Opposite(d)  a == m[d][k1]  b == m[o][k1]  c == m[o][k2] IN
  /\ k1 # k2 /\ b # k1 /\ b # k2 /\ c # k1 /\ c # k2 /\ a # k1 /\ a # k2
  /\ a \in N \cup {NULL} /\ b \in N \cup {NULL} /\ c \in N \cup {NULL}
  /\ S[a] \subseteq S[k2] /\ S[b] \subseteq S[k2] /\ S[c] \subseteq S[k2]
  /\ T \in Below(N) /\ T[NULL] = {}
  /\ T[k1] = S[k2] /\ T[k2] = {k2} \cup T[b] \cup T[c]
  /\ T[k1] = {k1} \cup T[a] \cup T[k2]
  /\ \A e \in T[a] : Toward(d, e, k1)
  /\ \A e \in T[k2] : Toward(o, e, k1) /\ e \in S[k2]
  /\ \A e \in T[b] : Toward(d, e, k2)
  /\ \A e \in T[c] : Toward(o, e, k2)
  /\ \A n \in (N \cup {NULL}) \ {k1, k2} : T[n] = S[n]
  /\ \A n \in N : n \in T[n]

\* Just this is true of them.
LEMMA TurnSets ==
  ASSUME NEW N \in SUBSET Elements, NEW m \in Memories, NEW S, Whole(m, N, S),
         NEW d \in Sides, NEW k2 \in N, NEW k1 \in N, k1 = m[d][k2]
  PROVE  AtTurn(m, N, S, Turned(m, S, d, k2, k1), d, k2, k1)
<1> DEFINE T == Turned(m, S, d, k2, k1)
           o == Opposite(d)
           a == m[d][k1]
           b == m[o][k1]
           c == m[o][k2]
<1>00. AtNode(m, N, S, k1, d) /\ AtNode(m, N, S, k2, d)
  BY WholeFacts
<1>0. NULL \notin N /\ k1 \in Int /\ k2 \in Int
  BY NullIsNoNode
<1>1. /\ a \in N \cup {NULL} /\ b \in N \cup {NULL}
      /\ S[k1] = {k1} \cup S[a] \cup S[b]
      /\ \A e \in S[a] : e \in Int /\ Toward(d, e, k1)
      /\ \A e \in S[b] : e \in Int /\ Toward(o, e, k1)
      /\ k1 \in S[k1]
  BY <1>00 DEF AtNode
<1>2. /\ c \in N \cup {NULL}
      /\ S[k2] = {k2} \cup S[k1] \cup S[c]
      /\ \A e \in S[k1] : e \in Int /\ Toward(d, e, k2)
      /\ \A e \in S[c] : e \in Int /\ Toward(o, e, k2)
      /\ \A k \in N \cup {NULL} : S[k] \in SUBSET N
      /\ S[NULL] = {} /\ k2 \in S[k2]
  BY <1>00 DEF AtNode
<1>3. S \in Below(N) /\ \A n \in N : n \in S[n]
  BY DEF Whole, Sorted
<1>. HIDE DEF a, b, c, o
<1>4. Toward(d, k1, k2) /\ Toward(o, k2, k1)
  BY <1>0, <1>1, <1>2, TowardFacts DEF o
<1>5. k1 # k2 /\ b # k1 /\ b # k2 /\ c # k1 /\ c # k2 /\ a # k1 /\ a # k2
  BY <1>0, <1>1, <1>2, <1>3, <1>4, TowardFacts, SideFacts DEF o
<1>6. T = [S EXCEPT ![k1] = S[k2], ![k2] = {k2} \cup S[b] \cup S[c]]
  BY DEF Turned, b, c, o
<1>7. /\ T[k1] = S[k2] /\ T[k2] = {k2} \cup S[b] \cup S[c]
      /\ \A n \in (N \cup {NULL}) \ {k1, k2} : T[n] = S[n]
  BY <1>3, <1>5, <1>6 DEF Below
<1>8. T \in Below(N)
  BY <1>1, <1>2, <1>3, <1>6 DEF Below
<1>. HIDE DEF T
<1>9. T[a] = S[a] /\ T[b] = S[b] /\ T[c] = S[c] /\ T[NULL] = {}
  BY <1>0, <1>1, <1>2, <1>5, <1>7
<1>10. \A e \in T[k2] : Toward(o, e, k1) /\ e \in S[k2]
  <2>1. \A e \in S[c] : Toward(o, e, k1)
    BY <1>0, <1>2, <1>4, TowardFacts, SideFacts DEF o
  <2>. QED BY <1>1, <1>2, <1>4, <1>7, <2>1
<1>11. T[k1] = {k1} \cup T[a] \cup T[k2]
  BY <1>1, <1>2, <1>7, <1>9
<1>12. /\ \A e \in T[a] : Toward(d, e, k1)
       /\ \A e \in T[b] : Toward(d, e, k2)
       /\ \A e \in T[c] : Toward(o, e, k2)
       /\ S[a] \subseteq S[k2] /\ S[b] \subseteq S[k2] /\ S[c] \subseteq S[k2]
  BY <1>1, <1>2, <1>9
<1>13. \A n \in N : n \in T[n]
  BY <1>1, <1>2, <1>3, <1>7
<1>. QED BY <1>1, <1>2, <1>5, <1>7, <1>8, <1>9, <1>10, <1>11, <1>12, <1>13
         DEF T, a, b, c, o, AtTurn

\* After the first assignment both nodes lead to the subtree between them; after the
\* second one k1 is above k2, but nothing leads to k1.
LEMMA TurnHalf ==
  ASSUME NEW N \in SUBSET Elements, NEW m \in Memories, NEW S, Whole(m, N, S),
         NEW d \in Sides, NEW o, o = Opposite(d),
         NEW k2 \in N, NEW k1 \in N, k1 = m[d][k2],
         NEW h \in Memories, h.tree = m.tree,
         h[d][k2] = m[o][k1], \A n \in N \ {k2} : h[d][n] = m[d][n],
         \A n \in N \ {k1} : h[o][n] = m[o][n]
  PROVE  /\ h[o][k1] = m[o][k1] => Sorted(h, N, S)
         /\ h[o][k1] = k2 => Sorted(h, N, Turned(m, S, d, k2, k1))
<1> DEFINE T == Turned(m, S, d, k2, k1)
           b == m[o][k1]
           Placed(H, n, c) == /\ \A e \in H[h[c][n]] : e \in H[n] /\ Toward(c, e, n)
                              /\ h[c][n] \in N \cup {NULL}
<1>0. NULL \notin N /\ o \in Sides
  BY NullIsNoNode, SideFacts
<1>1. AtTurn(m, N, S, T, d, k2, k1)
  BY TurnSets
<1>. HIDE DEF T
<1>2. /\ S \in Below(N) /\ S[NULL] = {} /\ m.tree \in N \cup {NULL}
      /\ \A n \in N : n \in S[n]
      /\ \A n \in N, c \in Sides : /\ \A e \in S[m[c][n]] : e \in S[n] /\ Toward(c, e, n)
                                   /\ m[c][n] \in N \cup {NULL}
  BY DEF Whole, Sorted, Linked
<1>3. /\ h[d][k2] = b
      /\ \A n \in N \ {k2} : h[d][n] = m[d][n]
      /\ \A n \in N \ {k1} : h[o][n] = m[o][n]
  OBVIOUS
<1>4. b \in N \cup {NULL} /\ b # k1 /\ b # k2 /\ k1 # k2
  BY <1>1 DEF AtTurn
<1>5. ASSUME NEW H \in Below(N), H[NULL] = {}, \A n \in N : n \in H[n],
             \A n \in N : Placed(H, n, d) /\ Placed(H, n, o)
      PROVE  Sorted(h, N, H)
  <2>1. \A c \in Sides : c = d \/ c = o
    BY SideFacts
  <2>2. \A n \in N, c \in Sides : Placed(H, n, c)
    <3>. HIDE DEF Placed
    <3>. QED BY <1>5, <2>1
  <2>. QED BY <1>2, <1>5, <2>2 DEF Sorted, Linked
<1>6. ASSUME h[o][k1] = m[o][k1] PROVE Sorted(h, N, S)
  <2>1. S[b] \subseteq S[k2] /\ \A e \in S[b] : Toward(d, e, k2)
    BY <1>0, <1>1, <1>4 DEF AtTurn
  <2>2. ASSUME NEW n \in N PROVE Placed(S, n, d)
    <3>1. CASE n = k2
      BY <1>3, <1>4, <2>1, <3>1
    <3>2. CASE n # k2
      BY <1>2, <1>3, <3>2
    <3>. QED BY <3>1, <3>2
  <2>3. ASSUME NEW n \in N PROVE Placed(S, n, o)
    <3>1. h[o][n] = m[o][n]
      BY <1>3, <1>6
    <3>. QED BY <1>0, <1>2, <3>1
  <2>. QED BY <1>2, <1>5, <2>2, <2>3
<1>7. ASSUME h[o][k1] = k2 PROVE Sorted(h, N, T)
  <2>1. /\ h[o][k1] = k2
        /\ \A n \in N \ {k1} : h[o][n] = m[o][n]
    BY <1>3, <1>7
  <2>2. ASSUME NEW n \in N \ {k1, k2}, NEW c \in Sides PROVE Placed(T, n, c)
    <3>1. h[c][n] = m[c][n] /\ m[c][n] \in N \cup {NULL} /\ T[n] = S[n]
      <4>1. c = d \/ c = o
        BY SideFacts
      <4>2. T[n] = S[n]
        BY <1>1 DEF AtTurn
      <4>3. h[d][n] = m[d][n] /\ h[o][n] = m[o][n]
        BY <1>3, <2>1
      <4>. QED BY <1>2, <4>1, <4>2, <4>3
    <3>2. m[c][n] # k1
      <4>1. \A j, k \in N, e, f \in Sides : m[e][j] = m[f][k] /\ m[e][j] # NULL => j = k
        BY DEF Whole
      <4>2. m[c][n] = m[d][k2] /\ m[c][n] # NULL => n = k2
        BY <4>1
      <4>. QED BY <1>0, <4>2
    <3>3. T[m[c][n]] \subseteq S[m[c][n]]
      BY <1>1, <3>1, <3>2 DEF AtTurn
    <3>. QED BY <1>2, <3>1, <3>3
  <2>3. Placed(T, k1, d) /\ Placed(T, k1, o)
    BY <1>1, <1>3, <1>4, <2>1 DEF AtTurn
  <2>4. Placed(T, k2, d) /\ Placed(T, k2, o)
    BY <1>1, <1>3, <1>4, <2>1 DEF AtTurn
  <2>5. \A n \in N : Placed(T, n, d) /\ Placed(T, n, o)
    <3>. HIDE DEF Placed
    <3>. QED BY <1>0, <2>2, <2>3, <2>4
  <2>6. T \in Below(N) /\ T[NULL] = {} /\ \A n \in N : n \in T[n]
    BY <1>1 DEF AtTurn
  <2>. QED BY <1>5, <2>5, <2>6
<1>. QED BY <1>6, <1>7 DEF T

\* e has the links of m at the nodes R, but for those that were to t: they are to r.
Relinked(m, e, R, t, r) ==
  /\ e.tree = IF m.tree = t THEN r ELSE m.tree
  /\ \A n \in R, c \in Sides : e[c][n] = IF m[c][n] = t THEN r ELSE m[c][n]

\* Setting the one pointer to a node relinks it.
LEMMA RootPointer ==
  ASSUME NEW N \in SUBSET Elements, NEW m \in Memories, NEW S, Whole(m, N, S),
         NEW R \in SUBSET N, NEW t \in N, NEW r \in N, m.tree = t,
         NEW e, e.tree = r, \A n \in R, c \in Sides : e[c][n] = m[c][n]
  PROVE  Relinked(m, e, R, t, r)
<1>1. \A n \in R, c \in Sides : m[c][n] # t
  BY RootIsNoChild
<1>. QED BY <1>1 DEF Relinked

\* The same for a link that leads to the node.
LEMMA OnePointer ==
  ASSUME NEW N \in SUBSET Elements, NEW m \in Memories, NEW S, Whole(m, N, S),
         NEW R \in SUBSET N, NEW t \in N, NEW r \in N,
         NEW k \in Memories, k.tree = m.tree, \A n \in R, c \in Sides : k[c][n] = m[c][n]
  PROVE  \A p \in R, f \in Sides : m[f][p] = t => Relinked(m, Put(k, f, p, r), R, t, r)
<1>0. NULL \notin N
  BY NullIsNoNode
<1>2. ASSUME NEW p \in R, NEW f \in Sides, m[f][p] = t
      PROVE  Relinked(m, Put(k, f, p, r), R, t, r)
  <2> DEFINE e == Put(k, f, p, r)
  <2>1. m.tree # t
    BY <1>2, RootIsNoChild
  <2>2. /\ e.tree = k.tree /\ e[f][p] = r
        /\ \A n \in R : n # p => e[f][n] = k[f][n]
        /\ e[Opposite(f)] = k[Opposite(f)]
    <3>1. k \in Memories /\ f \in Sides /\ p \in Elements /\ r \in Pointer
      OBVIOUS
    <3>2. LinkPut(e, k, f, p, r)
      BY <3>1, PutLink
    <3>. QED BY <3>1, <3>2 DEF LinkPut
  <2>3. m[Opposite(f)][p] # t
    <3>1. AtNode(m, N, S, p, f)
      BY WholeFacts
    <3>. QED BY <1>0, <1>2, <3>1 DEF AtNode
  <2>4. ASSUME NEW n \in R, n # p, NEW c \in Sides PROVE m[c][n] # t
    <3>1. m[c][n] = m[f][p] /\ m[c][n] # NULL => n = p
      BY DEF Whole
    <3>. QED BY <1>0, <1>2, <2>4, <3>1
  <2>5. ASSUME NEW n \in R, NEW c \in Sides
        PROVE  e[c][n] = IF m[c][n] = t THEN r ELSE m[c][n]
    <3>1. c = f \/ c = Opposite(f)
      BY SideFacts
    <3>2. CASE n = p
      BY <1>2, <2>2, <2>3, <3>1, <3>2
    <3>3. CASE n # p
      BY <2>2, <2>4, <3>1, <3>3
    <3>. QED BY <3>2, <3>3
  <2>. QED BY <2>1, <2>2, <2>5 DEF Relinked
<1>. QED BY <1>2

\* With its last assignment the rotation is complete and the tree whole again.
Rotated(m, e, N, d, k2, k1) ==
  /\ e[d][k1] = m[d][k1] /\ e[Opposite(d)][k1] = k2
  /\ e[d][k2] = m[Opposite(d)][k1] /\ e[Opposite(d)][k2] = m[Opposite(d)][k2]
  /\ Relinked(m, e, N \ {k1, k2}, k2, k1)

\* A finished single rotation leaves a whole tree, with the sets of Turned.
LEMMA TurnWhole ==
  ASSUME NEW N \in SUBSET Elements, NEW m \in Memories, NEW S, Whole(m, N, S),
         NEW d \in Sides, NEW k2 \in N, NEW k1 \in N, k1 = m[d][k2],
         NEW e \in Memories, Rotated(m, e, N, d, k2, k1)
  PROVE  Whole(e, N, Turned(m, S, d, k2, k1))
<1> DEFINE T == Turned(m, S, d, k2, k1)
           o == Opposite(d)
           a == m[d][k1]
           b == m[o][k1]
           c == m[o][k2]
           R == N \ {k1, k2}
<1>0. NULL \notin N /\ o \in Sides /\ d # o /\ \A f \in Sides : f = d \/ f = o
  BY NullIsNoNode, SideFacts
<1>1. /\ k1 # k2 /\ b # k1 /\ b # k2 /\ c # k1 /\ c # k2 /\ a # k1 /\ a # k2
      /\ a \in N \cup {NULL} /\ b \in N \cup {NULL} /\ c \in N \cup {NULL}
      /\ T \in Below(N) /\ T[NULL] = {}
      /\ T[k1] = S[k2] /\ T[k2] = {k2} \cup T[b] \cup T[c]
      /\ T[k1] = {k1} \cup T[a] \cup T[k2]
      /\ \A n \in T[a] : Toward(d, n, k1)
      /\ \A n \in T[k2] : Toward(o, n, k1) /\ n \in S[k2]
      /\ \A n \in T[b] : Toward(d, n, k2)
      /\ \A n \in T[c] : Toward(o, n, k2)
      /\ \A n \in (N \cup {NULL}) \ {k1, k2} : T[n] = S[n]
      /\ \A n \in N : n \in T[n]
  BY TurnSets DEF AtTurn
<1>2. /\ e[d][k1] = a /\ e[o][k1] = k2 /\ e[d][k2] = b /\ e[o][k2] = c
      /\ e.tree = IF m.tree = k2 THEN k1 ELSE m.tree
      /\ \A n \in R, f \in Sides : e[f][n] = IF m[f][n] = k2 THEN k1 ELSE m[f][n]
  BY DEF Rotated, Relinked
<1>. HIDE DEF T, a, b, c, o
\* The set below a child of another node is the same as before.
<1>3. ASSUME NEW n \in R, NEW f \in Sides
      PROVE  /\ e[f][n] \in N \cup {NULL} /\ T[e[f][n]] = S[m[f][n]]
             /\ m[f][n] # k1 /\ (e[f][n] = k1 <=> m[f][n] = k2)
             /\ e[f][n] # k2
  <2>1. m[f][n] = m[d][k2] /\ m[f][n] # NULL => n = k2
    BY DEF Whole
  <2>2. m[f][n] \in N \cup {NULL}
    BY DEF Whole, Sorted, Linked
  <2>3. m[f][n] # k1
    BY <1>0, <2>1
  <2>4. e[f][n] = IF m[f][n] = k2 THEN k1 ELSE m[f][n]
    BY <1>2
  <2>. QED BY <1>0, <1>1, <2>2, <2>3, <2>4
<1>4. m.tree # k1 /\ m.tree \in N \cup {NULL} /\ S[m.tree] = N
  BY RootIsNoChild DEF Whole, Sorted, Linked
<1>5. e.tree \in N \cup {NULL} /\ T[e.tree] = N
  BY ZenonT(40), <1>0, <1>1, <1>2, <1>4
<1>6. ASSUME NEW n \in N, NEW f \in Sides
      PROVE  /\ e[f][n] \in N \cup {NULL}
             /\ \A i \in T[e[f][n]] : i \in T[n] /\ Toward(f, i, n)
  <2>1. CASE n \in R
    <3>1. /\ \A i \in S[m[f][n]] : i \in S[n] /\ Toward(f, i, n)
      BY DEF Whole, Sorted
    <3>. QED BY <1>1, <1>3, <2>1, <3>1
  <2>2. CASE n = k1
    BY <1>0, <1>1, <1>2, <2>2
  <2>3. CASE n = k2
    BY <1>0, <1>1, <1>2, <2>3
  <2>. QED BY <2>1, <2>2, <2>3
<1>7. Sorted(e, N, T)
  BY <1>1, <1>5, <1>6 DEF Sorted, Linked
<1>8. ASSUME NEW n \in N PROVE T[n] = {n} \cup T[e.left[n]] \cup T[e.right[n]]
  <2>1. T[n] = {n} \cup T[e[d][n]] \cup T[e[o][n]]
    <3>1. CASE n \in R
      <4>1. S[n] = {n} \cup S[m[d][n]] \cup S[m[o][n]]
        <5>1. AtNode(m, N, S, n, d)
          BY WholeFacts
        <5>. QED BY <5>1 DEF AtNode, o
      <4>. QED BY <1>0, <1>1, <1>3, <3>1, <4>1
    <3>2. CASE n = k1
      BY <1>1, <1>2, <3>2
    <3>3. CASE n = k2
      BY <1>1, <1>2, <3>3
    <3>. QED BY <3>1, <3>2, <3>3
  <2>. QED BY <2>1, <1>0, MemoryFacts DEF Sides
<1>9. ASSUME NEW n \in N, NEW k \in N, NEW f \in Sides, NEW g \in Sides,
             e[f][n] = e[g][k], e[f][n] # NULL
      PROVE  n = k
  <2>1. \A i, j \in N, u, v \in Sides : m[u][i] = m[v][j] /\ m[u][i] # NULL => i = j
    BY DEF Whole
  <2>2. /\ a # b \/ a = NULL
        /\ b # c \/ b = NULL
        /\ a # c \/ a = NULL
    <3>1. m[d][k1] = m[o][k2] /\ m[d][k1] # NULL => k1 = k2
      BY <1>0, <2>1
    <3>2. m[o][k1] = m[o][k2] /\ m[o][k1] # NULL => k1 = k2
      BY <1>0, <2>1
    <3>3. m[d][k1] # NULL => m[d][k1] # m[o][k1]
      <4>1. AtNode(m, N, S, k1, d)
        BY WholeFacts
      <4>. QED BY <4>1 DEF AtNode, o
    <3>. QED BY <1>1, <3>1, <3>2, <3>3 DEF a, b, c
  <2>3. ASSUME NEW i \in R, NEW u \in Sides
        PROVE  /\ e[u][i] # NULL => e[u][i] \notin {a, b, c}
               /\ e[u][i] # k2
    <3>1. /\ m[u][i] = m[d][k1] /\ m[u][i] # NULL => i = k1
          /\ m[u][i] = m[o][k1] /\ m[u][i] # NULL => i = k1
          /\ m[u][i] = m[o][k2] /\ m[u][i] # NULL => i = k2
      BY <1>0, <2>1
    <3>2. e[u][i] = (IF m[u][i] = k2 THEN k1 ELSE m[u][i]) /\ e[u][i] # k2
      BY <1>2, <1>3
    <3>3. m[u][i] # NULL => m[u][i] \notin {a, b, c}
      BY <3>1 DEF a, b, c
    <3>. QED BY <1>0, <1>1, <3>2, <3>3
  <2>4. CASE n \in R /\ k \in R
    <3>1. m[f][n] = m[g][k] /\ m[f][n] # NULL
      BY <1>0, <1>2, <1>3, <1>9, <2>4
    <3>. QED BY <2>1, <3>1
  <2>5. CASE n \in R /\ k \notin R
    <3>1. e[g][k] \in {a, b, c, k2}
      BY <1>0, <1>2, <2>5
    <3>. QED BY <1>9, <2>3, <2>5, <3>1
  <2>6. CASE n \notin R /\ k \in R
    <3>1. e[f][n] \in {a, b, c, k2}
      BY <1>0, <1>2, <2>6
    <3>. QED BY <1>9, <2>3, <2>6, <3>1
  <2>7. CASE n \notin R /\ k \notin R
    BY <1>0, <1>1, <1>2, <1>9, <2>2, <2>7
  <2>. QED BY <2>4, <2>5, <2>6, <2>7
<1>. QED BY <1>5, <1>7, <1>8, <1>9 DEF Whole, T

-----------------------------------------------------------------------------
(***************************************************************************)
(* Chains of nodes, and heights again.                                      *)
(***************************************************************************)

\* A set of numbers has a least element.
LEMMA LeastElement ==
  ASSUME NEW T \in SUBSET Nat, T # {}
  PROVE  \E n \in T : \A m \in T : n <= m
<1> DEFINE R == OpToRel(<, Nat)
<1>1. IsWellFoundedOn(R, Nat)
  BY NatLessThanWellFounded
<1>2. ASSUME NEW m \in Nat, NEW n \in Nat, m < n PROVE <<m, n>> \in R
  BY <1>2 DEF OpToRel
<1>. HIDE DEF R
<1>3. PICK n \in T : \A m \in T : ~ (<<m, n>> \in R)
  BY <1>1, WFMin
<1>4. ASSUME NEW m \in T PROVE n <= m
  <2>1. m \in Nat /\ n \in Nat /\ ~ (<<m, n>> \in R)
    BY <1>3
  <2>2. ~ (m < n)
    BY <1>2, <2>1
  <2>. QED BY <2>1, <2>2
<1>. QED BY <1>4

\* Where every height is right, none is too high for the number of nodes.
LEMMA RightIsLow ==
  ASSUME NEW N \in SUBSET Elements, NEW m \in Memories, NEW S, Whole(m, N, S),
         \A n \in N : Right(m, n)
  PROVE  Low(m, N, S)
<1> DEFINE Fine(n) == m.height[n] \in 0 .. Cardinality(S[n]) - 1
           Sizes == {Cardinality(S[n]) : n \in {k \in N : ~ Fine(k)}}
<1>1. SUFFICES ASSUME ~ Low(m, N, S) PROVE FALSE
  OBVIOUS
<1>2. Sizes # {}
  BY <1>1 DEF Low
<1>3. \A n \in N : Cardinality(S[n]) \in Nat
  BY Smaller
<1>. HIDE DEF Fine
<1>4. Sizes \in SUBSET Nat
  BY <1>3
<1>5. PICK s \in Sizes : \A z \in Sizes : s <= z
  BY <1>2, <1>4, LeastElement
<1>6. PICK n \in N : ~ Fine(n) /\ s = Cardinality(S[n])
  BY <1>5
<1>7. ASSUME NEW d \in Sides, m[d][n] # NULL PROVE Fine(m[d][n])
  <2>1. m[d][n] \in N
    BY <1>7 DEF Whole, Sorted, Linked
  <2>2. Cardinality(S[m[d][n]]) \in Nat /\ Cardinality(S[m[d][n]]) < Cardinality(S[n])
    BY Smaller
  <2>. QED BY <1>3, <1>5, <1>6, <2>1, <2>2
<1>8. FromSubtrees(m, n) \in 0 .. Cardinality(S[n]) - 1
  BY <1>7, LowFromChildren DEF Fine
<1>. QED BY <1>6, <1>8 DEF Fine, Right

\* What is said of n depends on the height of n and on those of its children only.
LEMMA SameHeights ==
  ASSUME NEW m \in Memories, NEW e \in Memories, NEW n \in Elements,
         \A d \in Sides : HeightIn(e, e[d][n]) = HeightIn(m, m[d][n])
  PROVE  /\ FromSubtrees(e, n) = FromSubtrees(m, n)
         /\ \A d \in Sides : Lean(e, n, d) = Lean(m, n, d)
         /\ e.height[n] = m.height[n] => (Right(e, n) <=> Right(m, n))
<1>1. "left" \in Sides /\ "right" \in Sides /\ Opposite("left") = "right"
      /\ Opposite("right") = "left"
  BY DEF Sides, Opposite
<1>2. /\ HeightIn(e, e["left"][n]) = HeightIn(m, m["left"][n])
      /\ HeightIn(e, e["right"][n]) = HeightIn(m, m["right"][n])
  BY <1>1
<1>3. FromSubtrees(e, n) = FromSubtrees(m, n)
  BY <1>1, <1>2, MemoryFacts DEF FromSubtrees
<1>4. \A d \in Sides : Lean(e, n, d) = Lean(m, n, d)
  BY <1>1, <1>2 DEF Lean, Sides
<1>. QED BY <1>1, <1>3, <1>4 DEF Right

\* What a chain leads past is not met again.
LEMMA ChainFacts ==
  ASSUME NEW N \in SUBSET Elements, NEW m \in Memories, NEW S, Whole(m, N, S),
         NEW q \in Seq(Elements), Chain(m, N, q)
  PROVE  \A i, j \in 1 .. Len(q) : i < j => q[i] \notin S[q[j]] /\ q[i] # q[j]
<1>1. SUFFICES ASSUME NEW i \in 1 .. Len(q)
               PROVE  \A j \in i + 1 .. Len(q) : S[q[j]] \subseteq S[q[i + 1]]
  <2>1. ASSUME NEW i \in 1 .. Len(q), NEW j \in 1 .. Len(q), i < j
        PROVE  q[i] \notin S[q[j]] /\ q[i] # q[j]
    <3>1. i + 1 \in 1 .. Len(q) /\ i \in 1 .. Len(q) - 1 /\ j \in i + 1 .. Len(q)
      BY <2>1, LenProperties
    <3>2. S[q[j]] \subseteq S[q[i + 1]]
      BY <1>1, <3>1
    <3>3. /\ q[i] \in N /\ q[j] \in N
          /\ q[i + 1] = m[Side(q[i], x)][q[i]]
      BY <3>1 DEF Chain
    <3>4. AtNode(m, N, S, q[i], Side(q[i], x))
      BY <3>3, SideFacts, WholeFacts
    <3>5. q[i] \notin S[q[i + 1]] /\ q[j] \in S[q[j]]
      BY <3>3, <3>4 DEF AtNode, Whole, Sorted
    <3>. QED BY <3>2, <3>5
  <2>. QED BY <2>1
<1> DEFINE Bad == {j \in i + 1 .. Len(q) : ~ (S[q[j]] \subseteq S[q[i + 1]])}
<1>2. SUFFICES ASSUME Bad # {} PROVE FALSE
  OBVIOUS
<1>3. PICK j \in Bad : \A k \in Bad : j <= k
  <2>1. Bad \in SUBSET Nat
    BY LenProperties
  <2>. HIDE DEF Bad
  <2>. QED BY <1>2, <2>1, LeastElement
<1>4. j \in i + 1 .. Len(q) /\ Len(q) \in Nat /\ ~ (S[q[j]] \subseteq S[q[i + 1]])
  BY <1>3, LenProperties
<1>5. j - 1 \in i + 1 .. Len(q) /\ j - 1 \in 1 .. Len(q) - 1 /\ (j - 1) + 1 = j
  BY <1>4
<1>6. S[q[j - 1]] \subseteq S[q[i + 1]]
  <2>1. ~ (j <= j - 1)
    BY <1>4
  <2>2. j - 1 \notin Bad
    <3>. HIDE DEF Bad
    <3>. QED BY <1>3, <2>1
  <2>. QED BY <1>5, <2>2
<1>7. q[j] = m[Side(q[j - 1], x)][q[j - 1]] /\ q[j - 1] \in N
  BY <1>5 DEF Chain
<1>8. S[q[j]] \subseteq S[q[j - 1]]
  <2>1. AtNode(m, N, S, q[j - 1], Side(q[j - 1], x))
    BY <1>7, SideFacts, WholeFacts
  <2>. QED BY <1>7, <2>1 DEF AtNode
<1>. QED BY <1>4, <1>6, <1>8

-----------------------------------------------------------------------------
(***************************************************************************)
(* The heights where insert rotates.                                        *)
(***************************************************************************)

\* The heights at t, which x's side has made too high, at its child c there and at the
\* children of c: on the side of x, f, c has grown.
TooHigh(m, t, d, c, f, b) ==
  /\ b \in Int /\ b >= -1 /\ b + 2 <= MaxElement
  /\ HeightIn(m, m[Opposite(d)][t]) = b
  /\ m.height[t] = b + 2 /\ m.height[c] = b + 2
  /\ HeightIn(m, m[f][c]) = b + 1 /\ HeightIn(m, m[Opposite(f)][c]) = b

\* Where insert decides to rotate, the subtree is too high on x's side.
LEMMA InsertRotates ==
  ASSUME NEW N \in SUBSET Elements, NEW m \in Memories, NEW S, Whole(m, N, S),
         NEW t \in N, \A n \in N \ {t} : Right(m, n),
         NEW d, d = Side(t, x), NEW c, c = m[d][t],
         NEW b, b = HeightIn(m, m[Opposite(d)][t]),
         Grown(m, t, c, HeightIn(m, c)), HeightIn(m, c) - b = 2
  PROVE  c \in N /\ c # t /\ c # x /\ TooHigh(m, t, d, c, Side(c, x), b)
<1>0. d \in Sides /\ t \in Elements
  BY SideFacts
<1>1. b \in Int /\ b >= -1 /\ HeightIn(m, c) \in Int /\ HeightIn(m, c) = b + 2
  BY <1>0, HeightFacts
<1>2. PICK g \in {HeightIn(m, c) - 1, HeightIn(m, c)} :
        /\ m.height[t] = 1 + Taller(g, b)
        /\ g - b \in -1 .. 1
        /\ g = HeightIn(m, c) \/ Tilted(m, c)
  BY DEF Grown
<1>3. m.height[t] = b + 2 /\ Tilted(m, c)
  BY <1>1, <1>2 DEF Taller
<1>4. c \in N /\ c # NULL /\ c # t
  <2>1. AtNode(m, N, S, t, d)
    BY <1>0, WholeFacts
  <2>. QED BY <1>1, <2>1 DEF HeightIn, AtNode
<1>5. m.height[c] = b + 2 /\ m.height[c] = FromSubtrees(m, c)
  BY <1>1, <1>4 DEF HeightIn, Right
<1>6. c # x /\ Lean(m, c, Side(c, x)) = 1
  BY <1>1, <1>3, <1>5 DEF Tilted
<1>7. HeightIn(m, m[Side(c, x)][c]) = b + 1 /\ HeightIn(m, m[Opposite(Side(c, x))][c]) = b
  <2> DEFINE u == HeightIn(m, m[Side(c, x)][c])
             w == HeightIn(m, m[Opposite(Side(c, x))][c])
  <2>0. c \in Elements /\ Side(c, x) \in Sides
    BY <1>4, SideFacts
  <2>1. u \in Int /\ w \in Int /\ FromSubtrees(m, c) = 1 + Taller(u, w) /\ u - w = 1
    BY <1>6, <2>0, HeightFacts
  <2>. HIDE DEF u, w
  <2>2. u = b + 1 /\ w = b
    BY <1>1, <1>5, <2>1 DEF Taller
  <2>. QED BY <2>2 DEF u, w
<1>8. b + 2 <= MaxElement
  <2>1. m.height[t] \in {NoHeight} \cup 0 .. MaxElement
    BY DEF Memories
  <2>. QED BY <1>1, <1>3, <2>1, AvlAssumption DEF NoHeight
<1>. QED BY <1>1, <1>3, <1>4, <1>5, <1>6, <1>7, <1>8 DEF TooHigh

\* A node whose links are those of m, but for r in the place of t, is as right as it was.
LEMMA RelinkedRight ==
  ASSUME NEW N \in SUBSET Elements, NEW m \in Memories, NEW e \in Memories, Linked(m, N),
         NEW R \in SUBSET N, NEW t \in N, NEW r \in N, Relinked(m, e, R, t, r),
         NEW n \in R, Right(m, n), e.height[n] = m.height[n], e.height[r] = m.height[t],
         \A d \in Sides : m[d][n] \notin {NULL, t} => e.height[m[d][n]] = m.height[m[d][n]]
  PROVE  Right(e, n)
<1>0. NULL \notin N
  BY NullIsNoNode
<1>1. ASSUME NEW d \in Sides PROVE HeightIn(e, e[d][n]) = HeightIn(m, m[d][n])
  <2>1. e[d][n] = IF m[d][n] = t THEN r ELSE m[d][n]
    BY DEF Relinked
  <2>2. m[d][n] \notin {NULL, t} => e.height[m[d][n]] = m.height[m[d][n]]
    OBVIOUS
  <2>. QED BY <1>0, <2>1, <2>2 DEF HeightIn
<1>. QED BY <1>1, SameHeights

\* After a single rotation every height is right.
LEMMA SingleRight ==
  ASSUME NEW N \in SUBSET Elements, NEW m \in Memories, NEW S, Whole(m, N, S),
         NEW k2 \in N, \A n \in N \ {k2} : Right(m, n),
         NEW d \in Sides, NEW k1 \in N, k1 = m[d][k2],
         NEW b, TooHigh(m, k2, d, k1, d, b),
         NEW e \in Memories, Rotated(m, e, N, d, k2, k1),
         e.height[k2] = b + 1, e.height[k1] = b + 2,
         \A n \in N \ {k1, k2} : e.height[n] = m.height[n]
  PROVE  \A n \in N : Right(e, n)
<1> DEFINE o == Opposite(d)
           R == N \ {k1, k2}
<1>0. NULL \notin N /\ o \in Sides /\ Opposite(o) = d /\ k1 \in Elements /\ k2 \in Elements
      /\ \A c \in Sides : c = d \/ c = o
  BY NullIsNoNode, SideFacts
<1>1. /\ k1 # k2
      /\ m[d][k1] \in R \cup {NULL} /\ m[o][k1] \in R \cup {NULL} /\ m[o][k2] \in R \cup {NULL}
  BY TurnSets DEF AtTurn
<1>2. \A n \in R \cup {NULL} : HeightIn(e, n) = HeightIn(m, n)
  BY <1>0 DEF HeightIn
<1>3. /\ e[d][k1] = m[d][k1] /\ e[o][k1] = k2
      /\ e[d][k2] = m[o][k1] /\ e[o][k2] = m[o][k2]
  BY DEF Rotated
<1>4. Right(e, k2)
  <2>1. HeightIn(e, e[d][k2]) = b /\ HeightIn(e, e[o][k2]) = b
    BY <1>1, <1>2, <1>3 DEF TooHigh
  <2>. QED BY <1>0, <2>1, HeightFacts DEF Right, Taller
<1>5. Right(e, k1)
  <2>1. HeightIn(e, e[d][k1]) = b + 1 /\ HeightIn(e, e[o][k1]) = b + 1
    BY <1>0, <1>1, <1>2, <1>3 DEF TooHigh, HeightIn
  <2>2. b \in Int
    BY DEF TooHigh
  <2>. QED BY <1>0, <2>1, <2>2, HeightFacts DEF Right, Taller
<1>6. ASSUME NEW n \in R PROVE Right(e, n)
  <2>1. Linked(m, N) /\ Relinked(m, e, R, k2, k1)
    BY DEF Whole, Sorted, Rotated
  <2>2. ASSUME NEW c \in Sides, m[c][n] \notin {NULL, k2}
        PROVE  e.height[m[c][n]] = m.height[m[c][n]]
    <3>1. m[c][n] \in N
      BY <2>1, <2>2 DEF Linked
    <3>2. m[c][n] = m[d][k2] /\ m[c][n] # NULL => n = k2
      BY DEF Whole
    <3>. QED BY <2>2, <3>1, <3>2
  <2>3. e.height[k1] = m.height[k2] /\ Right(m, n) /\ e.height[n] = m.height[n]
    BY DEF TooHigh
  <2>4. R \in SUBSET N /\ n \in R
    OBVIOUS
  <2>. HIDE DEF R, o
  <2>. QED BY <2>1, <2>2, <2>3, <2>4, RelinkedRight
<1>. QED BY <1>4, <1>5, <1>6

\* A double rotation is a single one below k3, which leads to j, and one at k3.
DoublyRotated(m, j, e, N, d, k3, k1, k2, b) ==
  LET o == Opposite(d) IN
  /\ k1 = m[d][k3] /\ k2 = m[o][k1] /\ TooHigh(m, k3, d, k1, o, b)
  /\ Rotated(m, j, N, o, k1, k2) /\ Rotated(j, e, N, d, k3, k2)
  /\ e.height[k1] = b + 1 /\ e.height[k3] = b + 1 /\ e.height[k2] = b + 2
  /\ \A n \in N \ {k1, k2, k3} : e.height[n] = m.height[n]

\* After a double rotation all heights are right.
LEMMA DoubleRight ==
  ASSUME NEW N \in SUBSET Elements, NEW m \in Memories, NEW S, Whole(m, N, S),
         NEW k3 \in N, \A n \in N \ {k3} : Right(m, n),
         NEW d \in Sides, NEW k1 \in N, NEW k2, NEW b,
         NEW j \in Memories, NEW e \in Memories, DoublyRotated(m, j, e, N, d, k3, k1, k2, b)
  PROVE  (\A n \in N : Right(e, n)) /\ Relinked(m, e, N \ {k1, k2, k3}, k3, k2)
<1> DEFINE R == N \ {k1, k2, k3}
           o == Opposite(d)
<1>00. /\ k1 = m[d][k3] /\ k2 = m[o][k1] /\ TooHigh(m, k3, d, k1, o, b)
       /\ Rotated(m, j, N, o, k1, k2) /\ Rotated(j, e, N, d, k3, k2)
       /\ e.height[k1] = b + 1 /\ e.height[k3] = b + 1 /\ e.height[k2] = b + 2
       /\ \A n \in R : e.height[n] = m.height[n]
  BY DEF DoublyRotated
<1>0. /\ NULL \notin N /\ o \in Sides /\ Opposite(o) = d
      /\ k1 \in Elements /\ k3 \in Elements
      /\ \A c \in Sides : c = d \/ c = o
      /\ b \in Int /\ b >= -1
  BY <1>00, NullIsNoNode, SideFacts DEF TooHigh
<1>1. /\ Linked(m, N)
      /\ \A i, n \in N, u, v \in Sides : m[u][i] = m[v][n] /\ m[u][i] # NULL => i = n
  BY DEF Whole, Sorted
<1>2. k2 \in N
  <2>1. m[o][k1] # NULL
    BY <1>00, <1>0 DEF TooHigh, HeightIn
  <2>. QED BY <1>00, <1>0, <1>1, <2>1 DEF Linked
<1>3. k1 # k2 /\ k1 # k3 /\ k2 # k3 /\ m[o][k3] # k1 /\ m[d][k1] # k2
  <2>1. AtNode(m, N, S, k3, d) /\ AtNode(m, N, S, k1, d)
    BY WholeFacts
  <2>3. k2 # k3
    <3>0. AtNode(m, N, S, k1, o)
      BY <1>00, <1>0, WholeFacts
    <3>1. k2 \in S[k1] /\ k3 \notin S[k1]
      BY <1>00, <1>0, <1>2, <2>1, <3>0 DEF AtNode
    <3>. QED BY <3>1
  <2>. QED BY <1>00, <1>0, <1>2, <2>1, <2>3 DEF AtNode
<1>4. ASSUME NEW u \in Sides
      PROVE  /\ m[u][k1] = k2 \/ m[u][k1] \in R \cup {NULL}
             /\ m[u][k3] = k1 \/ m[u][k3] \in R \cup {NULL}
             /\ m[u][k2] \in R \cup {NULL}
  <2>1. /\ m[u][k1] \in N \cup {NULL} /\ m[u][k2] \in N \cup {NULL}
        /\ m[u][k3] \in N \cup {NULL}
    BY <1>1, <1>2 DEF Linked
  <2>2. ASSUME NEW n \in N PROVE m[u][n] # n
    <3>1. AtNode(m, N, S, n, u)
      BY WholeFacts
    <3>. QED BY <3>1 DEF AtNode
  <2>3. /\ m[u][k1] # k3 /\ m[u][k2] # k3
    <3>1. AtNode(m, N, S, k3, d) /\ AtNode(m, N, S, k1, o)
      BY <1>00, <1>0, WholeFacts
    <3>2. k3 \notin S[k1] /\ k3 \notin S[k2]
      BY <1>00, <1>0, <3>1 DEF AtNode
    <3>3. \A n \in N : m[u][n] \in N => m[u][n] \in S[n]
      BY DEF Whole, Sorted
    <3>. QED BY <1>2, <3>2, <3>3
  <2>4. m[u][k2] # k1
    <3>1. m[u][k2] = m[d][k3] /\ m[u][k2] # NULL => k2 = k3
      BY <1>1, <1>2
    <3>. QED BY <1>00, <1>0, <1>3, <3>1
  <2>5. m[u][k3] # k2
    <3>1. m[u][k3] = m[o][k1] /\ m[u][k3] # NULL => k3 = k1
      BY <1>00, <1>0, <1>1
    <3>. QED BY <1>00, <1>0, <1>2, <1>3, <3>1
  <2>. QED BY <1>2, <2>1, <2>2, <2>3, <2>4, <2>5
<1>5. \A n \in R \cup {NULL} : HeightIn(e, n) = HeightIn(m, n)
  BY <1>00, <1>0 DEF HeightIn
<1>6. /\ e[d][k2] = k1 /\ e[o][k2] = k3
      /\ e[d][k3] = m[o][k2] /\ e[o][k3] = m[o][k3]
      /\ e[d][k1] = m[d][k1] /\ e[o][k1] = m[d][k2]
  <2>1. /\ j[o][k2] = m[o][k2] /\ j[d][k2] = k1
        /\ j[o][k1] = m[d][k2] /\ j[d][k1] = m[d][k1]
        /\ j[o][k3] = m[o][k3]
    BY <1>00, <1>0, <1>3 DEF Rotated, Relinked
  <2>2. /\ e[d][k2] = j[d][k2] /\ e[o][k2] = k3
        /\ e[d][k3] = j[o][k2] /\ e[o][k3] = j[o][k3]
    BY <1>00, <1>0 DEF Rotated
  <2>3. \A u \in Sides : e[u][k1] = IF j[u][k1] = k3 THEN k2 ELSE j[u][k1]
    BY ZenonT(40), <1>00, <1>3 DEF Rotated, Relinked
  <2>4. m[d][k1] # k3 /\ m[d][k2] # k3
    BY <1>00, <1>0, <1>3, <1>4
  <2>. QED BY <1>00, <1>0, <2>1, <2>2, <2>3, <2>4
<1>7. Right(e, k1) /\ Right(e, k3)
  <2>1. HeightIn(m, m[d][k2]) \in b - 1 .. b /\ HeightIn(m, m[o][k2]) \in b - 1 .. b
        /\ Taller(HeightIn(m, m[d][k2]), HeightIn(m, m[o][k2])) = b
    <3> DEFINE u == HeightIn(m, m[d][k2])
               w == HeightIn(m, m[o][k2])
    <3>1. Right(m, k2) /\ m.height[k2] = b + 1
      BY <1>00, <1>0, <1>2, <1>3 DEF TooHigh, HeightIn
    <3>2. u \in Int /\ w \in Int /\ b + 1 = 1 + Taller(u, w) /\ u - w \in -1 .. 1
      BY <1>00, <1>0, <1>2, <3>1, HeightFacts DEF Right
    <3>. HIDE DEF u, w
    <3>3. u \in b - 1 .. b /\ w \in b - 1 .. b /\ Taller(u, w) = b
      BY <1>00, <1>0, <3>2 DEF Taller
    <3>. QED BY <3>3 DEF u, w
  <2>2. HeightIn(e, e[d][k1]) = b /\ HeightIn(e, e[o][k3]) = b
    <3>1. m[d][k1] \in R \cup {NULL} /\ m[o][k3] \in R \cup {NULL}
      BY <1>00, <1>0, <1>3, <1>4
    <3>. QED BY <1>00, <1>0, <1>5, <1>6, <3>1 DEF TooHigh
  <2>3. /\ HeightIn(e, e[o][k1]) \in b - 1 .. b
        /\ HeightIn(e, e[d][k3]) \in b - 1 .. b
    <3>1. m[d][k2] \in R \cup {NULL} /\ m[o][k2] \in R \cup {NULL}
      BY <1>00, <1>0, <1>4
    <3>2. /\ HeightIn(e, m[d][k2]) = HeightIn(m, m[d][k2])
          /\ HeightIn(e, m[o][k2]) = HeightIn(m, m[o][k2])
      BY <1>5, <3>1
    <3>. QED BY <1>6, <2>1, <3>2
  <2>4. /\ FromSubtrees(e, k1) = 1 + Taller(HeightIn(e, e[d][k1]), HeightIn(e, e[o][k1]))
        /\ FromSubtrees(e, k3) = 1 + Taller(HeightIn(e, e[d][k3]), HeightIn(e, e[o][k3]))
        /\ Lean(e, k1, "left") \in -1 .. 1
             <=> HeightIn(e, e[d][k1]) - HeightIn(e, e[o][k1]) \in -1 .. 1
        /\ Lean(e, k3, "left") \in -1 .. 1
             <=> HeightIn(e, e[d][k3]) - HeightIn(e, e[o][k3]) \in -1 .. 1
    BY <1>00, <1>0, HeightFacts
  <2>5. FromSubtrees(e, k1) = b + 1 /\ FromSubtrees(e, k3) = b + 1
    BY <1>00, <1>0, <2>2, <2>3, <2>4 DEF Taller
  <2>6. Lean(e, k1, "left") \in -1 .. 1 /\ Lean(e, k3, "left") \in -1 .. 1
    BY <1>00, <1>0, <2>2, <2>3, <2>4
  <2>. QED BY <1>00, <2>5, <2>6 DEF Right
<1>8. Right(e, k2)
  <2>1. HeightIn(e, e[d][k2]) = b + 1 /\ HeightIn(e, e[o][k2]) = b + 1
    BY <1>00, <1>0, <1>6 DEF HeightIn
  <2>2. k2 \in Elements
    BY <1>2
  <2>3. /\ FromSubtrees(e, k2) = 1 + Taller(b + 1, b + 1)
        /\ Lean(e, k2, "left") \in -1 .. 1 <=> (b + 1) - (b + 1) \in -1 .. 1
    <3>1. /\ FromSubtrees(e, k2) = 1 + Taller(HeightIn(e, e[d][k2]), HeightIn(e, e[o][k2]))
          /\ Lean(e, k2, "left") \in -1 .. 1
               <=> HeightIn(e, e[d][k2]) - HeightIn(e, e[o][k2]) \in -1 .. 1
      BY <2>2, HeightFacts
    <3>. QED BY <2>1, <3>1
  <2>. QED BY <1>00, <1>0, <2>3 DEF Right, Taller
<1>9. ASSUME NEW i \in R, NEW u \in Sides PROVE m[u][i] \notin {k1, k2}
  <2>1. /\ m[u][i] = m[d][k3] /\ m[u][i] # NULL => i = k3
        /\ m[u][i] = m[o][k1] /\ m[u][i] # NULL => i = k1
    BY <1>00, <1>0, <1>1
  <2>. QED BY <1>00, <1>0, <1>2, <2>1
<1>10. Relinked(m, e, R, k3, k2)
  <2>1. e.tree = IF m.tree = k3 THEN k2 ELSE m.tree
    <3>1. m.tree # k1
      BY <1>00, RootIsNoChild
    <3>. QED BY ZenonT(40), <1>00, <1>3, <3>1 DEF Rotated, Relinked
  <2>2. ASSUME NEW i \in R, NEW u \in Sides
        PROVE  e[u][i] = IF m[u][i] = k3 THEN k2 ELSE m[u][i]
    <3>1. j[u][i] = m[u][i]
      <4>1. m[u][i] # k1 /\ i \in N \ {k2, k1}
        BY <1>9
      <4>. QED BY ZenonT(40), <1>00, <4>1 DEF Rotated, Relinked
    <3>2. Relinked(j, e, N \ {k3, k2}, k3, k2) /\ i \in N \ {k3, k2}
      BY <1>00 DEF Rotated
    <3>. QED BY <3>1, <3>2 DEF Relinked
  <2>. QED BY <2>1, <2>2 DEF Relinked
<1>11. ASSUME NEW n \in R PROVE Right(e, n)
  <2>1. \A u \in Sides : m[u][n] \notin {NULL, k3} => e.height[m[u][n]] = m.height[m[u][n]]
    BY <1>00, <1>1, <1>9 DEF Linked
  <2>2. e.height[k2] = m.height[k3] /\ Right(m, n) /\ e.height[n] = m.height[n]
    BY <1>00 DEF TooHigh
  <2>3. ASSUME NEW u \in Sides PROVE HeightIn(e, e[u][n]) = HeightIn(m, m[u][n])
    <3>1. e[u][n] = IF m[u][n] = k3 THEN k2 ELSE m[u][n]
      BY <1>10 DEF Relinked
    <3>2. m[u][n] \notin {NULL, k3} => e.height[m[u][n]] = m.height[m[u][n]]
      BY <2>1
    <3>3. k2 # NULL /\ k3 # NULL
      BY <1>0, <1>2
    <3>. QED BY <2>2, <3>1, <3>2, <3>3 DEF HeightIn
  <2>4. n \in Elements
    OBVIOUS
  <2>. QED BY <2>2, <2>3, <2>4, SameHeights
<1>. QED BY <1>7, <1>8, <1>10, <1>11

-----------------------------------------------------------------------------
(***************************************************************************)
(* The memories a rotation goes through.                                    *)
(***************************************************************************)

\* Its four assignments: the two links, then the two heights.
TurnOne(m, d, k2, k1)   == Put(m, d, k2, m[Opposite(d)][k1])
TurnTwo(m, d, k2, k1)   == Put(TurnOne(m, d, k2, k1), Opposite(d), k1, k2)
TurnThree(m, d, k2, k1) == LET h == TurnTwo(m, d, k2, k1)
                           IN Put(h, "height", k2, FromSubtrees(h, k2))
TurnFour(m, d, k2, k1)  == LET h == TurnThree(m, d, k2, k1)
                           IN Put(h, "height", k1, FromSubtrees(h, k1))

\* What insert puts on the two nodes.
LowerHeight(m, d, k2, k1) ==
  1 + Taller(HeightIn(m, m[Opposite(d)][k1]), HeightIn(m, m[Opposite(d)][k2]))
UpperHeight(m, d, k2, k1) == 1 + Taller(HeightIn(m, m[d][k1]), LowerHeight(m, d, k2, k1))

AtSteps(m, N, S, d, k2, k1) ==
  LET m1 == TurnOne(m, d, k2, k1)    m2 == TurnTwo(m, d, k2, k1)
      m3 == TurnThree(m, d, k2, k1)  m4 == TurnFour(m, d, k2, k1)
      T == Turned(m, S, d, k2, k1) IN
  /\ m1 \in Memories /\ m2 \in Memories /\ m3 \in Memories /\ m4 \in Memories
  /\ Sorted(m1, N, S) /\ Sorted(m2, N, T) /\ Sorted(m3, N, T) /\ Sorted(m4, N, T)
  /\ m4[d][k1] = m[d][k1] /\ m4[Opposite(d)][k1] = k2
  /\ m4[d][k2] = m[Opposite(d)][k1] /\ m4[Opposite(d)][k2] = m[Opposite(d)][k2]
  /\ \A n \in N \ {k1, k2}, c \in Sides : m4[c][n] = m[c][n]
  /\ m4.tree = m.tree
  /\ m4.height[k2] = LowerHeight(m, d, k2, k1) /\ m4.height[k1] = UpperHeight(m, d, k2, k1)
  /\ \A n \in N \ {k1, k2} : m4.height[n] = m.height[n]

\* Being sorted depends on the links only.
LEMMA SortedSame ==
  ASSUME NEW N, NEW S, NEW m, NEW k, Sorted(m, N, S),
         k.tree = m.tree, \A d \in Sides : k[d] = m[d]
  PROVE  Sorted(k, N, S)
<1>1. Linked(k, N)
  BY DEF Sorted, Linked
<1>. QED BY <1>1 DEF Sorted

\* The memories between the assignments of a single rotation.
LEMMA TurnSteps ==
  ASSUME NEW N \in SUBSET Elements, NEW m \in Memories, NEW S, Whole(m, N, S),
         NEW d \in Sides, NEW k2 \in N, NEW k1 \in N, k1 = m[d][k2],
         UpperHeight(m, d, k2, k1) <= MaxElement
  PROVE  AtSteps(m, N, S, d, k2, k1)
<1> DEFINE o == Opposite(d)
           a == m[d][k1]
           b == m[o][k1]
           c == m[o][k2]
           m1 == TurnOne(m, d, k2, k1)
           m2 == TurnTwo(m, d, k2, k1)
           m3 == TurnThree(m, d, k2, k1)
           m4 == TurnFour(m, d, k2, k1)
           T == Turned(m, S, d, k2, k1)
           lower == LowerHeight(m, d, k2, k1)
           upper == UpperHeight(m, d, k2, k1)
<1>0. /\ o \in Sides /\ Opposite(o) = d /\ d # o /\ \A f \in Sides : f = d \/ f = o
      /\ k1 \in Elements /\ k2 \in Elements /\ \A n \in N : n \in Elements
  BY SideFacts
<1>1. /\ k1 # k2 /\ b # k1 /\ b # k2 /\ c # k1 /\ c # k2 /\ a # k1 /\ a # k2
      /\ a \in N \cup {NULL} /\ b \in N \cup {NULL} /\ c \in N \cup {NULL}
  BY TurnSets DEF AtTurn
<1>2. /\ a \in Pointer /\ b \in Pointer /\ c \in Pointer /\ k2 \in Pointer
  BY <1>0, <1>1
<1>3. m1 = Put(m, d, k2, b) /\ m2 = Put(m1, o, k1, k2)
  BY DEF TurnOne, TurnTwo
<1>. HIDE DEF m1, m2, m3, m4, a, b, c, o, T, lower, upper
<1>4. /\ m1 \in Memories /\ m1[d][k2] = b /\ m1[o] = m[o]
      /\ \A n \in Elements : n # k2 => m1[d][n] = m[d][n]
      /\ m1.tree = m.tree /\ m1.height = m.height
  <2>1. LinkPut(m1, m, d, k2, b)
    BY <1>0, <1>2, <1>3, PutLink
  <2>. QED BY <2>1 DEF LinkPut, o
<1>5. /\ m2 \in Memories /\ m2[o][k1] = k2 /\ m2[d] = m1[d]
      /\ \A n \in Elements : n # k1 => m2[o][n] = m1[o][n]
      /\ m2.tree = m1.tree /\ m2.height = m1.height
  <2>1. m1 \in Memories /\ o \in Sides /\ k1 \in Elements /\ k2 \in Pointer
    BY <1>0, <1>2, <1>4
  <2>2. LinkPut(m2, m1, o, k1, k2)
    BY <1>3, <2>1, PutLink
  <2>. QED BY <1>0, <2>2 DEF LinkPut
<1>6. /\ m2[d][k1] = a /\ m2[o][k1] = k2 /\ m2[d][k2] = b /\ m2[o][k2] = c
      /\ \A n \in N \ {k1, k2}, f \in Sides : m2[f][n] = m[f][n]
      /\ m2.tree = m.tree /\ m2.height = m.height
  <2>1. \A n \in N \ {k1, k2} : m2[d][n] = m[d][n] /\ m2[o][n] = m[o][n]
    BY <1>0, <1>4, <1>5
  <2>. QED BY <1>0, <1>1, <1>4, <1>5, <2>1 DEF a, b, c, o
<1>7. Sorted(m1, N, S) /\ Sorted(m2, N, T)
  <2>1. /\ m1[d][k2] = m[o][k1]
        /\ \A n \in N \ {k2} : m1[d][n] = m[d][n]
        /\ \A n \in N \ {k1} : m1[o][n] = m[o][n]
        /\ m1[o][k1] = m[o][k1] /\ m1.tree = m.tree /\ m1 \in Memories
    BY <1>0, <1>4 DEF b
  <2>2. /\ m2[d][k2] = m[o][k1]
        /\ \A n \in N \ {k2} : m2[d][n] = m[d][n]
        /\ \A n \in N \ {k1} : m2[o][n] = m[o][n]
        /\ m2[o][k1] = k2 /\ m2.tree = m.tree /\ m2 \in Memories
    BY <1>0, <1>4, <1>5 DEF b
  <2>3. Sorted(m1, N, S)
    BY <2>1, TurnHalf DEF o
  <2>4. Sorted(m2, N, T)
    BY <2>2, TurnHalf DEF o, T
  <2>. QED BY <2>3, <2>4
<1>8. /\ FromSubtrees(m2, k2) = lower /\ lower \in Nat
      /\ \A h \in Memories : (\A f \in Sides : h[f] = m2[f]) /\ HeightIn(h, k2) = lower
           /\ HeightIn(h, a) = HeightIn(m, a)
           => FromSubtrees(h, k1) = upper
      /\ lower <= upper /\ upper \in 0 .. MaxElement
  <2>1. \A n \in {a, b, c} : HeightIn(m2, n) = HeightIn(m, n)
    BY <1>6 DEF HeightIn
  <2>2. FromSubtrees(m2, k2) = 1 + Taller(HeightIn(m2, b), HeightIn(m2, c))
        /\ FromSubtrees(m2, k2) \in Nat
    BY <1>0, <1>5, <1>6, HeightFacts DEF o
  <2>3. FromSubtrees(m2, k2) = lower /\ lower \in Nat
    BY <2>1, <2>2 DEF lower, LowerHeight, b, c, o
  <2>4. ASSUME NEW h \in Memories, \A f \in Sides : h[f] = m2[f], HeightIn(h, k2) = lower,
               HeightIn(h, a) = HeightIn(m, a)
        PROVE  FromSubtrees(h, k1) = upper
    <3>1. FromSubtrees(h, k1) = 1 + Taller(HeightIn(h, h[d][k1]), HeightIn(h, h[Opposite(d)][k1]))
      BY <1>0, HeightFacts
    <3>. QED BY <1>0, <1>6, <2>4, <3>1 DEF upper, UpperHeight, lower, a, o
  <2>5. HeightIn(m, a) \in Int
    BY <1>0, HeightFacts DEF a
  <2>6. upper = 1 + Taller(HeightIn(m, a), lower) /\ upper <= MaxElement
    BY DEF upper, UpperHeight, lower, a
  <2>7. lower <= upper /\ upper \in 0 .. MaxElement
    BY <2>3, <2>5, <2>6, AvlAssumption DEF Taller
  <2>. QED BY <2>3, <2>4, <2>7
<1>9. /\ m3 \in Memories /\ m3.height[k2] = lower
      /\ \A n \in Elements : n # k2 => m3.height[n] = m.height[n]
      /\ \A f \in Sides : m3[f] = m2[f]
      /\ m3.tree = m2.tree
  <2>1. m3 = Put(m2, "height", k2, lower)
    BY <1>8 DEF m3, m2, TurnThree
  <2>2. lower \in 0 .. MaxElement
    BY <1>8, AvlAssumption
  <2>3. m2.height = m.height /\ m2 \in Memories
    BY <1>5, <1>6
  <2>4. HeightPut(m3, m2, k2, lower)
    BY <1>0, <2>1, <2>2, <2>3, PutHeight
  <2>. QED BY <2>3, <2>4 DEF HeightPut
<1>10. /\ m4 \in Memories /\ m4.height[k1] = upper
       /\ \A n \in Elements : n # k1 => m4.height[n] = m3.height[n]
       /\ \A f \in Sides : m4[f] = m3[f]
       /\ m4.tree = m3.tree
  <2>1. HeightIn(m3, k2) = lower /\ HeightIn(m3, a) = HeightIn(m, a)
    <3>1. NULL \notin N
      BY NullIsNoNode
    <3>. QED BY <1>0, <1>1, <1>9, <3>1 DEF HeightIn
  <2>2. m4 = Put(m3, "height", k1, upper)
    BY <1>8, <1>9, <2>1 DEF m4, m3, TurnFour
  <2>3. upper \in 0 .. MaxElement /\ m3 \in Memories
    BY <1>8, <1>9
  <2>4. HeightPut(m4, m3, k1, upper)
    BY <1>0, <2>2, <2>3, PutHeight
  <2>. QED BY <2>4 DEF HeightPut
<1>11. Sorted(m3, N, T) /\ Sorted(m4, N, T)
  <2>1. Sorted(m3, N, T)
    BY <1>7, <1>9, SortedSame
  <2>. QED BY <1>10, <2>1, SortedSame
<1>12. /\ m4[d][k1] = a /\ m4[o][k1] = k2 /\ m4[d][k2] = b /\ m4[o][k2] = c
       /\ \A n \in N \ {k1, k2}, f \in Sides : m4[f][n] = m[f][n]
       /\ m4.tree = m.tree /\ m4.height[k2] = lower
       /\ \A n \in N \ {k1, k2} : m4.height[n] = m.height[n]
  BY <1>0, <1>1, <1>6, <1>9, <1>10
<1>. QED BY <1>4, <1>5, <1>7, <1>9, <1>10, <1>11, <1>12
         DEF AtSteps, m1, m2, m3, m4, a, b, c, o, T, lower, upper

\* The last assignment, to the root pointer that leads to k2.
AtEnd(m, k, e, N, d, k2, k1) ==
  e \in Memories /\ Rotated(m, e, N, d, k2, k1) /\ e.height = k.height

\* The last assignment finishes the rotation.
LEMMA TurnEnds ==
  ASSUME NEW N \in SUBSET Elements, NEW m \in Memories, NEW S, Whole(m, N, S),
         NEW d \in Sides, NEW k2 \in N, NEW k1 \in N, k1 = m[d][k2],
         UpperHeight(m, d, k2, k1) <= MaxElement,
         NEW m4, m4 = TurnFour(m, d, k2, k1)
  PROVE  /\ m.tree = k2 => AtEnd(m, m4, [m4 EXCEPT !.tree = k1], N, d, k2, k1)
         /\ \A p \in N \ {k1, k2}, f \in Sides :
              m[f][p] = k2 => AtEnd(m, m4, Put(m4, f, p, k1), N, d, k2, k1)
<1> DEFINE R == N \ {k1, k2}
           o == Opposite(d)
<1>0. /\ o \in Sides /\ d # o /\ k1 \in Elements /\ k1 \in Pointer
      /\ \A f \in Sides : f = d \/ f = o
      /\ \A n \in N : n \in Elements
  BY SideFacts
<1>1. /\ m4 \in Memories
      /\ m4[d][k1] = m[d][k1] /\ m4[o][k1] = k2
      /\ m4[d][k2] = m[o][k1] /\ m4[o][k2] = m[o][k2]
      /\ m4.tree = m.tree
      /\ \A n \in R, c \in Sides : m4[c][n] = m[c][n]
  <2>1. AtSteps(m, N, S, d, k2, k1)
    BY TurnSteps
  <2>. QED BY <2>1 DEF AtSteps
<1>2. ASSUME m.tree = k2 PROVE AtEnd(m, m4, [m4 EXCEPT !.tree = k1], N, d, k2, k1)
  <2> DEFINE e == [m4 EXCEPT !.tree = k1]
  <2>1. e \in Memories /\ e.height = m4.height /\ \A f \in Sides : e[f] = m4[f]
    BY <1>0, <1>1 DEF Memories, Sides
  <2>2. Relinked(m, e, R, k2, k1)
    <3>1. e.tree = k1 /\ \A n \in R, f \in Sides : e[f][n] = m[f][n]
      <4>1. e.tree = k1
        BY <1>1 DEF Memories
      <4>2. \A f \in Sides : e[f] = m4[f]
        BY <2>1
      <4>. HIDE DEF e
      <4>. QED BY <1>1, <4>1, <4>2
    <3>. HIDE DEF e
    <3>. QED BY <1>2, <3>1, RootPointer
  <2>. QED BY <1>0, <1>1, <2>1, <2>2 DEF AtEnd, Rotated
<1>3. ASSUME NEW p \in R, NEW f \in Sides, m[f][p] = k2
      PROVE  AtEnd(m, m4, Put(m4, f, p, k1), N, d, k2, k1)
  <2> DEFINE e == Put(m4, f, p, k1)
  <2>1. LinkPut(e, m4, f, p, k1)
    BY <1>0, <1>1, PutLink
  <2>. HIDE DEF e
  <2>2. e \in Memories /\ e.height = m4.height
    BY <2>1 DEF LinkPut
  <2>3. \A n \in {k1, k2} : e[d][n] = m4[d][n] /\ e[o][n] = m4[o][n]
    <3>1. f = d \/ f = o
      BY <1>0
    <3>2. Opposite(o) = d
      BY SideFacts
    <3>. QED BY <1>0, <2>1, <3>1, <3>2 DEF LinkPut
  <2>4. Relinked(m, e, R, k2, k1)
    <3>1. \A u \in R, c \in Sides : m[c][u] = k2 => Relinked(m, Put(m4, c, u, k1), R, k2, k1)
      BY ZenonT(40), <1>1, OnePointer
    <3>. QED BY <1>3, <3>1 DEF e
  <2>5. AtEnd(m, m4, e, N, d, k2, k1)
    BY <1>0, <1>1, <2>2, <2>3, <2>4 DEF AtEnd, Rotated
  <2>. QED BY <2>5 DEF e
<1>. QED BY <1>2, <1>3

\* What Front and Last of a sequence are.
LEMMA FrontFacts ==
  ASSUME NEW E, NEW q \in Seq(E), q # <<>>
  PROVE  /\ Front(q) \in Seq(E) /\ Len(q) \in Nat /\ Len(q) >= 1
         /\ Len(Front(q)) = Len(q) - 1
         /\ \A i \in 1 .. Len(q) - 1 : Front(q)[i] = q[i]
         /\ Last(q) = q[Len(q)] /\ Last(q) \in E
         /\ Front(q) = <<>> <=> Len(q) = 1
         /\ Front(q) # <<>> => Last(Front(q)) = q[Len(q) - 1]
<1>1. Len(q) \in Nat /\ Len(q) >= 1
  BY EmptySeq, LenProperties
<1>2. /\ Front(q) \in Seq(E)
      /\ Len(Front(q)) = Len(q) - 1
      /\ \A i \in 1 .. Len(q) - 1 : Front(q)[i] = q[i]
  <2>1. \A i \in 1 .. Len(q) - 1 : q[i] \in E
    BY <1>1, ElementOfSeq
  <2> DEFINE n == Len(q) - 1
  <2>2. n \in Int /\ 1 \in Int /\ Front(q) = SubSeq(q, 1, n)
    BY <1>1 DEF Front
  <2>. HIDE DEF n
  <2>3. /\ SubSeq(q, 1, n) \in Seq(E)
        /\ Len(SubSeq(q, 1, n)) = IF 1 <= n THEN n - 1 + 1 ELSE 0
        /\ \A i \in 1 .. n - 1 + 1 : SubSeq(q, 1, n)[i] = q[1 + i - 1]
    <3>1. \A i \in 1 .. n : q[i] \in E
      BY <2>1 DEF n
    <3>. QED BY <2>2, <3>1, SubSeqProperties
  <2>4. n >= 0
    BY <1>1 DEF n
  <2>5. Len(Front(q)) = n
    BY <2>2, <2>3, <2>4
  <2>6. ASSUME NEW i \in 1 .. n PROVE Front(q)[i] = q[i]
    <3>1. 1 + i - 1 = i /\ i \in 1 .. n - 1 + 1
      BY <2>2
    <3>. QED BY <2>2, <2>3, <3>1
  <2>. QED BY <2>2, <2>3, <2>5, <2>6 DEF n
<1>. QED BY <1>1, <1>2, ElementOfSeq DEF Last

\* A chain without its last node leads to it.
LEMMA FrontOfChain ==
  ASSUME NEW N \in SUBSET Elements, NEW m, NEW q \in Seq(Elements), q # <<>>, Chain(m, N, q)
  PROVE  /\ Chain(m, N, Front(q)) /\ RootOf(m, Front(q)) = Last(q)
         /\ Last(q) \in N \ {x}
         /\ Front(q) # <<>> => Last(Front(q)) \in N \ {x}
<1> DEFINE f == Front(q)
<1>1. /\ f \in Seq(Elements) /\ Len(q) \in Nat /\ Len(q) >= 1
      /\ Len(f) = Len(q) - 1
      /\ \A i \in 1 .. Len(q) - 1 : f[i] = q[i]
      /\ Last(q) = q[Len(q)]
      /\ f = <<>> <=> Len(q) = 1
      /\ f # <<>> => Last(f) = q[Len(q) - 1]
  BY FrontFacts
<1>. HIDE DEF f
<1>2. /\ \A i \in 1 .. Len(q) : q[i] \in N \ {x}
      /\ q[1] = m.tree
      /\ \A i \in 1 .. Len(q) - 1 : q[i + 1] = m[Side(q[i], x)][q[i]]
  BY DEF Chain
<1>3. Chain(m, N, f)
  <2>1. \A i \in 1 .. Len(f) : f[i] \in N \ {x}
    BY <1>1, <1>2
  <2>2. f # <<>> => f[1] = m.tree
    BY <1>1, <1>2
  <2>3. ASSUME NEW i \in 1 .. Len(f) - 1 PROVE f[i + 1] = m[Side(f[i], x)][f[i]]
    <3>1. i \in 1 .. Len(q) - 1 /\ i + 1 \in 1 .. Len(q) - 1
      BY <1>1
    <3>. QED BY <1>1, <1>2, <3>1
  <2>. QED BY <2>1, <2>2, <2>3 DEF Chain
<1>4. RootOf(m, f) = Last(q)
  <2>1. CASE f = <<>>
    BY <1>1, <1>2, <2>1 DEF RootOf
  <2>2. CASE f # <<>>
    <3>1. Len(q) - 1 \in 1 .. Len(q) - 1
      BY <1>1, <2>2
    <3>. QED BY <1>1, <1>2, <2>2, <3>1 DEF RootOf
  <2>. QED BY <2>1, <2>2
<1>5. Last(q) \in N \ {x} /\ (f # <<>> => Last(f) \in N \ {x})
  BY <1>1, <1>2
<1>. QED BY <1>3, <1>4, <1>5 DEF f

\* A relinking below the chain does not disturb it.
LEMMA ChainKept ==
  ASSUME NEW N \in SUBSET Elements, NEW m \in Memories, NEW S, Whole(m, N, S),
         NEW q \in Seq(Elements), q # <<>>, Chain(m, N, q),
         NEW R \in SUBSET N, \A n \in N : n \notin S[Last(q)] => n \in R,
         NEW r \in N, NEW e, Relinked(m, e, R, Last(q), r)
  PROVE  Chain(e, N, Front(q)) /\ RootOf(e, Front(q)) = r
<1> DEFINE f == Front(q)
           t == Last(q)
<1>1. /\ f \in Seq(Elements) /\ Len(q) \in Nat /\ Len(q) >= 1
      /\ Len(f) = Len(q) - 1
      /\ \A i \in 1 .. Len(q) - 1 : f[i] = q[i]
      /\ t = q[Len(q)]
      /\ f = <<>> <=> Len(q) = 1
      /\ f # <<>> => Last(f) = q[Len(q) - 1]
  BY FrontFacts
<1>2. Chain(m, N, f) /\ RootOf(m, f) = t /\ (f # <<>> => Last(f) \in N \ {x})
  BY FrontOfChain
<1>. HIDE DEF f, t
<1>3. \A i \in 1 .. Len(f) : f[i] \in R /\ f[i] # t
  <2>1. \A i, j \in 1 .. Len(q) : i < j => q[i] \notin S[q[j]] /\ q[i] # q[j]
    BY ChainFacts
  <2>2. \A i \in 1 .. Len(f) : f[i] \in N
    BY <1>2 DEF Chain
  <2>3. ASSUME NEW i \in 1 .. Len(f) PROVE f[i] \notin S[t] /\ f[i] # t
    <3>1. i \in 1 .. Len(q) /\ Len(q) \in 1 .. Len(q) /\ i < Len(q) /\ f[i] = q[i]
      BY <1>1
    <3>. QED BY <1>1, <2>1, <3>1
  <2>. QED BY <2>2, <2>3 DEF t
<1>4. /\ e.tree = IF m.tree = t THEN r ELSE m.tree
      /\ \A n \in R, c \in Sides : e[c][n] = IF m[c][n] = t THEN r ELSE m[c][n]
  BY DEF Relinked, t
<1>5. Chain(e, N, f)
  <2>1. f # <<>> => f[1] = e.tree
    <3>1. f # <<>> => f[1] = m.tree /\ 1 \in 1 .. Len(f)
      BY <1>1, <1>2 DEF Chain
    <3>. QED BY <1>3, <1>4, <3>1
  <2>2. ASSUME NEW i \in 1 .. Len(f) - 1 PROVE f[i + 1] = e[Side(f[i], x)][f[i]]
    <3>1. i \in 1 .. Len(f) /\ i + 1 \in 1 .. Len(f)
      BY <1>1
    <3>2. f[i + 1] = m[Side(f[i], x)][f[i]]
      BY <1>2 DEF Chain
    <3>3. e[Side(f[i], x)][f[i]] = IF m[Side(f[i], x)][f[i]] = t THEN r ELSE m[Side(f[i], x)][f[i]]
      BY <1>3, <1>4, <3>1, SideFacts
    <3>. QED BY <1>3, <3>1, <3>2, <3>3
  <2>. QED BY <1>2, <2>1, <2>2 DEF Chain
<1>6. RootOf(e, f) = r
  <2>1. CASE f = <<>>
    BY <1>2, <1>4, <2>1 DEF RootOf
  <2>2. CASE f # <<>>
    <3>1. Last(f) \in R
      <4>1. Len(f) \in 1 .. Len(f) /\ Last(f) = f[Len(f)]
        BY <1>1, <2>2 DEF Last
      <4>. QED BY <1>3, <4>1
    <3>2. m[Side(Last(f), x)][Last(f)] = t
      BY <1>2, <2>2 DEF RootOf
    <3>3. e[Side(Last(f), x)][Last(f)] = r
      BY <1>4, <3>1, <3>2, SideFacts
    <3>. QED BY <2>2, <3>3 DEF RootOf
  <2>. QED BY <1>2, <2>1, <2>2
<1>. QED BY <1>5, <1>6 DEF f

-----------------------------------------------------------------------------
(***************************************************************************)
(* The assignments of a rotation.                                           *)
(***************************************************************************)

\* What a concatenation of lists is, written out.
LEMMA FourAndOne ==
  ASSUME NEW a, NEW b, NEW c, NEW d, NEW e
  PROVE  <<a, b, c, d>> \o <<e>> = <<a, b, c, d, e>>
<1> DEFINE S == {a, b, c, d, e}
           l == <<a, b, c, d>>  r == <<e>>  z == l \o r  w == <<a, b, c, d, e>>
<1>1. /\ l \in Seq(S) /\ Len(l) = 4 /\ l[1] = a /\ l[2] = b /\ l[3] = c /\ l[4] = d
      /\ r \in Seq(S) /\ Len(r) = 1 /\ r[1] = e
      /\ w \in Seq(S) /\ Len(w) = 5
      /\ w[1] = a /\ w[2] = b /\ w[3] = c /\ w[4] = d /\ w[5] = e
  OBVIOUS
<1>. HIDE DEF S, l, r, w
<1>2. /\ z \in Seq(S) /\ Len(z) = 5
      /\ \A i \in 1 .. 5 : z[i] = IF i <= 4 THEN l[i] ELSE r[i - 4]
  <2>1. /\ l \o r \in Seq(S) /\ Len(l \o r) = Len(l) + Len(r)
        /\ \A i \in 1 .. Len(l) + Len(r) :
             (l \o r)[i] = IF i <= Len(l) THEN l[i] ELSE r[i - Len(l)]
    BY <1>1, ConcatProperties, Zenon
  <2>. QED BY <1>1, <2>1
<1>. HIDE DEF z
<1>3. /\ z[1] = a /\ z[2] = b /\ z[3] = c /\ z[4] = d
      /\ z[5] = e
  <2>1. 1 \in 1 .. 5 /\ 2 \in 1 .. 5 /\ 3 \in 1 .. 5 /\ 4 \in 1 .. 5 /\ 5 \in 1 .. 5
    OBVIOUS
  <2>2. /\ z[1] = l[1] /\ z[2] = l[2] /\ z[3] = l[3]
        /\ z[4] = l[4] /\ z[5] = r[5 - 4]
    BY <1>2, <2>1
  <2>. QED BY <1>1, <2>2
<1>4. \A i \in 1 .. 5 : z[i] = w[i]
  <2>1. \A i \in 1 .. 5 : i = 1 \/ i = 2 \/ i = 3 \/ i = 4 \/ i = 5
    OBVIOUS
  <2>. QED BY <1>1, <1>3, <2>1
<1>5. z = w
  BY <1>1, <1>2, <1>4, SeqEqual
<1>. QED BY <1>5 DEF l, r, w, z

\* The same for five and five.
LEMMA FiveAndFive ==
  ASSUME NEW a, NEW b, NEW c, NEW d, NEW e,
         NEW f, NEW g, NEW h, NEW i, NEW j
  PROVE  <<a, b, c, d, e>> \o <<f, g, h, i, j>> = <<a, b, c, d, e, f, g, h, i, j>>
<1> DEFINE S == {a, b, c, d, e, f, g, h, i, j}
           l == <<a, b, c, d, e>>  r == <<f, g, h, i, j>>  z == l \o r
           w == <<a, b, c, d, e, f, g, h, i, j>>
           Ones == l[1] = a /\ l[2] = b /\ l[3] = c /\ l[4] = d /\ l[5] = e
           Twos == r[1] = f /\ r[2] = g /\ r[3] = h /\ r[4] = i /\ r[5] = j
           Alls(v) == /\ v[1] = a /\ v[2] = b /\ v[3] = c /\ v[4] = d /\ v[5] = e
                      /\ v[6] = f /\ v[7] = g /\ v[8] = h /\ v[9] = i /\ v[10] = j
<1>1. /\ l \in Seq(S) /\ Len(l) = 5 /\ Ones
      /\ r \in Seq(S) /\ Len(r) = 5 /\ Twos
      /\ w \in Seq(S) /\ Len(w) = 10 /\ Alls(w)
  OBVIOUS
<1>. HIDE DEF S, l, r, w
<1>2. /\ z \in Seq(S) /\ Len(z) = 10
      /\ \A k \in 1 .. 10 : z[k] = IF k <= 5 THEN l[k] ELSE r[k - 5]
  <2>1. /\ l \o r \in Seq(S) /\ Len(l \o r) = Len(l) + Len(r)
        /\ \A k \in 1 .. Len(l) + Len(r) :
             (l \o r)[k] = IF k <= Len(l) THEN l[k] ELSE r[k - Len(l)]
    BY <1>1, ConcatProperties, Zenon
  <2>. QED BY <1>1, <2>1
<1>. HIDE DEF z
<1>3. Alls(z)
  <2>1. \A k \in 1 .. 5 : z[k] = l[k]
    BY <1>2
  <2>2. \A k \in 6 .. 10 : z[k] = r[k - 5]
    BY <1>2
  <2>3. /\ z[1] = l[1] /\ z[2] = l[2] /\ z[3] = l[3]
        /\ z[4] = l[4] /\ z[5] = l[5]
    BY <2>1
  <2>4. /\ z[6] = r[1] /\ z[7] = r[2] /\ z[8] = r[3]
    BY <2>2
  <2>5. /\ z[9] = r[4] /\ z[10] = r[5]
    BY <2>2
  <2>. QED BY <1>1, <2>3, <2>4, <2>5
<1>4. \A k \in 1 .. 10 : z[k] = w[k]
  <2>1. \A k \in 1 .. 10 : \/ k = 1 \/ k = 2 \/ k = 3 \/ k = 4 \/ k = 5
                           \/ k = 6 \/ k = 7 \/ k = 8 \/ k = 9 \/ k = 10
    OBVIOUS
  <2>. QED BY <1>1, <1>3, <2>1
<1>5. z = w
  BY <1>1, <1>2, <1>4, SeqEqual
<1>. QED BY <1>5 DEF l, r, w, z

\* The same for the four parts of a double rotation.
LEMMA FourAndFive ==
  ASSUME NEW a, NEW b, NEW c, NEW d, NEW e, NEW f, NEW g, NEW h, NEW i, NEW j
  PROVE  ((<<a, b, c, d>> \o <<e>>) \o <<f, g, h, i>>) \o <<j>>
           = <<a, b, c, d, e, f, g, h, i, j>>
<1> DEFINE S == {a, b, c, d, e, f, g, h, i, j}
           u == <<a, b, c, d, e>>
           v == <<f, g, h, i>>
           w == <<j>>
<1>1. u \in Seq(S) /\ v \in Seq(S) /\ w \in Seq(S)
  OBVIOUS
<1>2. <<a, b, c, d>> \o <<e>> = u
  BY FourAndOne
<1>3. (u \o v) \o w = u \o (v \o w)
  <2>. HIDE DEF u, v, w, S
  <2>. QED BY SMTT(30), <1>1, ConcatAssociative
<1>4. v \o w = <<f, g, h, i, j>>
  BY FourAndOne
<1>5. u \o <<f, g, h, i, j>> = <<a, b, c, d, e, f, g, h, i, j>>
  BY FiveAndFive
<1>. HIDE DEF u, v, w
<1>6. ((<<a, b, c, d>> \o <<e>>) \o v) \o w = <<a, b, c, d, e, f, g, h, i, j>>
  BY <1>2, <1>3, <1>4, <1>5, Zenon
<1>. QED BY <1>6, Zenon DEF v, w

\* Rotation as a list of assignments, for both sides at once.
SingleList(m, d, t, c) ==
  LET o == Opposite(d) IN
  << Set(d, t, m[o][c]), Set(o, c, t),
     Set("height", t, NULL), Set("height", c, NULL), Set("root", t, c) >>

DoubleList(m, d, k3, k1) ==
  LET o == Opposite(d)  k2 == m[o][k1] IN
  << Set(o, k1, m[d][k2]), Set(d, k2, k1), Set("height", k1, NULL), Set("height", k2, NULL),
     Set(d, k3, k2),
     Set(d, k3, m[o][k2]), Set(o, k2, k3), Set("height", k3, NULL), Set("height", k2, NULL),
     Set("root", k3, k2) >>

\* The rotation that insert chooses is one of the two.
LEMMA RotationList ==
  ASSUME NEW t \in Elements, x \in Elements,
         NEW c \in Elements, c = Memory[Side(t, x)][t], c # x
  PROVE  Rotation(t) = IF Side(c, x) = Side(t, x) THEN SingleList(Memory, Side(t, x), t, c)
                                                 ELSE DoubleList(Memory, Side(t, x), t, c)
<1>0. x \in Int /\ c \in Int
  OBVIOUS
<1>1. Memory["left"] = left /\ Memory["right"] = right
  BY DEF Memory
<1>2. CASE x < t
  <2>1. Side(t, x) = "left" /\ Opposite("left") = "right" /\ c = left[t]
    BY <1>2 DEF Side, Opposite, Memory
  <2>2. CASE x < c
    <3>1. Side(c, x) = "left" /\ Rotation(t) = SingleRotateWithLeft(t, c) \o << Set("root", t, c) >>
      BY <1>2, <2>1, <2>2 DEF Rotation, Side
    <3>. QED BY <1>1, <2>1, <3>1, FourAndOne DEF SingleRotateWithLeft, SingleList
  <2>3. CASE ~ (x < c)
    <3>1. Side(c, x) = "right" /\ Rotation(t) = DoubleRotateWithLeft(t)
      BY <1>2, <2>1, <2>3 DEF Rotation, Side
    <3> DEFINE k2 == right[c]
    <3>2. Rotation(t) = ((SingleRotateWithRight(c, k2) \o << Set("left", t, k2) >>)
                          \o SingleRotateWithLeft(t, k2)) \o << Set("root", t, k2) >>
      BY <2>1, <3>1 DEF DoubleRotateWithLeft
    <3>3. Rotation(t) =
            << Set("right", c, left[k2]), Set("left", k2, c), Set("height", c, NULL),
               Set("height", k2, NULL), Set("left", t, k2),
               Set("left", t, right[k2]), Set("right", k2, t), Set("height", t, NULL),
               Set("height", k2, NULL), Set("root", t, k2) >>
      BY SMTT(60), <3>2, FourAndFive DEF SingleRotateWithRight, SingleRotateWithLeft
    <3>. QED BY <1>1, <2>1, <3>1, <3>3 DEF DoubleList
  <2>. QED BY <2>2, <2>3
<1>3. CASE ~ (x < t)
  <2>1. Side(t, x) = "right" /\ Opposite("right") = "left" /\ c = right[t]
    BY <1>3 DEF Side, Opposite, Memory
  <2>2. CASE x > c
    <3>1. Side(c, x) = "right" /\ Rotation(t) = SingleRotateWithRight(t, c) \o << Set("root", t, c) >>
      BY <1>0, <1>3, <2>1, <2>2 DEF Rotation, Side
    <3>. QED BY <1>1, <2>1, <3>1, FourAndOne DEF SingleRotateWithRight, SingleList
  <2>3. CASE ~ (x > c)
    <3>1. Side(c, x) = "left" /\ Rotation(t) = DoubleRotateWithRight(t)
      BY <1>0, <1>3, <2>1, <2>3 DEF Rotation, Side
    <3> DEFINE k2 == left[c]
    <3>2. Rotation(t) = ((SingleRotateWithLeft(c, k2) \o << Set("right", t, k2) >>)
                          \o SingleRotateWithRight(t, k2)) \o << Set("root", t, k2) >>
      BY <2>1, <3>1 DEF DoubleRotateWithRight
    <3>3. Rotation(t) =
            << Set("left", c, right[k2]), Set("right", k2, c), Set("height", c, NULL),
               Set("height", k2, NULL), Set("right", t, k2),
               Set("right", t, left[k2]), Set("left", k2, t), Set("height", t, NULL),
               Set("height", k2, NULL), Set("root", t, k2) >>
      BY SMTT(60), <3>2, FourAndFive DEF SingleRotateWithRight, SingleRotateWithLeft
    <3>. QED BY <1>1, <2>1, <3>1, <3>3 DEF DoubleList
  <2>. QED BY <2>2, <2>3
<1>. QED BY <1>2, <1>3

-----------------------------------------------------------------------------
(***************************************************************************)
(* Where insert rotates, the assignments lead to a tree that is right.      *)
(***************************************************************************)

\* The last assignment goes to the pointer that led to k2.
LEMMA PutRootEnds ==
  ASSUME NEW N \in SUBSET Elements, NEW m \in Memories, NEW S, Whole(m, N, S),
         NEW d \in Sides, NEW k2 \in N, NEW k1 \in N, k1 = m[d][k2],
         UpperHeight(m, d, k2, k1) <= MaxElement,
         NEW m4, m4 = TurnFour(m, d, k2, k1),
         NEW q, RootOf(m, q) = k2, q # <<>> => Last(q) \in N \ {k1, k2}
  PROVE  AtEnd(m, m4, PutRoot(m4, q, k1), N, d, k2, k1)
<1>1. CASE q = <<>>
  <2>1. m.tree = k2
    BY <1>1 DEF RootOf
  <2>2. AtEnd(m, m4, [m4 EXCEPT !.tree = k1], N, d, k2, k1)
    BY <2>1, TurnEnds
  <2>. QED BY <1>1, <2>2 DEF PutRoot
<1>2. CASE q # <<>>
  <2>1. m[Side(Last(q), x)][Last(q)] = k2 /\ Side(Last(q), x) \in Sides
    BY <1>2, SideFacts DEF RootOf
  <2>2. AtEnd(m, m4, Put(m4, Side(Last(q), x), Last(q), k1), N, d, k2, k1)
    BY <1>2, <2>1, TurnEnds
  <2>. QED BY <1>2, <2>2 DEF PutRoot
<1>. QED BY <1>1, <1>2

\* The assignments of a single rotation lead to a whole tree with right heights.
LEMMA SingleLeads ==
  ASSUME NEW m \in Memories, m = Memory, nodes \in SUBSET Elements, x \in Elements,
         NEW S \in Below(nodes), Whole(m, nodes, S),
         path \in Seq(Elements), path # <<>>, Chain(m, nodes, path),
         NEW t \in nodes, t = Last(path), \A n \in nodes \ {t} : Right(m, n),
         NEW d \in Sides, d = Side(t, x),
         NEW c \in nodes, c = m[d][t], c # t, c # x, Side(c, x) = d,
         NEW b, TooHigh(m, t, d, c, d, b)
  PROVE  \E run \in Seq(Memories) : Leads(Rotation(t), run)
<1> DEFINE N == nodes
           o == Opposite(d)
           q == Front(path)
           T == Turned(m, S, d, t, c)
           m1 == TurnOne(m, d, t, c)
           m2 == TurnTwo(m, d, t, c)
           m3 == TurnThree(m, d, t, c)
           m4 == TurnFour(m, d, t, c)
           m5 == PutRoot(m4, q, c)
           run == <<m, m1, m2, m3, m4, m5>>
           moves == << Set(d, t, m[o][c]), Set(o, c, t),
                       Set("height", t, NULL), Set("height", c, NULL), Set("root", t, c) >>
<1>0. /\ o \in Sides /\ t \in Elements /\ c \in Elements
      /\ b \in Int /\ b >= -1 /\ b + 2 <= MaxElement
  BY SideFacts DEF TooHigh
<1>1. Rotation(t) = moves
  BY <1>0, RotationList DEF SingleList
<1>2. LowerHeight(m, d, t, c) = b + 1 /\ UpperHeight(m, d, t, c) = b + 2
  <2>1. LowerHeight(m, d, t, c) = b + 1
    BY <1>0 DEF TooHigh, LowerHeight, Taller
  <2>. QED BY <1>0, <2>1 DEF TooHigh, UpperHeight, Taller
<1>3. UpperHeight(m, d, t, c) <= MaxElement
  BY <1>0, <1>2
<1>4. AtSteps(m, N, S, d, t, c)
  BY <1>3, TurnSteps
<1>5. c \in S[t] /\ t \in S[t] /\ \A n \in N : n \notin S[t] => n \in N \ {c, t}
  <2>1. AtNode(m, N, S, t, d)
    BY WholeFacts
  <2>2. NULL \notin N
    BY NullIsNoNode
  <2>. QED BY <2>1, <2>2 DEF AtNode
<1>6. AtEnd(m, m4, m5, N, d, t, c)
  <2>1. RootOf(m, q) = t /\ Chain(m, N, q)
    <3>1. N \in SUBSET Elements /\ path \in Seq(Elements) /\ path # <<>> /\ Chain(m, N, path)
      OBVIOUS
    <3>. QED BY SMTT(60), <3>1, FrontOfChain
  <2>2. q # <<>> => Last(q) \in N \ {c, t}
    <3>1. SUFFICES ASSUME q # <<>> PROVE Last(q) \in N \ {c, t}
      OBVIOUS
    <3>2. Last(q) \in N /\ m[Side(Last(q), x)][Last(q)] = t
      BY <2>1, <3>1, FrontOfChain DEF RootOf
    <3>3. AtNode(m, N, S, Last(q), Side(Last(q), x))
      BY <3>2, SideFacts, WholeFacts
    <3>4. Last(q) \notin S[t]
      BY <3>2, <3>3 DEF AtNode
    <3>. QED BY <1>5, <3>2, <3>4
  <2>. QED BY <1>3, <2>1, <2>2, PutRootEnds
<1>7. m5 \in Memories /\ Rotated(m, m5, N, d, t, c) /\ m5.height = m4.height
  BY <1>6 DEF AtEnd
<1>8. /\ m1 \in Memories /\ m2 \in Memories /\ m3 \in Memories /\ m4 \in Memories
      /\ Sorted(m1, N, S) /\ Sorted(m2, N, T) /\ Sorted(m3, N, T) /\ Sorted(m4, N, T)
      /\ m4.height[t] = b + 1 /\ m4.height[c] = b + 2
      /\ \A n \in N \ {c, t} : m4.height[n] = m.height[n]
  BY <1>2, <1>4 DEF AtSteps
<1>9. Whole(m5, N, T) /\ T \in Below(N)
  <2>1. Whole(m5, N, T)
    <3>. HIDE DEF m5
    <3>. QED BY <1>7, TurnWhole
  <2>. QED BY <2>1 DEF Whole, Sorted
<1>10. \A n \in N : Right(m5, n)
  <2>. HIDE DEF m5, m4
  <2>. QED BY <1>7, <1>8, SingleRight
<1>11. Low(m5, N, T)
  <2>. HIDE DEF m5, T
  <2>. QED BY <1>7, <1>9, <1>10, RightIsLow
<1>12. Chain(m5, N, q) /\ RootOf(m5, q) = c
  <2>1. Relinked(m, m5, N \ {c, t}, t, c)
    BY <1>7 DEF Rotated
  <2>. HIDE DEF m5
  <2>. QED BY <1>5, <2>1, ChainKept
<1>13. /\ moves \in Seq(Assignment) /\ Len(moves) = 5
       /\ moves[1] = Set(d, t, m[o][c]) /\ moves[2] = Set(o, c, t)
       /\ moves[3] = Set("height", t, NULL) /\ moves[4] = Set("height", c, NULL)
       /\ moves[5] = Set("root", t, c)
  <2>1. m[o][c] \in Pointer
    <3>1. m[o] \in [Elements -> Pointer]
      BY <1>0, MemoryFacts
    <3>. QED BY <1>0, <3>1
  <2>2. /\ Set(d, t, m[o][c]) \in Assignment /\ Set(o, c, t) \in Assignment
        /\ Set("height", t, NULL) \in Assignment /\ Set("height", c, NULL) \in Assignment
        /\ Set("root", t, c) \in Assignment
    BY <1>0, <2>1 DEF Set, Assignment, Sides
  <2>. QED BY <2>2
<1>14. /\ Assigned(m, Set(d, t, m[o][c]), m1) /\ Assigned(m1, Set(o, c, t), m2)
       /\ Assigned(m2, Set("height", t, NULL), m3) /\ Assigned(m3, Set("height", c, NULL), m4)
       /\ Assigned(m4, Set("root", t, c), m5)
  <2>1. Assigned(m, Set(d, t, m[o][c]), m1) /\ Assigned(m1, Set(o, c, t), m2)
    BY <1>0 DEF Assigned, Set, TurnOne, TurnTwo
  <2>2. Assigned(m2, Set("height", t, NULL), m3) /\ Assigned(m3, Set("height", c, NULL), m4)
    BY DEF Assigned, Set, TurnThree, TurnFour
  <2>3. Assigned(m4, Set("root", t, c), m5)
    BY DEF Assigned, Set
  <2>. QED BY <2>1, <2>2, <2>3
<1>15. /\ Set(d, t, m[o][c]).of = t /\ Set(o, c, t).of = c
       /\ Set("height", t, NULL).of = t /\ Set("height", c, NULL).of = c
       /\ Set("root", t, c).of = t
  BY DEF Set
<1>16. Sorted(m, N, S) /\ Sorted(m5, N, T)
  BY <1>9 DEF Whole
<1>. HIDE DEF m1, m2, m3, m4, m5, T, moves, q
<1>17. /\ run \in Seq(Memories) /\ Len(run) = 6
       /\ run[1] = m /\ run[2] = m1 /\ run[3] = m2 /\ run[4] = m3 /\ run[5] = m4 /\ run[6] = m5
  BY <1>7, <1>8
<1>. HIDE DEF run
<1>18. \A j \in 1 .. 5 : moves[j].of \in N /\ Assigned(run[j], moves[j], run[j + 1])
  <2>1. \A j \in 1 .. 5 : j = 1 \/ j = 2 \/ j = 3 \/ j = 4 \/ j = 5
    OBVIOUS
  <2>. QED BY <1>13, <1>14, <1>15, <1>17, <2>1
<1>19. \A j \in 1 .. 6 : \E Z \in Below(N) : Sorted(run[j], N, Z)
  <2>1. \A j \in 1 .. 6 : j = 1 \/ j = 2 \/ j = 3 \/ j = 4 \/ j = 5 \/ j = 6
    OBVIOUS
  <2>. QED BY <1>8, <1>9, <1>16, <1>17, <2>1
<1>20. Leads(moves, run)
  <2>1. run[Len(run)] = m5 /\ 1 .. Len(moves) = 1 .. 5 /\ 1 .. Len(run) = 1 .. 6
        /\ Len(run) = Len(moves) + 1 /\ run[1] = Memory
    BY <1>13, <1>17
  <2>2. /\ \E Z \in Below(N) : Whole(run[Len(run)], N, Z) /\ Low(run[Len(run)], N, Z)
        /\ \A n \in N : Right(run[Len(run)], n)
        /\ Chain(run[Len(run)], N, Front(path)) /\ RootOf(run[Len(run)], Front(path)) \in N
    BY <1>9, <1>10, <1>11, <1>12, <2>1 DEF q
  <2>. QED BY <1>13, <1>17, <1>18, <1>19, <2>1, <2>2 DEF Leads
<1>. QED BY <1>1, <1>17, <1>20

\* Those of a double rotation do, too.
LEMMA DoubleLeads ==
  ASSUME NEW m \in Memories, m = Memory, nodes \in SUBSET Elements, x \in Elements,
         NEW S \in Below(nodes), Whole(m, nodes, S),
         path \in Seq(Elements), path # <<>>, Chain(m, nodes, path),
         NEW k3 \in nodes, k3 = Last(path), \A n \in nodes \ {k3} : Right(m, n),
         NEW d \in Sides, d = Side(k3, x), NEW o, o = Opposite(d),
         NEW k1 \in nodes, k1 = m[d][k3], k1 # k3, k1 # x, Side(k1, x) = o,
         NEW b, TooHigh(m, k3, d, k1, o, b)
  PROVE  \E run \in Seq(Memories) : Leads(Rotation(k3), run)
<1> DEFINE N == nodes
           k2 == m[o][k1]
           q == Front(path)
           T == Turned(m, S, o, k1, k2)
           m1 == TurnOne(m, o, k1, k2)
           m2 == TurnTwo(m, o, k1, k2)
           m3 == TurnThree(m, o, k1, k2)
           m4 == TurnFour(m, o, k1, k2)
           m5 == Put(m4, d, k3, k2)
           U == Turned(m5, T, d, k3, k2)
           m6 == TurnOne(m5, d, k3, k2)
           m7 == TurnTwo(m5, d, k3, k2)
           m8 == TurnThree(m5, d, k3, k2)
           m9 == TurnFour(m5, d, k3, k2)
           m10 == PutRoot(m9, q, k2)
           R == N \ {k1, k2, k3}
\* The three nodes and their heights.
<1>0. /\ o \in Sides /\ k3 \in Elements /\ k1 \in Elements /\ Opposite(o) = d /\ d # o
      /\ b \in Int /\ b >= -1 /\ b + 2 <= MaxElement /\ NULL \notin N
  BY SideFacts, NullIsNoNode DEF TooHigh
<1>1. k2 \in N
  <2>1. k2 \in N \cup {NULL}
    BY <1>0 DEF Whole, Sorted, Linked
  <2>. QED BY <1>0, <2>1 DEF TooHigh, HeightIn
<1>2. /\ AtNode(m, N, S, k3, d) /\ AtNode(m, N, S, k1, o)
  BY <1>0, WholeFacts
<1>3. /\ k1 # k2 /\ k2 # k3 /\ m[o][k3] # k1 /\ m[o][k3] # k2
      /\ \A n \in {k1, k2, k3} : n \in S[k3]
      /\ m.tree # k1
  <2>1. /\ k3 \notin S[k1] /\ k2 \in S[k1] /\ k1 \in S[k1] /\ S[k1] \subseteq S[k3]
        /\ k1 # m[o][k3] /\ k1 # k2 /\ k3 \in S[k3]
    BY ZenonT(40), <1>0, <1>1, <1>2 DEF AtNode
  <2>2. m[o][k3] # k2
    <3>1. m[o][k3] = m[o][k1] /\ m[o][k3] # NULL => k3 = k1
      BY <1>0 DEF Whole
    <3>. QED BY <1>0, <1>1, <3>1
  <2>3. m.tree # k1
    BY RootIsNoChild
  <2>4. \A n \in {k1, k2, k3} : n \in S[k3]
    BY <2>1
  <2>5. k2 # k3
    BY <2>1
  <2>. QED BY <2>1, <2>2, <2>3, <2>4, <2>5
<1>4. /\ HeightIn(m, m[d][k1]) = b /\ HeightIn(m, m[o][k3]) = b
      /\ HeightIn(m, m[d][k2]) \in Int /\ HeightIn(m, m[d][k2]) <= b
      /\ HeightIn(m, m[o][k2]) \in Int /\ HeightIn(m, m[o][k2]) <= b
  <2>1. HeightIn(m, m[d][k1]) = b /\ HeightIn(m, m[o][k3]) = b /\ HeightIn(m, k2) = b + 1
    BY <1>0 DEF TooHigh
  <2>2. b + 1 = FromSubtrees(m, k2)
    BY <1>0, <1>1, <1>3, <2>1 DEF Right, HeightIn
  <2>3. /\ HeightIn(m, m[d][k2]) \in Int /\ HeightIn(m, m[o][k2]) \in Int
        /\ b + 1 = 1 + Taller(HeightIn(m, m[d][k2]), HeightIn(m, m[o][k2]))
    <3>1. k2 \in Elements /\ d \in Sides
      BY <1>1
    <3>. HIDE DEF k2
    <3>2. /\ HeightIn(m, m[d][k2]) \in Int /\ HeightIn(m, m[Opposite(d)][k2]) \in Int
          /\ FromSubtrees(m, k2)
               = 1 + Taller(HeightIn(m, m[d][k2]), HeightIn(m, m[Opposite(d)][k2]))
      BY <3>1, HeightFacts
    <3>. QED BY <2>2, <3>2
  <2>. QED BY <1>0, <2>1, <2>3 DEF Taller
<1>. HIDE DEF k2
\* The rotation below k3.
<1>5. LowerHeight(m, o, k1, k2) = b + 1 /\ UpperHeight(m, o, k1, k2) = b + 2
  <2>1. LowerHeight(m, o, k1, k2) = b + 1
    BY <1>0, <1>4 DEF LowerHeight, Taller
  <2>. QED BY <1>0, <1>4, <2>1 DEF UpperHeight, Taller
<1>6. k2 = m[o][k1] /\ UpperHeight(m, o, k1, k2) <= MaxElement
  BY <1>0, <1>5 DEF k2
<1>7. AtSteps(m, N, S, o, k1, k2)
  BY <1>0, <1>1, <1>6, TurnSteps
<1>8. AtEnd(m, m4, m5, N, o, k1, k2)
  <2>1. k3 \in N \ {k1, k2} /\ m[d][k3] = k1
    BY <1>3
  <2>. QED BY <1>0, <1>1, <1>6, <2>1, TurnEnds
<1>9. /\ m1 \in Memories /\ m2 \in Memories /\ m3 \in Memories /\ m4 \in Memories
      /\ Sorted(m1, N, S) /\ Sorted(m2, N, T) /\ Sorted(m3, N, T) /\ Sorted(m4, N, T)
      /\ m4.height[k1] = b + 1 /\ m4.height[k2] = b + 2
      /\ \A n \in N \ {k1, k2} : m4.height[n] = m.height[n]
  BY ZenonT(40), <1>5, <1>7 DEF AtSteps
<1>. HIDE DEF m1, m2, m3, m4
<1>10. m5 \in Memories /\ Rotated(m, m5, N, o, k1, k2) /\ m5.height = m4.height
  BY <1>8 DEF AtEnd
<1>. HIDE DEF m5
<1>11. /\ m5[o][k2] = m[o][k2] /\ m5[d][k2] = k1 /\ m5[d][k3] = k2 /\ m5[o][k3] = m[o][k3]
       /\ m5.tree = m.tree
       /\ \A n \in N \ {k1, k2}, u \in Sides : m5[u][n] = IF m[u][n] = k1 THEN k2 ELSE m[u][n]
  BY <1>0, <1>3, <1>10 DEF Rotated, Relinked
<1>12. Whole(m5, N, T)
  BY <1>0, <1>1, <1>6, <1>10, TurnWhole
\* The rotation at k3.
<1>. HIDE DEF T
<1>13. LowerHeight(m5, d, k3, k2) = b + 1 /\ UpperHeight(m5, d, k3, k2) = b + 2
  <2>1. m[o][k2] # k1 /\ m[o][k2] # k2 /\ m[o][k2] \in N \cup {NULL} /\ m[o][k3] \in N \cup {NULL}
    <3>1. AtNode(m, N, S, k2, o)
      BY <1>0, <1>1, WholeFacts
    <3>2. m[o][k2] = m[d][k3] /\ m[o][k2] # NULL => k2 = k3
      BY <1>0, <1>1 DEF Whole
    <3>. QED BY ZenonT(40), <1>0, <1>2, <1>3, <3>1, <3>2 DEF AtNode
  <2>2. /\ HeightIn(m5, m[o][k2]) = HeightIn(m, m[o][k2])
        /\ HeightIn(m5, m[o][k3]) = HeightIn(m, m[o][k3])
        /\ HeightIn(m5, k1) = b + 1
    <3>1. m5.height[k1] = b + 1 /\ k1 # NULL
      BY <1>0, <1>9, <1>10
    <3>2. \A n \in N \ {k1, k2} : m5.height[n] = m.height[n]
      BY <1>9, <1>10
    <3>3. ASSUME NEW v, v \in N \cup {NULL}, v # k1, v # k2
          PROVE  HeightIn(m5, v) = HeightIn(m, v)
      BY <3>2, <3>3 DEF HeightIn
    <3>4. m[o][k3] # k1 /\ m[o][k3] # k2
      BY <1>3
    <3>. QED BY <2>1, <3>1, <3>3, <3>4 DEF HeightIn
  <2>3. LowerHeight(m5, d, k3, k2) = b + 1
    BY <1>0, <1>4, <1>11, <2>2 DEF LowerHeight, Taller
  <2>. QED BY <1>0, <1>11, <2>2, <2>3 DEF UpperHeight, Taller
<1>14. UpperHeight(m5, d, k3, k2) <= MaxElement
  BY <1>0, <1>13
<1>15. AtSteps(m5, N, T, d, k3, k2)
  BY <1>1, <1>10, <1>11, <1>12, <1>14, TurnSteps
<1>16. AtEnd(m5, m9, m10, N, d, k3, k2)
  <2>0. N \in SUBSET Elements /\ path \in Seq(Elements) /\ path # <<>> /\ Chain(m, N, path)
    OBVIOUS
  <2>1. RootOf(m, q) = k3 /\ Chain(m, N, q)
    BY <2>0, FrontOfChain
  <2>2. ASSUME q # <<>> PROVE Last(q) \in R /\ m5[Side(Last(q), x)][Last(q)] = k3
    <3>1. Last(q) \in N /\ m[Side(Last(q), x)][Last(q)] = k3 /\ Side(Last(q), x) \in Sides
      BY <2>1, <2>2, FrontOfChain, SideFacts DEF RootOf
    <3>2. AtNode(m, N, S, Last(q), Side(Last(q), x))
      BY <3>1, WholeFacts
    <3>3. Last(q) \notin S[k3]
      BY <3>1, <3>2 DEF AtNode
    <3>4. Last(q) \in R
      BY <1>3, <3>1, <3>3
    <3>. QED BY <1>11, <3>1, <3>4
  <2>3. RootOf(m5, q) = k3
    BY <1>11, <2>1, <2>2 DEF RootOf
  <2>4. q # <<>> => Last(q) \in N \ {k2, k3}
    BY <2>2
  <2>. HIDE DEF q
  <2>. QED BY <1>1, <1>10, <1>11, <1>12, <1>14, <2>3, <2>4, PutRootEnds
<1>17. /\ m6 \in Memories /\ m7 \in Memories /\ m8 \in Memories /\ m9 \in Memories
       /\ Sorted(m6, N, T) /\ Sorted(m7, N, U) /\ Sorted(m8, N, U) /\ Sorted(m9, N, U)
       /\ m9.height[k3] = b + 1 /\ m9.height[k2] = b + 2
       /\ \A n \in N \ {k3, k2} : m9.height[n] = m5.height[n]
  BY <1>13, <1>15 DEF AtSteps
<1>. HIDE DEF m6, m7, m8, m9, R
<1>18. m10 \in Memories /\ Rotated(m5, m10, N, d, k3, k2) /\ m10.height = m9.height
  BY <1>16 DEF AtEnd
<1>. HIDE DEF m10
<1>19. Whole(m10, N, U)
  BY <1>1, <1>10, <1>11, <1>12, <1>18, TurnWhole
<1>. HIDE DEF U
<1>20. S \in Below(N) /\ T \in Below(N) /\ U \in Below(N)
       /\ Sorted(m, N, S) /\ Sorted(m5, N, T) /\ Sorted(m10, N, U)
  BY <1>12, <1>19 DEF Whole, Sorted
<1>21. (\A n \in N : Right(m10, n)) /\ Relinked(m, m10, R, k3, k2)
  <2>1. /\ m10.height[k1] = b + 1 /\ m10.height[k3] = b + 1 /\ m10.height[k2] = b + 2
        /\ \A n \in N \ {k1, k2, k3} : m10.height[n] = m.height[n]
    <3>1. k1 \in N \ {k3, k2} /\ \A n \in N \ {k1, k2, k3} : n \in N \ {k3, k2} /\ n \in N \ {k1, k2}
      BY <1>3
    <3>. QED BY <1>9, <1>10, <1>17, <1>18, <3>1
  <2>2. DoublyRotated(m, m5, m10, N, d, k3, k1, k2, b)
    BY <1>6, <1>10, <1>18, <2>1 DEF DoublyRotated
  <2>3. (\A n \in N : Right(m10, n)) /\ Relinked(m, m10, N \ {k1, k2, k3}, k3, k2)
    BY <1>10, <1>18, <2>2, DoubleRight
  <2>. QED BY <2>3 DEF R
<1>22. Low(m10, N, U)
  BY <1>18, <1>19, <1>21, RightIsLow
<1>23. Chain(m10, N, q) /\ RootOf(m10, q) = k2
  <2>1. R \in SUBSET N /\ \A n \in N : n \notin S[k3] => n \in R
    BY <1>3 DEF R
  <2>2. N \in SUBSET Elements /\ path \in Seq(Elements) /\ path # <<>> /\ Chain(m, N, path)
    OBVIOUS
  <2>3. Relinked(m, m10, R, Last(path), k2) /\ \A n \in N : n \notin S[Last(path)] => n \in R
    BY <1>21, <2>1
  <2>. HIDE DEF q, R
  <2>4. Chain(m10, N, Front(path)) /\ RootOf(m10, Front(path)) = k2
    BY SMTT(30), <1>1, <2>1, <2>2, <2>3, ChainKept
  <2>. QED BY <2>4 DEF q
\* The run.
<1> DEFINE a1 == Set(o, k1, m[d][k2])     a2 == Set(d, k2, k1)
           a3 == Set("height", k1, NULL)  a4 == Set("height", k2, NULL)
           a5 == Set(d, k3, k2)
           a6 == Set(d, k3, m[o][k2])     a7 == Set(o, k2, k3)
           a8 == Set("height", k3, NULL)  a9 == Set("root", k3, k2)
           moves == <<a1, a2, a3, a4, a5, a6, a7, a8, a4, a9>>
           run == <<m, m1, m2, m3, m4, m5, m6, m7, m8, m9, m10>>
<1>24. Rotation(k3) = moves
  <2>1. Rotation(k3) = DoubleList(m, d, k3, k1)
    BY <1>0, RotationList
  <2>. QED BY <1>0, <1>6, <2>1 DEF DoubleList
<1>25. /\ Assigned(m, a1, m1) /\ Assigned(m1, a2, m2) /\ Assigned(m2, a3, m3)
       /\ Assigned(m3, a4, m4) /\ Assigned(m4, a5, m5)
  BY <1>0 DEF Assigned, Set, TurnOne, TurnTwo, TurnThree, TurnFour, Sides, m1, m2, m3, m4, m5
<1>26. /\ Assigned(m5, a6, m6) /\ Assigned(m6, a7, m7) /\ Assigned(m7, a8, m8)
       /\ Assigned(m8, a4, m9) /\ Assigned(m9, a9, m10)
  BY <1>0, <1>11 DEF Assigned, Set, TurnOne, TurnTwo, TurnThree, TurnFour, Sides,
                     m6, m7, m8, m9, m10, q
<1>27. /\ a1 \in Assignment /\ a2 \in Assignment /\ a3 \in Assignment /\ a4 \in Assignment
       /\ a5 \in Assignment /\ a6 \in Assignment /\ a7 \in Assignment /\ a8 \in Assignment
       /\ a9 \in Assignment
       /\ a1.of \in N /\ a2.of \in N /\ a3.of \in N /\ a4.of \in N /\ a5.of \in N
       /\ a6.of \in N /\ a7.of \in N /\ a8.of \in N /\ a9.of \in N
  <2>1. m[d][k2] \in Pointer /\ m[o][k2] \in Pointer /\ k2 \in Elements
    <3>1. m[o] \in [Elements -> Pointer] /\ m[d] \in [Elements -> Pointer]
      BY <1>0, MemoryFacts
    <3>. QED BY <1>1, <3>1
  <2>. QED BY <1>0, <1>1, <2>1 DEF Set, Assignment, Sides
<1>. HIDE DEF a1, a2, a3, a4, a5, a6, a7, a8, a9, q
<1>28. /\ moves \in Seq(Assignment) /\ Len(moves) = 10
       /\ moves[1] = a1 /\ moves[2] = a2 /\ moves[3] = a3 /\ moves[4] = a4 /\ moves[5] = a5
       /\ moves[6] = a6 /\ moves[7] = a7 /\ moves[8] = a8 /\ moves[9] = a4 /\ moves[10] = a9
  BY <1>27
<1>29. /\ run \in Seq(Memories) /\ Len(run) = 11
       /\ run[1] = m /\ run[2] = m1 /\ run[3] = m2 /\ run[4] = m3 /\ run[5] = m4 /\ run[6] = m5
       /\ run[7] = m6 /\ run[8] = m7 /\ run[9] = m8 /\ run[10] = m9 /\ run[11] = m10
  BY <1>9, <1>10, <1>17, <1>18
<1>. HIDE DEF run, moves
<1>30. \A j \in 1 .. 10 : moves[j].of \in N /\ Assigned(run[j], moves[j], run[j + 1])
  <2>1. \A j \in 1 .. 10 : \/ j = 1 \/ j = 2 \/ j = 3 \/ j = 4 \/ j = 5
                           \/ j = 6 \/ j = 7 \/ j = 8 \/ j = 9 \/ j = 10
    OBVIOUS
  <2>2. \A j \in 1 .. 10 : moves[j].of \in N
    BY <1>27, <1>28, <2>1
  <2>3. \A j \in 1 .. 10 : Assigned(run[j], moves[j], run[j + 1])
    BY SMTT(30), <1>25, <1>26, <1>28, <1>29, <2>1
  <2>. QED BY <2>2, <2>3
<1>31. \A j \in 1 .. 11 : \E Z \in Below(N) : Sorted(run[j], N, Z)
  <2>1. \A j \in 1 .. 11 : \/ j = 1 \/ j = 2 \/ j = 3 \/ j = 4 \/ j = 5 \/ j = 6
                           \/ j = 7 \/ j = 8 \/ j = 9 \/ j = 10 \/ j = 11
    OBVIOUS
  <2>. QED BY <1>9, <1>17, <1>20, <1>29, <2>1
<1>32. Leads(moves, run)
  <2>1. run[Len(run)] = m10 /\ 1 .. Len(moves) = 1 .. 10 /\ 1 .. Len(run) = 1 .. 11
        /\ Len(run) = Len(moves) + 1 /\ run[1] = Memory
    BY <1>28, <1>29
  <2>2. /\ \E Z \in Below(N) : Whole(run[Len(run)], N, Z) /\ Low(run[Len(run)], N, Z)
        /\ \A n \in N : Right(run[Len(run)], n)
        /\ Chain(run[Len(run)], N, Front(path)) /\ RootOf(run[Len(run)], Front(path)) \in N
    BY <1>1, <1>19, <1>20, <1>21, <1>22, <1>23, <2>1 DEF q
  <2>. QED BY <1>28, <1>29, <1>30, <1>31, <2>1, <2>2 DEF Leads
<1>. QED BY <1>24, <1>29, <1>32

-----------------------------------------------------------------------------
(***************************************************************************)
(* What every state is, for the steps.                                      *)
(***************************************************************************)

\* The variables are a memory.
LEMMA StateFacts ==
  ASSUME TypeOK
  PROVE  /\ Memory \in Memories /\ nodes \in SUBSET Elements
         /\ Memory.tree = tree /\ Memory.left = left /\ Memory.right = right
         /\ Memory.height = height
         /\ Memory["left"] = left /\ Memory["right"] = right
         /\ path \in Seq(Elements) /\ Len(path) \in Nat
  BY LenProperties DEF TypeOK, Memory, Memories

\* Root and RootOf agree.
LEMMA RootIs ==
  ASSUME NEW q
  PROVE  Root(q) = RootOf(Memory, q)
  BY DEF Root, RootOf, Side, Memory

\* height(), and the height that insert computes, read the memory of now.
LEMMA HeightIs ==
  ASSUME NEW t
  PROVE  /\ Height(t) = HeightIn(Memory, t)
         /\ HeightFromSubtrees(t) = FromSubtrees(Memory, t)
  BY DEF Height, HeightFromSubtrees, HeightIn, FromSubtrees, Taller, Memory

\* The parts of the invariant that hold while no rotation is in progress, for given values.
Steady(at, m, N, q) ==
  /\ \E S \in Below(N) : Whole(m, N, S) /\ Low(m, N, S)
  /\ Chain(m, N, q)
  /\ HeightsAre(at, m, N, q)

\* To show SteadyInv after a step it is enough to know the new memory.
LEMMA SteadyNext ==
  ASSUME x' = x, NEW m, m = Settled', NEW N, N = Known', NEW q, q = Waiting',
         Steady(pc', m, N, q)
  PROVE  SteadyInv'
<1>1. Chain(m, N, q)' 
  BY DEF Steady, Chain
<1>2. HeightsAre(pc, m, N, q)'
  BY DEF Steady, HeightsAre, RootOf, Grown, Tilted
<1>. QED BY <1>1, <1>2 DEF Steady, SteadyInv

-----------------------------------------------------------------------------
(***************************************************************************)
(* The steps.                                                               *)
(***************************************************************************)

\* The recursive call: the chain grows by a node, whose height bounds the depth.
LEMMA DescendStep ==
  ASSUME AvlInv, Descend
  PROVE  AvlInv'
<1> DEFINE m == Memory
           N == nodes
           r == Root(path)
           q == Append(path, r)
<1>1. /\ pc = "descend" /\ r # NULL /\ path' = q /\ pc' = pc /\ x' = x
      /\ Memory' = m /\ nodes' = nodes /\ todo' = todo
      /\ UNCHANGED <<tree, left, right, height>>
  BY DEF Descend, links, Memory
<1>2. /\ m \in Memories /\ N \in SUBSET Elements /\ path \in Seq(Elements)
      /\ Len(path) \in Nat
  BY StateFacts DEF AvlInv
<1>3. /\ x \in Elements /\ x \notin N /\ Settled = m /\ Known = N /\ Waiting = path
      /\ \A i \in 1 .. Len(path) : i + height[path[i]] < MaxElement
  BY <1>1 DEF AvlInv, ControlInv, Settled, Known, Waiting
<1>4. Settled' = m /\ Known' = N /\ Waiting' = q
  BY <1>1 DEF Settled, Known, Waiting
<1>5. /\ Chain(m, N, path) /\ \A n \in N : Right(m, n)
  BY <1>1, <1>3 DEF AvlInv, SteadyInv, HeightsAre
<1>6. PICK S \in Below(N) : Whole(m, N, S) /\ Low(m, N, S)
  BY <1>1, <1>3 DEF AvlInv, SteadyInv
<1>7. r = RootOf(m, path)
  BY RootIs
<1>8. r \in N
  <2>1. CASE path = <<>>
    BY <1>1, <1>6, <1>7, <2>1 DEF RootOf, Whole, Sorted, Linked
  <2>2. CASE path # <<>>
    <3>1. Last(path) \in N
      BY <1>2, <1>5, <2>2, FrontOfChain
    <3>. QED BY <1>1, <1>6, <1>7, <2>2, <3>1, SideFacts DEF RootOf, Whole, Sorted, Linked
  <2>. QED BY <2>1, <2>2
<1>. HIDE DEF m, N, r, q
<1>9. /\ q \in Seq(Elements) /\ Len(q) = Len(path) + 1 /\ q # <<>> /\ Len(q) \in Nat
      /\ \A i \in 1 .. Len(path) : q[i] = path[i]
      /\ q[Len(path) + 1] = r
  <2>1. r \in Elements
    BY <1>2, <1>8
  <2>. QED BY <1>2, <2>1, AppendProperties DEF q
\* The stack is no deeper than the tree, which has room for x.
<1>10. \A i \in 1 .. Len(q) : i + height[q[i]] < MaxElement
  <2>1. SUFFICES Len(q) + height[r] < MaxElement
    <3>1. \A i \in 1 .. Len(q) : i \in 1 .. Len(path) \/ i = Len(path) + 1
      BY <1>2, <1>9
    <3>. QED BY <1>3, <1>9, <2>1, <3>1
  <2>2. height = m.height
    BY DEF m, Memory
  <2>3. m.height[r] \in 0 .. Cardinality(S[r]) - 1
    BY <1>6, <1>8 DEF Low
  <2>4. CASE path = <<>>
    <3>1. Cardinality(S[r]) \in Nat /\ Cardinality(S[r]) <= Cardinality(N)
          /\ Cardinality(N) \in Nat
      BY <1>2, <1>6, <1>8, Smaller
    <3>2. Cardinality(N) < MaxElement
      <4>1. IsFiniteSet(Elements) /\ Cardinality(Elements) = MaxElement
        BY FS_Interval, AvlAssumption
      <4>. QED BY <1>2, <1>3, <4>1, FS_Subset, FS_CardinalityType
    <3>3. Len(q) = 1
      BY <1>9, <2>4, EmptySeq
    <3>. QED BY <2>2, <2>3, <3>1, <3>2, <3>3, AvlAssumption
  <2>5. CASE path # <<>>
    <3> DEFINE p == Last(path)
    <3>1. p = path[Len(path)] /\ Len(path) \in 1 .. Len(path) /\ p \in N
      BY <1>2, <1>5, <2>5, FrontFacts, FrontOfChain
    <3>2. r = m[Side(p, x)][p]
      BY <1>7, <2>5 DEF RootOf
    <3>3. m.height[p] = FromSubtrees(m, p) /\ p \in Elements /\ Side(p, x) \in Sides
      BY <1>2, <1>5, <3>1, SideFacts DEF Right
    <3>. HIDE DEF p
    <3>4. m.height[p] \in Int /\ m.height[r] < m.height[p]
      <4>1. HeightIn(m, r) \in Int /\ HeightIn(m, r) < FromSubtrees(m, p)
            /\ FromSubtrees(m, p) \in Int
        <5>1. /\ HeightIn(m, r) \in Int /\ FromSubtrees(m, p) \in Int
              /\ HeightIn(m, m[Opposite(Side(p, x))][p]) \in Int
              /\ FromSubtrees(m, p)
                   = 1 + Taller(HeightIn(m, r), HeightIn(m, m[Opposite(Side(p, x))][p]))
          BY <1>2, <3>2, <3>3, HeightFacts
        <5>. QED BY <5>1 DEF Taller
      <4>. QED BY <1>1, <3>3, <4>1 DEF HeightIn, r
    <3>5. Len(path) + m.height[p] < MaxElement
      BY <1>3, <2>2, <3>1
    <3>6. m.height[r] \in Int
      BY <1>2, <1>6, <1>8, <2>3, Smaller
    <3>. QED BY <1>2, <1>9, <2>2, <3>4, <3>5, <3>6, AvlAssumption
  <2>. QED BY <2>4, <2>5
<1>11. Chain(m, N, q)
  <2>1. \A i \in 1 .. Len(q) : q[i] \in N \ {x}
    <3>1. \A i \in 1 .. Len(q) : i \in 1 .. Len(path) \/ i = Len(path) + 1
      BY <1>2, <1>9
    <3>. QED BY <1>3, <1>5, <1>8, <1>9, <3>1 DEF Chain
  <2>2. q[1] = m.tree
    <3>1. CASE path = <<>>
      BY <1>7, <1>9, <3>1, EmptySeq DEF RootOf
    <3>2. CASE path # <<>>
      BY <1>2, <1>5, <1>9, <3>2, EmptySeq DEF Chain
    <3>. QED BY <3>1, <3>2
  <2>3. ASSUME NEW i \in 1 .. Len(q) - 1 PROVE q[i + 1] = m[Side(q[i], x)][q[i]]
    <3>1. CASE i < Len(path)
      <4>1. i \in 1 .. Len(path) - 1 /\ i \in 1 .. Len(path) /\ i + 1 \in 1 .. Len(path)
        BY <1>2, <1>9, <3>1
      <4>. QED BY <1>5, <1>9, <4>1 DEF Chain
    <3>2. CASE i = Len(path)
      <4>1. path # <<>> /\ i \in 1 .. Len(path)
        BY <1>2, <3>2, EmptySeq
      <4>. QED BY <1>7, <1>9, <3>2, <4>1 DEF RootOf, Last
    <3>. QED BY <1>2, <1>9, <3>1, <3>2
  <2>. QED BY <2>1, <2>2, <2>3 DEF Chain
<1>12. SteadyInv'
  <2>1. HeightsAre(pc, m, N, q)
    BY <1>1, <1>5 DEF HeightsAre
  <2>2. Steady(pc', m, N, q)
    BY <1>1, <1>6, <1>11, <2>1 DEF Steady
  <2>. QED BY <1>1, <1>4, <2>2, SteadyNext
<1>13. TypeOK'
  <2>1. Len(q) <= MaxElement
    <3>1. Len(q) + height[r] < MaxElement /\ height[r] \in Int /\ height[r] >= 0
      <4>1. Len(q) + height[q[Len(q)]] < MaxElement
        BY <1>2, <1>9, <1>10
      <4>2. height[r] \in 0 .. Cardinality(S[r]) - 1
        BY <1>6, <1>8 DEF Low, m, Memory
      <4>. QED BY <1>2, <1>6, <1>8, <1>9, <4>1, <4>2, Smaller
    <3>. QED BY <1>9, <3>1, AvlAssumption
  <2>. QED BY <1>1, <1>9, <2>1 DEF AvlInv, TypeOK
<1>14. ControlInv'
  BY <1>1, <1>3, <1>9, <1>10 DEF AvlInv, ControlInv, Known
<1>15. RotateInv'
  BY <1>1 DEF RotateInv
<1>. QED BY <1>12, <1>13, <1>14, <1>15 DEF AvlInv

\* memset() makes of the node what was already said of it.
LEMMA InitialiseStep ==
  ASSUME AvlInv, Initialise
  PROVE  AvlInv'
<1>1. /\ pc = "raw" /\ pc' = "height" /\ path' = path /\ x' = x /\ todo' = todo
      /\ tree' = tree
      /\ left' = [left EXCEPT ![x] = NULL] /\ right' = [right EXCEPT ![x] = NULL]
      /\ height' = [height EXCEPT ![x] = 0] /\ nodes' = nodes \cup {x}
  BY DEF Initialise
<1>2. TypeOK /\ x \in Elements /\ path # <<>>
  BY <1>1 DEF AvlInv, ControlInv
<1>3. Settled' = Settled /\ Known' = Known /\ Waiting' = Waiting
  BY <1>1 DEF Settled, Known, Waiting, Memory
<1>4. TypeOK'
  BY <1>1, <1>2, AvlAssumption DEF TypeOK, NoHeight
<1>5. ControlInv'
  <2>1. nodes' = Known
    BY <1>1 DEF Known
  <2>2. ASSUME NEW e \in Elements \ Known PROVE left'[e] = NULL /\ right'[e] = NULL
    <3>1. e # x /\ left[e] = NULL /\ right[e] = NULL
      BY <1>1, <2>2 DEF AvlInv, ControlInv, Known
    <3>. QED BY <1>1, <1>2, <3>1 DEF TypeOK
  <2>. QED BY <1>1, <1>2, <1>3, <2>1, <2>2 DEF AvlInv, ControlInv
<1>6. SteadyInv'
  <2> DEFINE m == Settled  N == Known  q == Waiting
  <2>1. Steady(pc, m, N, q)
    BY <1>1 DEF AvlInv, SteadyInv, Steady
  <2>2. m = Settled' /\ N = Known' /\ q = Waiting'
    BY <1>3
  <2>. HIDE DEF m, N, q
  <2>3. Steady(pc', m, N, q)
    BY <1>1, <2>1 DEF Steady, HeightsAre
  <2>. QED BY <1>1, <2>2, <2>3, SteadyNext
<1>7. RotateInv'
  BY <1>1 DEF RotateInv
<1>. QED BY <1>4, <1>5, <1>6, <1>7 DEF AvlInv

\* The last statement of insert, on a memory.
LEMMA HeightSet ==
  ASSUME NEW N \in SUBSET Elements, NEW m \in Memories, NEW S \in Below(N),
         Whole(m, N, S), Low(m, N, S),
         NEW q \in Seq(Elements), Chain(m, N, q), HeightsAre("height", m, N, q),
         NEW t, t = RootOf(m, q), NEW v, v = FromSubtrees(m, t),
         NEW w \in Memories, HeightPut(w, m, t, v)
  PROVE  Steady(IF q = <<>> THEN "idle" ELSE "balance", w, N, q)
<1> DEFINE p == Last(q)
           f == Side(p, x)
<1>1. /\ t \in N /\ Lean(m, t, "left") \in -1 .. 1
      /\ \A n \in N \ {t} : (q # <<>> /\ n = p) \/ Right(m, n)
      /\ q # <<>> => Grown(m, p, t, v)
  BY DEF HeightsAre
<1>2. /\ w.height[t] = v /\ \A o \in Elements : o # t => w.height[o] = m.height[o]
      /\ \A d \in Sides : w[d] = m[d]
      /\ w.left = m.left /\ w.right = m.right /\ w.tree = m.tree
  BY DEF HeightPut
<1>3. t \in Elements /\ t # NULL /\ (\A n \in N : n \in Elements)
  BY <1>1, NullIsNoNode
<1>4. q # <<>> => p \in N /\ p # x /\ f \in Sides /\ t = m[f][p]
  BY FrontOfChain, SideFacts DEF RootOf
<1>. HIDE DEF p, f
\* Nodes other than the one above t do not have it as a child.
<1>5. ASSUME NEW n \in N, NEW d \in Sides, m[d][n] = t
      PROVE  q # <<>> /\ n = p
  <2>1. CASE q = <<>>
    <3>1. t = m.tree
      BY <2>1 DEF RootOf
    <3>. QED BY <1>5, <3>1, RootIsNoChild
  <2>2. CASE q # <<>>
    <3>1. p \in N /\ f \in Sides /\ m[d][n] = m[f][p] /\ m[d][n] # NULL
      BY <1>3, <1>4, <1>5, <2>2
    <3>. QED BY <2>2, <3>1 DEF Whole
  <2>. QED BY <2>1, <2>2
<1>6. \A c : c # t /\ c \in Pointer => HeightIn(w, c) = HeightIn(m, c)
  BY <1>2 DEF HeightIn
<1>7. ASSUME NEW n \in N, q = <<>> \/ n # p
      PROVE  \A d \in Sides : HeightIn(w, w[d][n]) = HeightIn(m, m[d][n])
  <2>1. ASSUME NEW d \in Sides PROVE HeightIn(w, w[d][n]) = HeightIn(m, m[d][n])
    <3>1. m[d][n] # t
      BY <1>5, <1>7
    <3>2. m[d][n] \in Pointer /\ w[d][n] = m[d][n]
      BY <1>2, MemoryFacts
    <3>. QED BY <1>6, <3>1, <3>2
  <2>. QED BY <2>1
<1>8. /\ FromSubtrees(w, t) = v /\ w.height[t] = v
      /\ \A d \in Sides : Lean(w, t, d) = Lean(m, t, d)
      /\ Right(w, t)
  <2>1. q = <<>> \/ t # p
    <3>1. CASE q # <<>>
      <4>1. AtNode(m, N, S, p, f)
        BY <1>4, <3>1, WholeFacts
      <4>. QED BY <1>4, <3>1, <4>1 DEF AtNode
    <3>. QED BY <3>1
  <2>2. \A d \in Sides : HeightIn(w, w[d][t]) = HeightIn(m, m[d][t])
    BY <1>1, <1>7, <2>1
  <2>3. FromSubtrees(w, t) = v /\ \A d \in Sides : Lean(w, t, d) = Lean(m, t, d)
    BY <1>3, <2>2, SameHeights
  <2>. QED BY <1>1, <1>2, <2>3 DEF Right, Sides
<1>9. ASSUME NEW n \in N, q = <<>> \/ n # p PROVE Right(w, n)
  <2>1. CASE n = t
    BY <1>8, <2>1
  <2>2. CASE n # t
    <3>1. Right(m, n) /\ w.height[n] = m.height[n] /\ n \in Elements
      BY <1>1, <1>2, <1>9, <2>2
    <3>2. \A d \in Sides : HeightIn(w, w[d][n]) = HeightIn(m, m[d][n])
      BY <1>7, <1>9
    <3>. QED BY <3>1, <3>2, SameHeights
  <2>. QED BY <2>1, <2>2
<1>10. q # <<>> => Grown(w, p, t, HeightIn(w, t))
  <2>1. SUFFICES ASSUME q # <<>> PROVE Grown(w, p, t, HeightIn(w, t))
    OBVIOUS
  <2>2. HeightIn(w, t) = v
    BY <1>2, <1>3 DEF HeightIn
  <2> DEFINE o == m[Opposite(f)][p]
  <2>3. /\ w[Opposite(f)][p] = o /\ o # t /\ o \in Pointer
        /\ p \in Elements /\ p # t
    <3>1. AtNode(m, N, S, p, f)
      BY <1>4, <2>1, WholeFacts
    <3>. QED BY <1>2, <1>3, <1>4, <2>1, <3>1, SideFacts DEF AtNode
  <2>4. HeightIn(w, o) = HeightIn(m, o) /\ w.height[p] = m.height[p]
    BY <1>2, <1>6, <2>3
  <2>5. Tilted(m, t) => Tilted(w, t)
    BY <1>8, SideFacts DEF Tilted
  <2>6. PICK g \in {v - 1, v} : /\ m.height[p] = 1 + Taller(g, HeightIn(m, o))
                                /\ g - HeightIn(m, o) \in -1 .. 1
                                /\ g = v \/ Tilted(m, t)
    BY <1>1, <2>1 DEF Grown, f
  <2>. QED BY <2>2, <2>3, <2>4, <2>5, <2>6 DEF Grown, f
<1>11. Whole(w, N, S)
  <2>1. Sorted(w, N, S)
    BY <1>2, SortedSame DEF Whole
  <2>. QED BY <1>2, <2>1 DEF Whole
<1>12. Low(w, N, S)
  <2>1. v \in 0 .. Cardinality(S[t]) - 1
    <3>1. \A d \in Sides : m[d][t] # NULL => m[d][t] \in N
      BY <1>1 DEF Whole, Sorted, Linked
    <3>. QED BY <1>1, <3>1, LowFromChildren DEF Low
  <2>. QED BY <1>2, <1>3, <2>1 DEF Low
<1>13. Chain(w, N, q)
  BY <1>2, SideFacts DEF Chain
<1>14. HeightsAre(IF q = <<>> THEN "idle" ELSE "balance", w, N, q)
  <2>1. CASE q = <<>>
    BY <1>9, <2>1 DEF HeightsAre
  <2>2. CASE q # <<>>
    <3>1. w[Side(p, x)][p] = t
      BY <1>2, <1>4, <2>2 DEF f
    <3>2. \A n \in N \ {p} : Right(w, n)
      BY <1>9
    <3>. QED BY <1>10, <2>2, <3>1, <3>2 DEF HeightsAre, p
  <2>. QED BY <2>1, <2>2
<1>. QED BY <1>11, <1>12, <1>13, <1>14 DEF Steady

\* The last statement of insert and its return.
LEMMA ReturnStep ==
  ASSUME AvlInv, Return
  PROVE  AvlInv'
<1> DEFINE m == Memory
           q == Front(path)
           t == Root(q)
           v == FromSubtrees(m, t)
           w == Put(m, "height", t, v)
<1>1. /\ pc = "height" /\ pc' = (IF q = <<>> THEN "idle" ELSE "balance") /\ path' = q
      /\ x' = x /\ todo' = todo /\ tree' = tree /\ left' = left /\ right' = right
      /\ nodes' = nodes /\ height' = [height EXCEPT ![t] = v]
  BY HeightIs DEF Return, links
<1>2. /\ m \in Memories /\ nodes \in SUBSET Elements /\ path # <<>>
      /\ q \in Seq(Elements) /\ Len(q) = Len(path) - 1 /\ Len(path) \in Nat
      /\ TypeOK /\ x \in Elements
  BY <1>1, StateFacts, FrontFacts DEF AvlInv, ControlInv
<1>3. Settled = m /\ Known = nodes /\ Waiting = q
  BY <1>1 DEF Settled, Known, Waiting
<1>4. t = RootOf(m, q)
  BY RootIs
<1>5. PICK S \in Below(nodes) : Whole(m, nodes, S) /\ Low(m, nodes, S)
  BY <1>1, <1>3 DEF AvlInv, SteadyInv
<1>6. Chain(m, nodes, q) /\ HeightsAre("height", m, nodes, q)
  BY <1>1, <1>3 DEF AvlInv, SteadyInv
<1>7. t \in nodes /\ t \in Elements
  BY <1>2, <1>4, <1>6 DEF HeightsAre
<1>8. v \in 0 .. MaxElement
  <2>1. \A d \in Sides : m[d][t] # NULL => m[d][t] \in nodes
    BY <1>5, <1>7 DEF Whole, Sorted, Linked
  <2>2. v \in 0 .. Cardinality(S[t]) - 1
    BY <1>2, <1>5, <1>7, <2>1, LowFromChildren DEF Low
  <2>3. /\ Cardinality(S[t]) \in Nat /\ Cardinality(S[t]) <= Cardinality(nodes)
        /\ Cardinality(nodes) <= MaxElement /\ Cardinality(nodes) \in Nat
    BY <1>2, <1>5, <1>7, Smaller
  <2>. HIDE DEF v
  <2>. QED BY <2>2, <2>3, AvlAssumption
<1>9. HeightPut(w, m, t, v)
  BY <1>2, <1>7, <1>8, PutHeight
<1>10. Memory' = w
  <2>1. Memory' = [tree |-> tree, left |-> left, right |-> right,
                   height |-> [height EXCEPT ![t] = v]]
    BY <1>1 DEF Memory
  <2>. HIDE DEF t, v
  <2>. QED BY <2>1 DEF w, m, Put, Memory
<1>11. Settled' = w /\ Known' = nodes /\ Waiting' = q
  BY <1>1, <1>10 DEF Settled, Known, Waiting
<1>12. Steady(pc', w, nodes, q)
  <2>1. w \in Memories
    BY <1>9 DEF HeightPut
  <2>. HIDE DEF m, t, v, w, q
  <2>2. Steady(IF q = <<>> THEN "idle" ELSE "balance", w, nodes, q)
    BY <1>2, <1>4, <1>5, <1>6, <1>9, <2>1, HeightSet DEF v
  <2>. QED BY <1>1, <2>2
<1>. HIDE DEF m, t, v, w, q
<1>13. SteadyInv'
  BY <1>1, <1>11, <1>12, SteadyNext
<1>14. TypeOK'
  <2>1. /\ height' \in [Elements -> {NoHeight} \cup 0 .. MaxElement]
        /\ \A n \in nodes' : height'[n] # NoHeight
    <3>1. v # NoHeight
      BY <1>8 DEF NoHeight
    <3>. QED BY <1>1, <1>2, <1>7, <1>8, <3>1 DEF TypeOK
  <2>2. /\ pc' \in {"idle", "descend", "raw", "height", "balance", "rotate"}
        /\ path' \in Seq(Elements) /\ Len(path') <= MaxElement
    BY <1>1, <1>2, AvlAssumption DEF TypeOK
  <2>. QED BY <1>1, <1>2, <2>1, <2>2 DEF TypeOK
<1>15. ControlInv'
  BY <1>1, <1>2, <1>3, <1>11 DEF AvlInv, ControlInv, Known
<1>16. RotateInv'
  BY <1>1 DEF RotateInv
<1>. QED BY <1>13, <1>14, <1>15, <1>16 DEF AvlInv

\* Where the subtree is not too high, its height is all that is left to be set.
LEMMA NoRotation ==
  ASSUME NEW N \in SUBSET Elements, NEW m \in Memories, NEW S, Whole(m, N, S),
         NEW q \in Seq(Elements), q # <<>>, Chain(m, N, q), HeightsAre("balance", m, N, q),
         NEW t, t = Last(q), NEW d, d = Side(t, x),
         Lean(m, t, d) # 2
  PROVE  HeightsAre("height", m, N, Front(q))
<1> DEFINE c == m[d][t]
           h == HeightIn(m, c)
           b == HeightIn(m, m[Opposite(d)][t])
           f == Front(q)
           p == Last(f)
           v == FromSubtrees(m, t)
<1>1. /\ t \in N /\ t # x /\ t = RootOf(m, f) /\ d \in Sides /\ t \in Elements
      /\ f # <<>> => p \in N /\ p \in Elements
  <2>1. RootOf(m, f) = t /\ t \in N \ {x} /\ (f # <<>> => p \in N \ {x})
    BY FrontOfChain
  <2>2. d \in Sides
    BY SideFacts
  <2>. QED BY <2>1, <2>2
<1>2. /\ \A n \in N \ {t} : Right(m, n)
      /\ Grown(m, t, c, h)
  BY DEF HeightsAre
<1>3. /\ h \in Int /\ b \in Int /\ v = 1 + Taller(h, b) /\ v \in Nat
      /\ Lean(m, t, d) = h - b
      /\ Lean(m, t, "left") \in -1 .. 1 <=> h - b \in -1 .. 1
  BY <1>1, HeightFacts
<1>4. PICK g \in {h - 1, h} : /\ m.height[t] = 1 + Taller(g, b)
                              /\ g - b \in -1 .. 1
  BY <1>2 DEF Grown
<1>5. \A n \in N \ {t} : (f # <<>> /\ n = p) \/ Right(m, n)
  BY <1>2
<1>. HIDE DEF c, h, b, v, f, p
<1>6. h - b \in -1 .. 1
  BY <1>3, <1>4
<1>7. f # <<>> => Grown(m, p, t, v)
  <2>1. SUFFICES ASSUME f # <<>> PROVE Grown(m, p, t, v)
    OBVIOUS
  <2> DEFINE k == Side(p, x)
             a == m.height[t]
             o == HeightIn(m, m[Opposite(k)][p])
  <2>2. k \in Sides /\ t = m[k][p]
    BY <1>1, <2>1, SideFacts DEF RootOf, p
  <2>3. p # t
    <3>1. AtNode(m, N, S, p, k)
      BY <1>1, <2>1, <2>2, WholeFacts
    <3>. QED BY <2>2, <3>1 DEF AtNode
  <2>4. Right(m, p)
    BY <1>1, <1>2, <2>1, <2>3
  <2>5. HeightIn(m, t) = a
    BY <1>1, NullIsNoNode DEF HeightIn
  <2>. HIDE DEF k
  <2>6. m.height[p] = 1 + Taller(a, o) /\ a - o \in -1 .. 1
    BY <1>1, <2>1, <2>2, <2>4, <2>5, HeightFacts DEF Right
  <2>. HIDE DEF o
  <2>7. a \in {v - 1, v}
    BY SMTT(30), <1>3, <1>4 DEF Taller
  <2>8. a = v \/ Tilted(m, t)
    <3>1. a # v => h - b = 1
      BY <1>3, <1>4, <1>6 DEF Taller
    <3>. QED BY <1>1, <1>3, <3>1 DEF Tilted
  <2>. HIDE DEF a
  <2>9. LET other == HeightIn(m, m[Opposite(Side(p, x))][p]) IN
        /\ m.height[p] = 1 + Taller(a, other)
        /\ a - other \in -1 .. 1
        /\ a = v \/ Tilted(m, t)
    BY <2>6, <2>8 DEF o, k
  <2>. QED BY <2>7, <2>9 DEF Grown
<1>. QED BY <1>1, <1>3, <1>5, <1>6, <1>7 DEF HeightsAre, f, p, v

\* The decision whether to rotate, and how.
LEMMA BalanceStep ==
  ASSUME AvlInv, Balance
  PROVE  AvlInv'
<1> DEFINE m == Memory
           t == Last(path)
           d == Side(t, x)
           c == m[d][t]
           b == HeightIn(m, m[Opposite(d)][t])
<1>1. /\ pc = "balance" /\ path' = path /\ x' = x /\ nodes' = nodes /\ Memory' = m
      /\ tree' = tree /\ left' = left /\ right' = right /\ height' = height
  BY DEF Balance, links, Memory
<1>2. /\ m \in Memories /\ nodes \in SUBSET Elements /\ path # <<>>
      /\ path \in Seq(Elements) /\ TypeOK /\ x \in Elements
  BY <1>1, StateFacts DEF AvlInv, ControlInv
<1>3. Settled = m /\ Known = nodes /\ Waiting = path
  BY <1>1 DEF Settled, Known, Waiting
<1>4. PICK S \in Below(nodes) : Whole(m, nodes, S) /\ Low(m, nodes, S)
  BY <1>1, <1>3 DEF AvlInv, SteadyInv
<1>5. Chain(m, nodes, path) /\ HeightsAre("balance", m, nodes, path)
  BY <1>1, <1>3 DEF AvlInv, SteadyInv
<1>6. t \in nodes /\ t # x /\ t \in Elements /\ d \in Sides
      /\ Chain(m, nodes, Front(path))
  BY <1>2, <1>5, FrontOfChain, SideFacts
<1>7. Lean(m, t, d) = HeightIn(m, c) - b
  BY DEF Lean
<1>8. IF Lean(m, t, d) = 2 THEN pc' = "rotate" /\ todo' = Rotation(t)
                           ELSE pc' = "height" /\ todo' = todo
  <2>1. Lean(m, t, d) = IF x < t THEN Height(left[t]) - Height(right[t])
                                 ELSE Height(right[t]) - Height(left[t])
    BY HeightIs DEF Lean, Side, Opposite, Memory
  <2>. QED BY <2>1 DEF Balance
<1>9. TypeOK /\ ControlInv
  BY DEF AvlInv
<1>10. CASE Lean(m, t, d) = 2
  <2>1. /\ c \in nodes /\ c # t /\ c # x
        /\ TooHigh(m, t, d, c, Side(c, x), b)
        /\ \A n \in nodes \ {t} : Right(m, n)
    <3>1. /\ \A n \in nodes \ {t} : Right(m, n)
          /\ Grown(m, t, c, HeightIn(m, c))
      BY <1>5 DEF HeightsAre
    <3>. QED BY <1>2, <1>4, <1>6, <1>7, <1>10, <3>1, InsertRotates
  <2>. HIDE DEF m, t, d, c, b
  <2>2. PICK run \in Seq(Memories) : Leads(Rotation(t), run)
    <3>1. CASE Side(c, x) = d
      BY <1>2, <1>4, <1>5, <1>6, <2>1, <3>1, SingleLeads DEF m, t, d, c
    <3>2. CASE Side(c, x) # d
      <4>1. Side(c, x) = Opposite(d)
        BY <1>6, <3>2, SideFacts
      <4>. QED BY <1>2, <1>4, <1>5, <1>6, <2>1, <4>1, DoubleLeads DEF m, t, d, c
    <3>. QED BY <3>1, <3>2
  <2>3. Rotation(t) # <<>>
    <3>1. \/ Rotation(t) = SingleList(m, d, t, c)
          \/ Rotation(t) = DoubleList(m, d, t, c)
      <4>1. c \in Elements /\ c = Memory[Side(t, x)][t]
        BY <1>2, <2>1 DEF m, d, c
      <4>2. Rotation(t) = IF Side(c, x) = Side(t, x)
                            THEN SingleList(Memory, Side(t, x), t, c)
                            ELSE DoubleList(Memory, Side(t, x), t, c)
        BY <1>2, <1>6, <2>1, <4>1, RotationList
      <4>. QED BY <4>2 DEF m, d
    <3>2. Len(SingleList(m, d, t, c)) = 5
      BY DEF SingleList
    <3>3. Len(DoubleList(m, d, t, c)) = 10
      BY DEF DoubleList
    <3>4. Len(<<>>) = 0
      BY EmptySeq
    <3>5. 5 # 0 /\ 10 # 0
      OBVIOUS
    <3>. QED BY <3>1, <3>2, <3>3, <3>4, <3>5, Zenon
  <2>4. RotateInv'
    <3>1. Leads(todo, run)'
      BY <1>1, <1>8, <1>10, <2>2 DEF Leads, Assigned, PutRoot, Chain, RootOf, m
    <3>. QED BY <3>1 DEF RotateInv
  <2>5. TypeOK'
    BY <1>1, <1>8, <1>9, <1>10, <2>2 DEF TypeOK, Leads
  <2>6. ControlInv'
    BY <1>1, <1>8, <1>9, <1>10, <2>3 DEF ControlInv, Known
  <2>7. SteadyInv'
    BY <1>8, <1>10 DEF SteadyInv
  <2>. QED BY <2>4, <2>5, <2>6, <2>7 DEF AvlInv
<1>11. CASE Lean(m, t, d) # 2
  <2>1. pc' = "height" /\ todo' = todo
    BY <1>8, <1>11
  <2>2. Settled' = m /\ Known' = nodes /\ Waiting' = Front(path)
    BY <1>1, <2>1 DEF Settled, Known, Waiting
  <2>. HIDE DEF m, d, t, c, b
  <2>3. HeightsAre("height", m, nodes, Front(path))
    BY <1>2, <1>4, <1>5, <1>6, <1>11, NoRotation DEF t, d
  <2>4. Steady(pc', m, nodes, Front(path))
    BY <1>4, <1>6, <2>1, <2>3 DEF Steady
  <2>5. SteadyInv'
    BY <1>1, <2>2, <2>4, SteadyNext
  <2>6. TypeOK' /\ ControlInv' /\ RotateInv'
    BY <1>1, <1>9, <2>1 DEF TypeOK, ControlInv, Known, RotateInv
  <2>. QED BY <2>5, <2>6 DEF AvlInv
<1>. QED BY <1>10, <1>11

\* What Head and Tail of a sequence are.
LEMMA TailFacts ==
  ASSUME NEW E, NEW s \in Seq(E), s # <<>>
  PROVE  /\ Tail(s) \in Seq(E) /\ Len(s) \in Nat /\ Len(s) >= 1
         /\ Len(Tail(s)) = Len(s) - 1 /\ Head(s) = s[1]
         /\ \A i \in 1 .. Len(s) - 1 : Tail(s)[i] = s[i + 1]
         /\ Tail(s) = <<>> <=> Len(s) = 1
<1>1. Len(s) \in Nat /\ Len(s) >= 1
  BY EmptySeq, LenProperties
<1>2. /\ Tail(s) \in Seq(E) /\ Len(Tail(s)) = Len(s) - 1
      /\ \A i \in 1 .. Len(Tail(s)) : Tail(s)[i] = s[i + 1]
  BY HeadTailProperties
<1>3. Head(s) = s[1]
  OBVIOUS
<1>4. Tail(s) = <<>> <=> Len(s) = 1
  <2>1. Tail(s) # <<>> => Len(Tail(s)) \in Nat \ {0}
    BY <1>2, EmptySeq
  <2>2. Tail(s) = <<>> => Len(Tail(s)) = 0
    BY EmptySeq
  <2>. QED BY <1>1, <1>2, <2>1, <2>2
<1>. QED BY <1>1, <1>2, <1>3, <1>4

\* What an assignment of a rotation does to the memory.
LEMMA AssignedNext ==
  ASSUME TypeOK, Rotate, x \in Elements, NEW a \in Assignment, a = Head(todo), a.of \in nodes,
         NEW k, Assigned(Memory, a, k),
         Front(path) # <<>> => Last(Front(path)) \in nodes \ {x}
  PROVE  /\ Memory' = k
         /\ \A e \in Elements \ nodes : left'[e] = left[e] /\ right'[e] = right[e]
         /\ \A n \in nodes : height'[n] # NoHeight
<1> DEFINE p == Last(Front(path))
<1>1. /\ left \in [Elements -> Pointer] /\ right \in [Elements -> Pointer]
      /\ height \in [Elements -> {NoHeight} \cup 0 .. MaxElement]
      /\ nodes \in SUBSET Elements
      /\ \A n \in nodes : height[n] # NoHeight
      /\ a.of \in Elements
  BY DEF TypeOK
<1>2. CASE a.field = "left"
  <2>1. /\ left' = [left EXCEPT ![a.of] = a.to]
        /\ UNCHANGED <<tree, right, height>>
    BY <1>2 DEF Rotate
  <2>2. k = Put(Memory, "left", a.of, a.to)
    BY <1>2 DEF Assigned, Sides
  <2>3. Memory' = k
    BY <2>1, <2>2 DEF Memory, Put
  <2>. QED BY <1>1, <2>1, <2>3
<1>3. CASE a.field = "right"
  <2>1. /\ right' = [right EXCEPT ![a.of] = a.to]
        /\ UNCHANGED <<tree, left, height>>
    BY <1>3 DEF Rotate
  <2>2. k = Put(Memory, "right", a.of, a.to)
    BY <1>3 DEF Assigned, Sides
  <2>3. Memory' = k
    BY <2>1, <2>2 DEF Memory, Put
  <2>. QED BY <1>1, <2>1, <2>3
<1>4. CASE a.field = "height"
  <2> DEFINE v == FromSubtrees(Memory, a.of)
  <2>1. height' = [height EXCEPT ![a.of] = v] /\ UNCHANGED <<tree, left, right>>
    BY <1>4, HeightIs DEF Rotate, links
  <2>2. k = Put(Memory, "height", a.of, v)
    BY <1>4 DEF Assigned, Sides
  <2>3. v \in Nat
    <3>1. Memory \in Memories /\ "left" \in Sides
      BY StateFacts DEF Sides
    <3>. QED BY <1>1, <3>1, HeightFacts
  <2>. HIDE DEF v
  <2>4. Memory' = k
    BY <2>1, <2>2 DEF Memory, Put
  <2>5. v # NoHeight
    BY <2>3 DEF NoHeight
  <2>. QED BY <1>1, <2>1, <2>4, <2>5
<1>5. CASE a.field = "root"
  <2>1. SetRoot(Front(path), a.to) /\ height' = height
    BY <1>5 DEF Rotate
  <2>2. k = PutRoot(Memory, Front(path), a.to)
    BY <1>5 DEF Assigned, Sides
  <2>3. CASE Front(path) = <<>>
    <3>1. tree' = a.to /\ left' = left /\ right' = right
      BY <2>1, <2>3 DEF SetRoot
    <3>2. Memory' = k
      BY <2>1, <2>2, <2>3, <3>1 DEF Memory, PutRoot
    <3>. QED BY <1>1, <2>1, <3>1, <3>2
  <2>4. CASE Front(path) # <<>>
    <3>1. p \in nodes /\ p # x /\ x \in Int /\ p \in Int
      <4>1. p \in nodes \ {x}
        BY <2>4
      <4>2. x \in Int /\ \A n \in nodes : n \in Int
        BY <1>1, NullIsNoNode, AvlAssumption
      <4>. QED BY <4>1, <4>2
    <3>2. k = Put(Memory, Side(p, x), p, a.to)
      BY <2>2, <2>4 DEF PutRoot
    <3>3. tree' = tree
      BY <2>1, <2>4 DEF SetRoot
    <3>4. CASE x < p
      <4>1. left' = [left EXCEPT ![p] = a.to] /\ right' = right
        BY <2>1, <2>4, <3>1, <3>4 DEF SetRoot
      <4>2. k = Put(Memory, "left", p, a.to)
        BY <3>2, <3>4 DEF Side
      <4>. HIDE DEF p
      <4>3. Memory' = k
        BY <2>1, <3>3, <4>1, <4>2 DEF Memory, Put
      <4>. QED BY <1>1, <2>1, <3>1, <4>1, <4>3
    <3>5. CASE x > p
      <4>1. right' = [right EXCEPT ![p] = a.to] /\ left' = left
        BY <2>1, <2>4, <3>1, <3>5 DEF SetRoot
      <4>2. k = Put(Memory, "right", p, a.to)
        BY <3>1, <3>2, <3>5 DEF Side
      <4>. HIDE DEF p
      <4>3. Memory' = k
        BY <2>1, <3>3, <4>1, <4>2 DEF Memory, Put
      <4>. QED BY <1>1, <2>1, <3>1, <4>1, <4>3
    <3>. QED BY <3>1, <3>4, <3>5
  <2>. QED BY <2>3, <2>4
<1>. QED BY <1>2, <1>3, <1>4, <1>5 DEF Assignment

\* When a rotation is over, the height of the subtree is all that is left to be set.
LEMMA RotationEnds ==
  ASSUME NEW N \in SUBSET Elements, NEW m \in Memories, NEW S, Whole(m, N, S),
         \A n \in N : Right(m, n),
         NEW q, q # <<>> => Last(q) \in N,
         NEW t \in N, t = RootOf(m, q)
  PROVE  HeightsAre("height", m, N, q)
<1> DEFINE p == Last(q)
           f == Side(p, x)
           o == HeightIn(m, m[Opposite(f)][p])
           v == FromSubtrees(m, t)
<1>1. q # <<>> => Grown(m, p, t, v)
  <2>1. SUFFICES ASSUME q # <<>> PROVE Grown(m, p, t, v)
    OBVIOUS
  <2>2. p \in N /\ p \in Elements /\ f \in Sides /\ t = m[f][p]
    BY <2>1, SideFacts DEF RootOf
  <2>3. HeightIn(m, t) = v
    BY NullIsNoNode DEF HeightIn, Right
  <2>4. Right(m, p)
    BY <2>2
  <2>. HIDE DEF f
  <2>5. m.height[p] = 1 + Taller(v, o) /\ v - o \in -1 .. 1
    BY <2>2, <2>3, <2>4, HeightFacts DEF Right
  <2>. HIDE DEF p, v
  <2>. QED BY <2>5 DEF Grown, f
<1>. QED BY <1>1 DEF HeightsAre, Right

\* To show RotateInv after a step it is enough to know what is left of the rotation.
LEMMA LeadsNext ==
  ASSUME UNCHANGED <<x, path, nodes>>, NEW moves, todo' = moves, NEW run \in Seq(Memories),
         moves \in Seq(Assignment), Len(run) = Len(moves) + 1, run[1] = Memory',
         \A j \in 1 .. Len(moves) : /\ moves[j].of \in nodes
                                   /\ Assigned(run[j], moves[j], run[j + 1]),
         \A j \in 1 .. Len(run) : \E S \in Below(nodes) : Sorted(run[j], nodes, S),
         NEW end, end = run[Len(run)],
         \E S \in Below(nodes) : Whole(end, nodes, S) /\ Low(end, nodes, S),
         \A n \in nodes : Right(end, n),
         Chain(end, nodes, Front(path)), RootOf(end, Front(path)) \in nodes
  PROVE  \E r \in Seq(Memories) : Leads(todo, r)'
<1>1. \A j \in 1 .. Len(moves) : Assigned(run[j], moves[j], run[j + 1])'
  BY DEF Assigned, PutRoot
<1>2. Chain(end, nodes, Front(path))' /\ RootOf(end, Front(path))' \in nodes'
  BY DEF Chain, RootOf
<1>3. Leads(moves, run)'
  BY <1>1, <1>2 DEF Leads
<1>. QED BY <1>3

\* An assignment of a rotation.
LEMMA RotateStep ==
  ASSUME AvlInv, Rotate
  PROVE  AvlInv'
<1> DEFINE a == Head(todo)
           q == Front(path)
           later == Tail(todo)
<1>1. /\ pc = "rotate" /\ path' = path /\ x' = x /\ nodes' = nodes /\ todo' = later
      /\ pc' = IF later = <<>> THEN "height" ELSE "rotate"
  BY DEF Rotate
<1>2. PICK run \in Seq(Memories) : Leads(todo, run)
  BY <1>1 DEF AvlInv, RotateInv
<1> DEFINE end == run[Len(run)]
           rest == Tail(run)
<1>3. /\ todo \in Seq(Assignment) /\ todo # <<>> /\ Len(run) = Len(todo) + 1
      /\ run[1] = Memory
      /\ \A j \in 1 .. Len(todo) : /\ todo[j].of \in nodes
                                   /\ Assigned(run[j], todo[j], run[j + 1])
      /\ \A j \in 1 .. Len(run) : \E S \in Below(nodes) : Sorted(run[j], nodes, S)
  BY <1>1, <1>2 DEF AvlInv, ControlInv, Leads
<1>4. /\ \E S \in Below(nodes) : Whole(end, nodes, S) /\ Low(end, nodes, S)
      /\ \A n \in nodes : Right(end, n)
      /\ Chain(end, nodes, q)
      /\ RootOf(end, q) \in nodes
  BY <1>2 DEF Leads
<1>5. /\ TypeOK /\ ControlInv /\ x \in Elements /\ x \in nodes /\ path # <<>>
      /\ path \in Seq(Elements) /\ nodes \in SUBSET Elements
      /\ q \in Seq(Elements) /\ Known = nodes
  BY <1>1, StateFacts, FrontFacts DEF AvlInv, ControlInv, Known
<1>6. q # <<>> => Last(q) \in nodes \ {x}
  <2>1. SUFFICES ASSUME q # <<>> PROVE Last(q) \in nodes \ {x}
    OBVIOUS
  <2>2. Len(q) \in 1 .. Len(q) /\ Last(q) = q[Len(q)]
    BY <1>5, <2>1, EmptySeq DEF Last
  <2>. QED BY <1>4, <2>2 DEF Chain
<1>7. /\ later \in Seq(Assignment) /\ Len(todo) \in Nat /\ Len(todo) >= 1
      /\ Len(later) = Len(todo) - 1 /\ a = todo[1] /\ a \in Assignment
      /\ \A i \in 1 .. Len(todo) - 1 : later[i] = todo[i + 1]
      /\ later = <<>> <=> Len(todo) = 1
  BY <1>3, TailFacts, HeadTailProperties
<1>8. /\ rest \in Seq(Memories) /\ Len(rest) = Len(run) - 1
      /\ \A i \in 1 .. Len(run) - 1 : rest[i] = run[i + 1]
  <2>1. run # <<>>
    BY <1>3, <1>7, EmptySeq
  <2>. QED BY <2>1, TailFacts
<1>9. Memory' = run[2] /\ run[2] \in Memories
      /\ (\A e \in Elements \ nodes : left'[e] = left[e] /\ right'[e] = right[e])
      /\ (\A n \in nodes : height'[n] # NoHeight)
  <2>1. a.of \in nodes /\ Assigned(Memory, a, run[2])
    <3>1. 1 \in 1 .. Len(todo) /\ 1 + 1 = 2
      BY <1>7
    <3>. QED BY <1>3, <1>7, <3>1
  <2>2. run[2] \in Memories
    <3>1. 2 \in 1 .. Len(run)
      BY <1>3, <1>7
    <3>. QED BY <3>1, ElementOfSeq
  <2>. QED BY <1>5, <1>6, <1>7, <2>1, <2>2, AssignedNext
<1>. HIDE DEF a, q, later, rest, end
<1>10. TypeOK'
  <2>1. Memory'.tree = tree' /\ Memory'.left = left' /\ Memory'.right = right'
        /\ Memory'.height = height'
    BY DEF Memory
  <2>2. /\ tree' \in Pointer
        /\ left' \in [Elements -> Pointer] /\ right' \in [Elements -> Pointer]
        /\ height' \in [Elements -> {NoHeight} \cup 0 .. MaxElement]
    BY <1>9, <2>1 DEF Memories
  <2>. QED BY <1>1, <1>5, <1>7, <1>9, <2>2 DEF TypeOK
<1>11. ControlInv'
  <2>1. Known' = nodes
    BY <1>1 DEF Known
  <2>2. pc' = "rotate" <=> todo' # <<>>
    BY <1>1
  <2>3. \A e \in Elements \ nodes : left'[e] = NULL /\ right'[e] = NULL
    BY <1>5, <1>9 DEF ControlInv
  <2>. QED BY <1>1, <1>5, <2>1, <2>2, <2>3 DEF ControlInv
<1>12. SteadyInv'
  <2>1. SUFFICES ASSUME later = <<>> PROVE SteadyInv'
    BY <1>1 DEF SteadyInv
  <2>2. end = run[2] /\ pc' = "height"
      <3>1. Len(run) = 2
      <4>1. Len(todo) = 1
        BY <1>7, <2>1
      <4>2. Len(run) = Len(todo) + 1
        BY <1>3
      <4>. QED BY <4>1, <4>2
    <3>. QED BY <1>1, <2>1, <3>1 DEF end
  <2>3. end = Settled' /\ nodes = Known' /\ q = Waiting'
    BY <1>1, <1>9, <2>2 DEF Settled, Known, Waiting, q
  <2>4. HeightsAre("height", end, nodes, q)
    <3>1. q # <<>> => Last(q) \in nodes
      BY <1>6
    <3>. QED BY <1>4, <1>5, <1>9, <2>2, <3>1, RotationEnds
  <2>5. Steady(pc', end, nodes, q)
    BY <1>4, <2>2, <2>4 DEF Steady
  <2>. QED BY <1>1, <2>3, <2>5, SteadyNext
<1>13. RotateInv'
  <2>1. SUFFICES ASSUME later # <<>> PROVE RotateInv'
    BY <1>1 DEF RotateInv
  <2>2. Len(later) >= 1 /\ Len(rest) = Len(later) + 1 /\ Len(later) \in Nat
    BY <1>3, <1>7, <1>8, <2>1
  <2>3. rest[1] = Memory' /\ rest[Len(rest)] = end
    <3>1. 1 \in 1 .. Len(run) - 1 /\ Len(rest) \in 1 .. Len(run) - 1
          /\ Len(rest) + 1 = Len(run) /\ 1 + 1 = 2
      BY <1>3, <1>7, <1>8, <2>2
    <3>. QED BY <1>8, <1>9, <3>1 DEF end
  <2>4. ASSUME NEW j \in 1 .. Len(later)
        PROVE  later[j].of \in nodes /\ Assigned(rest[j], later[j], rest[j + 1])
    <3>1. /\ j \in 1 .. Len(todo) - 1 /\ j + 1 \in 1 .. Len(todo)
          /\ j \in 1 .. Len(run) - 1 /\ j + 1 \in 1 .. Len(run) - 1
      BY <1>3, <1>7, <1>8
    <3>. QED BY <1>3, <1>7, <1>8, <3>1
  <2>5. ASSUME NEW j \in 1 .. Len(rest)
        PROVE  \E S \in Below(nodes) : Sorted(rest[j], nodes, S)
    <3>1. j \in 1 .. Len(run) - 1 /\ j + 1 \in 1 .. Len(run)
      BY <1>3, <1>7, <1>8
    <3>. QED BY <1>3, <1>8, <3>1
  <2>6. \A j \in 1 .. Len(later) : /\ later[j].of \in nodes
                                   /\ Assigned(rest[j], later[j], rest[j + 1])
    BY <2>4
  <2>7. \A j \in 1 .. Len(rest) : \E S \in Below(nodes) : Sorted(rest[j], nodes, S)
    BY <2>5
  <2>8. \E r \in Seq(Memories) : Leads(todo, r)'
    <3>1. UNCHANGED <<x, path, nodes>> /\ todo' = later
      BY <1>1
    <3>. HIDE DEF Leads
    <3>. QED BY <1>4, <1>7, <1>8, <2>2, <2>3, <2>6, <2>7, <3>1, LeadsNext DEF q
  <2>. QED BY <2>8 DEF RotateInv
<1>. QED BY <1>10, <1>11, <1>12, <1>13 DEF AvlInv

\* The memory w is m with x, which is not among N, linked below the last of the nodes q.
Joined(w, m, N, q) ==
  /\ w \in Memories
  /\ w.tree = IF q = <<>> THEN x ELSE m.tree
  /\ \A d \in Sides : w[d][x] = NULL
  /\ \A n \in N, d \in Sides :
       w[d][n] = IF q # <<>> /\ n = Last(q) /\ d = Side(n, x) THEN x ELSE m[d][n]
  /\ w.height[x] = 0 /\ \A n \in N : w.height[n] = m.height[n]

\* What is below the nodes then.
With(S, N, q) ==
  [n \in (N \cup {x}) \cup {NULL} |->
     IF n = NULL THEN {}
     ELSE IF n = x THEN {x}
     ELSE IF \E i \in 1 .. Len(q) : q[i] = n THEN S[n] \cup {x}
     ELSE S[n]]

\* Of the nodes passed on the way to x, each but the last is the parent of the next.
Passed(m, N, q, P) ==
  /\ P \in SUBSET N
  /\ IF q = <<>> THEN m.tree = NULL /\ P = {} ELSE m.tree \in P /\ Last(q) \in P
  /\ \A n \in N, d \in Sides : m[d][n] \in P => n \in P /\ d = Side(n, x)
  /\ \A n \in P : n # Last(q) => m[Side(n, x)][n] \in P
  /\ q # <<>> => m[Side(Last(q), x)][Last(q)] = NULL

\* The chain that leads to an empty place is such a set of nodes.
LEMMA PassedNodes ==
  ASSUME NEW N \in SUBSET Elements, NEW m \in Memories, NEW S, Whole(m, N, S),
         NEW q \in Seq(Elements), Chain(m, N, q), RootOf(m, q) = NULL,
         NEW P, P = {q[i] : i \in 1 .. Len(q)}
  PROVE  Passed(m, N, q, P)
<1>1. /\ Len(q) \in Nat /\ (q # <<>> => Len(q) >= 1) /\ (q = <<>> => Len(q) = 0)
  BY EmptySeq, LenProperties
<1>2. /\ \A i \in 1 .. Len(q) : q[i] \in N \ {x}
      /\ q # <<>> => q[1] = m.tree
      /\ \A i \in 1 .. Len(q) - 1 : q[i + 1] = m[Side(q[i], x)][q[i]]
  BY DEF Chain
<1>3. P \in SUBSET N
  BY <1>2
<1>4. IF q = <<>> THEN m.tree = NULL /\ P = {} ELSE m.tree \in P /\ Last(q) \in P
  <2>1. CASE q = <<>>
    BY <1>1, <2>1 DEF RootOf
  <2>2. CASE q # <<>>
    <3>1. 1 \in 1 .. Len(q) /\ Len(q) \in 1 .. Len(q)
      BY <1>1, <2>2
    <3>. QED BY <1>2, <2>2, <3>1 DEF Last
  <2>. QED BY <2>1, <2>2
<1>5. ASSUME NEW n \in N, NEW d \in Sides, m[d][n] \in P
      PROVE  n \in P /\ d = Side(n, x)
  <2>1. PICK i \in 1 .. Len(q) : m[d][n] = q[i]
    BY <1>5
  <2>2. i # 1
    <3>1. i = 1 => m[d][n] = m.tree
      BY <1>1, <1>2, <2>1
    <3>. QED BY <3>1, RootIsNoChild
  <2> DEFINE k == q[i - 1]  f == Side(k, x)
  <2>3. i - 1 \in 1 .. Len(q) - 1 /\ i - 1 \in 1 .. Len(q) /\ (i - 1) + 1 = i
    BY <1>1, <2>1, <2>2
  <2>4. k \in N /\ k \in P /\ f \in Sides /\ q[i] = m[f][k] /\ q[i] \in N
    BY <1>2, <2>3, SideFacts
  <2>. HIDE DEF k, f
  <2>5. n = k
    <3>1. m[d][n] = m[f][k] /\ m[d][n] # NULL
      BY <2>1, <2>4, NullIsNoNode
    <3>2. \A a, b \in N, c, e \in Sides : m[c][a] = m[e][b] /\ m[c][a] # NULL => a = b
      BY DEF Whole
    <3>. QED BY <2>4, <3>1, <3>2
  <2>6. d = f
    <3>1. AtNode(m, N, S, k, f)
      BY <2>4, WholeFacts
    <3>2. m[f][k] # m[Opposite(f)][k]
      BY <2>4, <3>1, NullIsNoNode DEF AtNode
    <3>. QED BY <2>1, <2>4, <2>5, <3>2, SideFacts
  <2>. QED BY <2>4, <2>5, <2>6 DEF f
<1>6. ASSUME NEW n \in P, n # Last(q) PROVE m[Side(n, x)][n] \in P
  <2>1. PICK i \in 1 .. Len(q) : n = q[i]
    OBVIOUS
  <2>2. i # Len(q)
    BY <1>6, <2>1 DEF Last
  <2>3. i \in 1 .. Len(q) - 1 /\ i + 1 \in 1 .. Len(q)
    BY <1>1, <2>1, <2>2
  <2>. QED BY <1>2, <2>1, <2>3
<1>7. q # <<>> => m[Side(Last(q), x)][Last(q)] = NULL
  BY DEF RootOf
<1>. QED BY <1>3, <1>4, <1>5, <1>6, <1>7 DEF Passed

\* The tree is whole with x, too.
LEMMA JoinedWhole ==
  ASSUME NEW N \in SUBSET Elements, x \in Elements \ N,
         NEW m \in Memories, NEW S \in Below(N), Whole(m, N, S), Low(m, N, S),
         NEW q \in Seq(Elements), Chain(m, N, q), RootOf(m, q) = NULL,
         NEW w \in Memories, Joined(w, m, N, q)
  PROVE  LET T == With(S, N, q)  M == N \cup {x} IN
         T \in Below(M) /\ Whole(w, M, T) /\ Low(w, M, T)
<1> DEFINE T == With(S, N, q)
           M == N \cup {x}
           P == {q[i] : i \in 1 .. Len(q)}
           p == Last(q)
<1>1. Passed(m, N, q, P)
  BY PassedNodes
<1>2. /\ T[NULL] = {} /\ T[x] = {x}
      /\ \A n \in N : T[n] = IF n \in P THEN S[n] \cup {x} ELSE S[n]
      /\ T \in Below(M)
  <2>1. x # NULL /\ (\A n \in N : n # NULL /\ n # x)
    BY NullIsNoNode, AvlAssumption
  <2>2. \A n \in N : n \in P <=> \E i \in 1 .. Len(q) : q[i] = n
    OBVIOUS
  <2>3. \A n \in N : S[n] \in SUBSET N
    BY DEF Below
  <2>. HIDE DEF P
  <2>4. T \in Below(M)
    BY <2>1, <2>3 DEF With, Below
  <2>. QED BY <2>1, <2>2, <2>4 DEF With
<1>. HIDE DEF T, P
<1>3. x # NULL /\ x \notin N /\ NULL \notin N /\ P \in SUBSET N
  <2>1. P \in SUBSET N
    BY <1>1 DEF Passed
  <2>. QED BY <2>1, NullIsNoNode, AvlAssumption
<1>4. /\ w.tree = IF q = <<>> THEN x ELSE m.tree
      /\ \A d \in Sides : w[d][x] = NULL
      /\ w.height[x] = 0 /\ \A n \in N : w.height[n] = m.height[n]
  BY DEF Joined
<1>5. \A n \in N, d \in Sides :
         w[d][n] = IF q # <<>> /\ n = p /\ d = Side(n, x) THEN x ELSE m[d][n]
  BY DEF Joined
<1>6. /\ IF q = <<>> THEN m.tree = NULL /\ P = {} ELSE m.tree \in P /\ p \in P
      /\ \A n \in N, d \in Sides : m[d][n] \in P => n \in P /\ d = Side(n, x)
      /\ \A n \in P : n # p => m[Side(n, x)][n] \in P
      /\ q # <<>> => m[Side(p, x)][p] = NULL
  BY <1>1 DEF Passed
<1>7. /\ \A n \in N, d \in Sides : m[d][n] \in N \cup {NULL}
      /\ m.tree \in N \cup {NULL}
  BY DEF Whole, Sorted, Linked
<1>8. S[NULL] = {} /\ S[m.tree] = N
  BY DEF Whole, Sorted
<1>9. \A n \in N : S[n] = {n} \cup S[m.left[n]] \cup S[m.right[n]]
  BY DEF Whole
<1>10. \A n, k \in N, c, d \in Sides : m[c][n] = m[d][k] /\ m[c][n] # NULL => n = k
  BY DEF Whole
<1>11. \A n \in N, d \in Sides : \A e \in S[m[d][n]] : e \in S[n] /\ Toward(d, e, n)
  BY DEF Whole, Sorted
<1>12. \A n \in N : n \in S[n] /\ S[n] \in SUBSET N
  BY DEF Whole, Sorted, Below
<1>. HIDE DEF p
\* Below a node, x has come to the side where it belongs.
<1>13. ASSUME NEW n \in N, NEW d \in Sides
      PROVE  T[w[d][n]] = IF n \in P /\ d = Side(n, x) THEN S[m[d][n]] \cup {x} ELSE S[m[d][n]]
  <2>1. w[d][n] = IF q # <<>> /\ n = p /\ d = Side(n, x) THEN x ELSE m[d][n]
    BY <1>5
  <2>2. CASE n \in P /\ d = Side(n, x)
    <3>1. CASE n = p
      <4>1. q # <<>>
        BY <1>6, <2>2
      <4>2. w[d][n] = x /\ m[d][n] = NULL
        BY <1>6, <2>1, <2>2, <3>1, <4>1
      <4>. QED BY <1>2, <1>3, <1>8, <2>2, <4>2
    <3>2. CASE n # p
      <4>1. w[d][n] = m[d][n] /\ m[d][n] \in P
        BY <1>6, <2>1, <2>2, <3>2
      <4>. QED BY <1>2, <1>3, <2>2, <4>1
    <3>. QED BY <3>1, <3>2
  <2>3. CASE ~ (n \in P /\ d = Side(n, x))
    <3>1. m[d][n] \notin P
      BY <1>6, <2>3
    <3>2. w[d][n] = m[d][n]
      <4>1. q # <<>> => p \in P
        BY <1>6
      <4>. QED BY <2>1, <2>3, <4>1
    <3>3. m[d][n] \in N \cup {NULL}
      BY <1>7
    <3>4. T[m[d][n]] = S[m[d][n]]
      <4>1. CASE m[d][n] = NULL
        BY <1>2, <1>8, <4>1
      <4>2. CASE m[d][n] \in N
        BY <1>2, <3>1, <4>2
      <4>. QED BY <3>3, <4>1, <4>2
    <3>. QED BY <2>3, <3>2, <3>4
  <2>. QED BY <2>2, <2>3
<1>14. Linked(w, M)
  <2>1. w.tree \in M \cup {NULL}
    BY <1>7, <1>4
  <2>2. ASSUME NEW n \in M, NEW d \in Sides PROVE w[d][n] \in M \cup {NULL}
    BY <1>7, <1>4, <1>5
  <2>. QED BY <2>1, <2>2 DEF Linked
<1>15. Sorted(w, M, T)
  <2>1. \A n \in M : n \in T[n]
    <3>1. \A n \in N : n \in T[n]
      BY <1>2, <1>12
    <3>. QED BY <1>2, <3>1
  <2>2. ASSUME NEW n \in M, NEW d \in Sides, NEW e \in T[w[d][n]]
        PROVE  e \in T[n] /\ Toward(d, e, n)
    <3>1. n # x
      BY <1>2, <1>4
    <3>2. n \in N
      BY <3>1
    <3>3. CASE e \in S[m[d][n]]
      <4>1. e \in S[n] /\ Toward(d, e, n)
        BY <1>11, <3>2, <3>3
      <4>2. S[n] \subseteq T[n]
        BY <1>2, <3>2
      <4>. QED BY <4>1, <4>2
    <3>4. CASE e \notin S[m[d][n]]
      <4>1. n \in P /\ d = Side(n, x) /\ e = x
        BY ZenonT(40), <1>13, <3>2, <3>4
      <4>2. x \in Int /\ n \in Int /\ n # x
        BY <3>1, <3>2, NullIsNoNode, AvlAssumption
      <4>. QED BY <1>2, <3>2, <4>1, <4>2, SideFacts
    <3>. QED BY <3>3, <3>4
  <2>. QED BY <1>2, <1>14, <2>1, <2>2 DEF Sorted
<1>16. T[w.tree] = M
  <2>1. CASE q = <<>>
    <3>1. N = {} /\ w.tree = x
      BY <1>6, <1>4, <1>8, <2>1
    <3>. QED BY <1>2, <3>1
  <2>2. CASE q # <<>>
    <3>1. m.tree \in P /\ w.tree = m.tree
      BY <1>6, <1>4, <2>2
    <3>2. T[m.tree] = S[m.tree] \cup {x}
      BY <1>2, <1>3, <3>1
    <3>. QED BY <1>8, <3>1, <3>2
  <2>. QED BY <2>1, <2>2
<1>17. ASSUME NEW n \in M PROVE T[n] = {n} \cup T[w.left[n]] \cup T[w.right[n]]
  <2>0. w.left = w["left"] /\ w.right = w["right"] /\ m.left = m["left"] /\ m.right = m["right"]
        /\ "left" \in Sides /\ "right" \in Sides
    BY DEF Sides
  <2>1. CASE n = x
    BY <1>2, <1>4, <2>0, <2>1
  <2>2. CASE n # x
    <3>1. n \in N /\ Side(n, x) \in {"left", "right"}
      BY <2>2 DEF Side
    <3>2. S[n] = {n} \cup S[m["left"][n]] \cup S[m["right"][n]]
      BY <1>9, <2>0, <3>1
    <3>3. /\ T[w["left"][n]] = IF n \in P /\ "left" = Side(n, x)
                               THEN S[m["left"][n]] \cup {x} ELSE S[m["left"][n]]
          /\ T[w["right"][n]] = IF n \in P /\ "right" = Side(n, x)
                               THEN S[m["right"][n]] \cup {x} ELSE S[m["right"][n]]
      BY <1>13, <2>0, <3>1
    <3>4. CASE n \notin P
      <4>1. T[n] = S[n] /\ T[w["left"][n]] = S[m["left"][n]] /\ T[w["right"][n]] = S[m["right"][n]]
        BY <1>2, <3>1, <3>3, <3>4
      <4>. QED BY <2>0, <3>2, <4>1
    <3>5. CASE n \in P
      <4>1. T[n] = S[n] \cup {x}
        BY <1>2, <3>1, <3>5
      <4>2. T[w["left"][n]] \cup T[w["right"][n]] = S[m["left"][n]] \cup S[m["right"][n]] \cup {x}
        BY <3>1, <3>3, <3>5
      <4>. QED BY <2>0, <3>2, <4>1, <4>2
    <3>. QED BY <3>4, <3>5
  <2>. QED BY <2>1, <2>2
<1>18. ASSUME NEW n \in M, NEW k \in M, NEW c \in Sides, NEW d \in Sides,
              w[c][n] = w[d][k], w[c][n] # NULL
       PROVE  n = k
  <2>1. n \in N /\ k \in N
    BY <1>18, <1>4
  <2>2. /\ w[c][n] = IF q # <<>> /\ n = p /\ c = Side(n, x) THEN x ELSE m[c][n]
        /\ w[d][k] = IF q # <<>> /\ k = p /\ d = Side(k, x) THEN x ELSE m[d][k]
    BY <1>5, <2>1
  <2>3. m[c][n] # x /\ m[d][k] # x
    BY <1>3, <1>7, <2>1
  <2>4. CASE w[c][n] = x
    <3>1. n = p /\ k = p
      BY <1>18, <2>2, <2>3, <2>4
    <3>. QED BY <3>1
  <2>5. CASE w[c][n] # x
    <3>1. w[c][n] = m[c][n] /\ w[d][k] = m[d][k]
      BY <1>18, <2>2, <2>5
    <3>2. m[c][n] = m[d][k] /\ m[c][n] # NULL
      BY <1>18, <3>1
    <3>. QED BY <1>10, <2>1, <3>2
  <2>. QED BY <2>4, <2>5
<1>19. Whole(w, M, T)
  BY <1>15, <1>16, <1>17, <1>18 DEF Whole
<1>20. Low(w, M, T)
  <2>1. ASSUME NEW n \in N PROVE w.height[n] \in 0 .. Cardinality(T[n]) - 1
    <3>1. M \in SUBSET Elements
      OBVIOUS
    <3>2. IsFiniteSet(T[n])
      <4>1. IsFiniteSet(Elements)
        BY FS_Interval, AvlAssumption
      <4>2. T[n] \in SUBSET Elements
        <5>1. S[n] \in SUBSET Elements /\ x \in Elements
          BY <1>12
        <5>. QED BY <1>2, <5>1
      <4>. QED BY <4>1, <4>2, FS_Subset
    <3>3. S[n] \in SUBSET T[n]
      BY <1>2
    <3>4. Cardinality(S[n]) <= Cardinality(T[n]) /\ Cardinality(S[n]) \in Nat
          /\ Cardinality(T[n]) \in Nat
      BY <3>2, <3>3, FS_Subset, FS_CardinalityType
    <3>5. m.height[n] \in 0 .. Cardinality(S[n]) - 1
      BY DEF Low
    <3>. QED BY <1>4, <3>4, <3>5
  <2>2. w.height[x] \in 0 .. Cardinality(T[x]) - 1
    <3>1. Cardinality({x}) = 1
      BY FS_Singleton
    <3>. QED BY <1>2, <1>4, <3>1
  <2>. QED BY <2>1, <2>2 DEF Low
<1>. QED BY <1>2, <1>19, <1>20 DEF T, M

\* The heights are those from before x, and the chain still leads to it.
LEMMA JoinedHeights ==
  ASSUME NEW N \in SUBSET Elements, x \in Elements \ N,
         NEW m \in Memories, NEW S, Whole(m, N, S), \A n \in N : Right(m, n),
         NEW q \in Seq(Elements), Chain(m, N, q), RootOf(m, q) = NULL,
         NEW w \in Memories, Joined(w, m, N, q)
  PROVE  Chain(w, N \cup {x}, q) /\ HeightsAre("raw", w, N \cup {x}, q)
<1> DEFINE p == Last(q)
           f == Side(p, x)
           M == N \cup {x}
<1>1. /\ x # NULL /\ x \in Elements /\ x \notin N /\ NULL \notin N
      /\ \A n \in N : n \in Elements
  BY NullIsNoNode, AvlAssumption
<1>2. /\ w.tree = IF q = <<>> THEN x ELSE m.tree
      /\ \A d \in Sides : w[d][x] = NULL
      /\ w.height[x] = 0 /\ \A n \in N : w.height[n] = m.height[n]
  BY DEF Joined
<1>3. \A n \in N, d \in Sides :
        w[d][n] = IF q # <<>> /\ n = p /\ d = Side(n, x) THEN x ELSE m[d][n]
  BY DEF Joined
<1>4. /\ Len(q) \in Nat /\ (q # <<>> => Len(q) >= 1)
      /\ p = q[Len(q)]
  BY EmptySeq, LenProperties DEF Last
<1>5. q # <<>> => /\ p \in N /\ p # x /\ p \in Elements
                  /\ f \in Sides /\ m[f][p] = NULL /\ w[f][p] = x
  <2>1. SUFFICES ASSUME q # <<>>
                 PROVE  /\ p \in N /\ p # x /\ p \in Elements
                        /\ f \in Sides /\ m[f][p] = NULL /\ w[f][p] = x
    OBVIOUS
  <2>2. p \in N \ {x}
    BY <2>1, FrontOfChain
  <2>3. f \in Sides /\ m[f][p] = NULL
    BY <2>1, SideFacts DEF RootOf
  <2>. QED BY <1>1, <1>3, <2>1, <2>2, <2>3
<1>6. RootOf(w, q) = x
  BY <1>2, <1>5 DEF RootOf
<1>. HIDE DEF p, f
<1>7. Chain(w, M, q)
  <2>1. /\ \A i \in 1 .. Len(q) : q[i] \in N \ {x}
        /\ q # <<>> => q[1] = m.tree
        /\ \A i \in 1 .. Len(q) - 1 : q[i + 1] = m[Side(q[i], x)][q[i]]
    BY DEF Chain
  <2>2. q # <<>> => q[1] = w.tree
    BY <1>2, <2>1
  <2>3. ASSUME NEW i \in 1 .. Len(q) - 1 PROVE q[i + 1] = w[Side(q[i], x)][q[i]]
    <3>1. i \in 1 .. Len(q) /\ Len(q) \in 1 .. Len(q) /\ i < Len(q)
      BY <1>4
    <3>2. q[i] # p
      <4>1. \A j, k \in 1 .. Len(q) : j < k => q[j] \notin S[q[k]] /\ q[j] # q[k]
        BY ChainFacts
      <4>. QED BY <1>4, <3>1, <4>1
    <3>3. q[i] \in N /\ Side(q[i], x) \in Sides
      BY <2>1, <3>1, SideFacts
    <3>. QED BY <1>3, <2>1, <3>2, <3>3
  <2>. QED BY <2>1, <2>2, <2>3 DEF Chain
<1>8. FromSubtrees(w, x) = 0 /\ Lean(w, x, "left") = 0
  <2>1. w["left"][x] = NULL /\ w["right"][x] = NULL
    BY <1>2 DEF Sides
  <2>2. "left" \in Sides /\ Opposite("left") = "right"
    BY DEF Sides, Opposite
  <2>3. HeightIn(w, NULL) = -1
    BY DEF HeightIn
  <2>4. /\ FromSubtrees(w, x) = 1 + Taller(HeightIn(w, w["left"][x]), HeightIn(w, w["right"][x]))
        /\ Lean(w, x, "left") = HeightIn(w, w["left"][x]) - HeightIn(w, w["right"][x])
    BY <1>1, <2>2, HeightFacts
  <2>. QED BY <2>1, <2>3, <2>4 DEF Taller
<1>9. \A c \in N \cup {NULL} : HeightIn(w, c) = HeightIn(m, c)
  BY <1>2 DEF HeightIn
<1>10. \A n \in N, d \in Sides : m[d][n] \in N \cup {NULL}
  BY DEF Whole, Sorted, Linked
<1>11. ASSUME NEW n \in N, q = <<>> \/ n # p PROVE Right(w, n)
  <2>1. ASSUME NEW d \in Sides PROVE HeightIn(w, w[d][n]) = HeightIn(m, m[d][n])
    <3>1. w[d][n] = m[d][n] /\ m[d][n] \in N \cup {NULL}
      BY <1>3, <1>10, <1>11
    <3>. QED BY <1>9, <3>1
  <2>2. w.height[n] = m.height[n] /\ Right(m, n) /\ n \in Elements
    BY <1>1, <1>2
  <2>. QED BY <2>1, <2>2, SameHeights
<1>12. q # <<>> => Grown(w, p, x, 0)
  <2>1. SUFFICES ASSUME q # <<>> PROVE Grown(w, p, x, 0)
    OBVIOUS
  <2> DEFINE o == HeightIn(w, w[Opposite(f)][p])
  <2>2. o = HeightIn(m, m[Opposite(f)][p])
    <3>1. w[Opposite(f)][p] = m[Opposite(f)][p] /\ m[Opposite(f)][p] \in N \cup {NULL}
      <4>1. Opposite(f) \in Sides /\ Opposite(f) # f
        BY <1>5, <2>1, SideFacts
      <4>. QED BY <1>3, <1>5, <1>10, <2>1, <4>1 DEF f
    <3>. QED BY <1>9, <3>1
  <2>3. HeightIn(m, m[f][p]) = -1
    BY <1>5, <2>1 DEF HeightIn
  <2>4. w.height[p] = m.height[p] /\ Right(m, p)
    BY <1>2, <1>5, <2>1
  <2>5. w.height[p] = 1 + Taller(-1, o) /\ -1 - o \in -1 .. 1
    <3>1. p \in Elements /\ f \in Sides
      BY <1>5, <2>1
    <3>2. /\ FromSubtrees(m, p) = 1 + Taller(-1, HeightIn(m, m[Opposite(f)][p]))
          /\ Lean(m, p, "left") \in -1 .. 1 <=> -1 - HeightIn(m, m[Opposite(f)][p]) \in -1 .. 1
      BY SMTT(30), <2>3, <3>1, HeightFacts
    <3>. QED BY <2>2, <2>4, <3>2 DEF Right
  <2>6. Tilted(w, x)
    BY <1>8 DEF Tilted
  <2>7. LET other == HeightIn(w, w[Opposite(Side(p, x))][p]) IN
        /\ w.height[p] = 1 + Taller(-1, other)
        /\ -1 - other \in -1 .. 1
    BY <2>5 DEF f
  <2>8. -1 \in {0 - 1, 0}
    OBVIOUS
  <2>. QED BY <2>6, <2>7, <2>8 DEF Grown
<1>13. HeightsAre("raw", w, M, q)
  <2>1. \A n \in M \ {x} : (q # <<>> /\ n = p) \/ Right(w, n)
    BY <1>11
  <2>2. Lean(w, x, "left") \in -1 .. 1
    BY <1>8
  <2>. QED BY <1>6, <1>8, <1>12, <2>1, <2>2 DEF HeightsAre, p
<1>. QED BY <1>7, <1>13

\* malloc() and the assignment to the pointer that was NULL.
LEMMA CreateStep ==
  ASSUME AvlInv, Create
  PROVE  AvlInv'
<1> DEFINE m == Memory
           N == nodes
           q == Append(path, x)
           p == Last(path)
           w == Settled'
<1>1. /\ pc = "descend" /\ pc' = "raw" /\ x' = x /\ path' = q
      /\ height' = height /\ nodes' = nodes /\ todo' = todo
      /\ Root(path) = NULL
      /\ tree' = IF path = <<>> THEN x ELSE tree
  BY DEF Create
<1>2. PICK l \in N \cup {NULL}, r \in N \cup {NULL} :
        /\ left' = [(IF path # <<>> /\ x < p THEN [left EXCEPT ![p] = x] ELSE left)
                      EXCEPT ![x] = l]
        /\ right' = [(IF path # <<>> /\ x > p THEN [right EXCEPT ![p] = x] ELSE right)
                      EXCEPT ![x] = r]
  BY DEF Create
<1>3. /\ m \in Memories /\ N \in SUBSET Elements /\ path \in Seq(Elements)
      /\ Len(path) \in Nat /\ TypeOK /\ ControlInv
  BY StateFacts DEF AvlInv
<1>4. /\ x \in Elements /\ x \notin N /\ Settled = m /\ Known = N /\ Waiting = path
      /\ \A i \in 1 .. Len(path) : i + height[path[i]] < MaxElement
      /\ \A e \in Elements \ N : left[e] = NULL /\ right[e] = NULL
  BY <1>1 DEF AvlInv, ControlInv, Settled, Known, Waiting
<1>5. /\ Chain(m, N, path) /\ \A n \in N : Right(m, n)
  BY <1>1, <1>4 DEF AvlInv, SteadyInv, HeightsAre
<1>6. PICK S \in Below(N) : Whole(m, N, S) /\ Low(m, N, S)
  BY <1>1, <1>4 DEF AvlInv, SteadyInv
<1>7. RootOf(m, path) = NULL
  BY <1>1, RootIs
<1>8. path # <<>> => p \in N /\ p # x /\ p \in Elements
  BY <1>3, <1>5, FrontOfChain
<1>9. x \in Int /\ \A n \in N : n \in Int
  BY <1>3, <1>4, NullIsNoNode, AvlAssumption
<1>10. /\ tree \in Pointer /\ left \in [Elements -> Pointer] /\ right \in [Elements -> Pointer]
       /\ height \in [Elements -> {NoHeight} \cup 0 .. MaxElement]
  BY <1>3 DEF TypeOK
<1>11. /\ tree' \in Pointer /\ left' \in [Elements -> Pointer] /\ right' \in [Elements -> Pointer]
       /\ \A e \in Elements \ {x} :
            /\ left'[e]  = IF path # <<>> /\ e = p /\ x < p THEN x ELSE left[e]
            /\ right'[e] = IF path # <<>> /\ e = p /\ x > p THEN x ELSE right[e]
  <2>1. tree' \in Pointer
    BY <1>1, <1>4, <1>10
  <2>2. l \in Pointer /\ r \in Pointer
    BY <1>2, <1>3
  <2> DEFINE lp == IF path # <<>> /\ x < p THEN [left EXCEPT ![p] = x] ELSE left
             rp == IF path # <<>> /\ x > p THEN [right EXCEPT ![p] = x] ELSE right
  <2>3. /\ lp \in [Elements -> Pointer] /\ rp \in [Elements -> Pointer]
        /\ \A e \in Elements :
            /\ lp[e] = IF path # <<>> /\ e = p /\ x < p THEN x ELSE left[e]
            /\ rp[e] = IF path # <<>> /\ e = p /\ x > p THEN x ELSE right[e]
    BY <1>4, <1>8, <1>10
  <2>4. left' = [lp EXCEPT ![x] = l] /\ right' = [rp EXCEPT ![x] = r]
    BY <1>2
  <2>. HIDE DEF lp, rp, p
  <2>. QED BY <1>4, <2>1, <2>2, <2>3, <2>4
<1>12. w = [tree |-> tree', left |-> [left' EXCEPT ![x] = NULL],
            right |-> [right' EXCEPT ![x] = NULL], height |-> [height EXCEPT ![x] = 0]]
  BY <1>1 DEF Settled
<1>13. Known' = N \cup {x} /\ Waiting' = path
  <2>1. Front(q) = path
    <3>1. /\ q \in Seq(Elements) /\ q # <<>> /\ Len(q) = Len(path) + 1
          /\ \A i \in 1 .. Len(path) : q[i] = path[i]
      BY <1>3, <1>4, AppendProperties
    <3>. HIDE DEF q
    <3>2. /\ Front(q) \in Seq(Elements) /\ Len(Front(q)) = Len(q) - 1
          /\ \A i \in 1 .. Len(q) - 1 : Front(q)[i] = q[i]
      BY <3>1, FrontFacts
    <3>3. Len(Front(q)) = Len(path) /\ \A i \in 1 .. Len(path) : Front(q)[i] = path[i]
      BY <1>3, <3>1, <3>2
    <3>. QED BY <1>3, <3>2, <3>3, SeqEqual
  <2>. QED BY <1>1, <2>1 DEF Known, Waiting
<1>. HIDE DEF w, q, p
<1>14. w \in Memories
  BY <1>4, <1>10, <1>11, <1>12, AvlAssumption DEF Memories
<1>15. Joined(w, m, N, path)
  <2>1. \A d \in Sides : w[d][x] = NULL
    <3>1. [left' EXCEPT ![x] = NULL][x] = NULL /\ [right' EXCEPT ![x] = NULL][x] = NULL
      BY <1>4, <1>11
    <3>2. w["left"] = [left' EXCEPT ![x] = NULL] /\ w["right"] = [right' EXCEPT ![x] = NULL]
      BY <1>12
    <3>. QED BY <3>1, <3>2 DEF Sides
  <2>2. w.tree = IF path = <<>> THEN x ELSE m.tree
    BY <1>1, <1>12 DEF Memory
  <2>3. w.height[x] = 0 /\ \A n \in N : w.height[n] = m.height[n]
    BY <1>3, <1>4, <1>10, <1>12 DEF Memory
  <2>4. ASSUME NEW n \in N, NEW d \in Sides
        PROVE  w[d][n] = IF path # <<>> /\ n = p /\ d = Side(n, x) THEN x ELSE m[d][n]
    <3>1. n \in Elements \ {x} /\ n \in Int /\ x \in Int /\ n # x
      BY <1>3, <1>4, <1>9
    <3>2. CASE d = "left"
      <4>1. w[d][n] = left'[n] /\ m[d][n] = left[n]
        BY <1>11, <1>12, <3>1, <3>2 DEF Memory
      <4>2. "left" = Side(n, x) <=> x < n
        BY DEF Side
      <4>. QED BY <1>11, <3>1, <3>2, <4>1, <4>2
    <3>3. CASE d = "right"
      <4>1. w[d][n] = right'[n] /\ m[d][n] = right[n]
        BY <1>11, <1>12, <3>1, <3>3 DEF Memory
      <4>2. "right" = Side(n, x) <=> x > n
        BY <3>1 DEF Side
      <4>. QED BY <1>11, <3>1, <3>3, <4>1, <4>2
    <3>. QED BY <3>2, <3>3 DEF Sides
  <2>. QED BY <1>14, <2>1, <2>2, <2>3, <2>4 DEF Joined, p
<1>. HIDE DEF m, N
<1>16. SteadyInv'
  <2>1. x \in Elements \ N
    BY <1>4
  <2>2. \E T \in Below(N \cup {x}) : Whole(w, N \cup {x}, T) /\ Low(w, N \cup {x}, T)
    <3>1. LET T == With(S, N, path)  M == N \cup {x} IN
          T \in Below(M) /\ Whole(w, M, T) /\ Low(w, M, T)
      BY <1>3, <1>5, <1>6, <1>7, <1>14, <1>15, <2>1, JoinedWhole
    <3>. QED BY <3>1
  <2>3. Chain(w, N \cup {x}, path) /\ HeightsAre("raw", w, N \cup {x}, path)
    BY <1>3, <1>5, <1>6, <1>7, <1>14, <1>15, <2>1, JoinedHeights
  <2>4. Steady(pc', w, N \cup {x}, path)
    BY <1>1, <2>2, <2>3 DEF Steady
  <2>5. w = Settled'
    BY DEF w
  <2>. QED BY <1>1, <1>13, <2>4, <2>5, SteadyNext
<1>17. q \in Seq(Elements) /\ q # <<>> /\ Last(q) = x /\ Len(q) = Len(path) + 1
  <2>1. /\ q \in Seq(Elements) /\ q # <<>> /\ Len(q) = Len(path) + 1
        /\ q[Len(path) + 1] = x
    BY <1>3, <1>4, AppendProperties DEF q
  <2>. QED BY <2>1 DEF Last
<1>18. TypeOK'
  <2>1. Len(q) <= MaxElement
    <3>1. CASE path = <<>>
      <4>1. Len(path) = 0
        BY <3>1, EmptySeq
      <4>. QED BY <1>4, <1>17, <4>1, AvlAssumption
    <3>2. CASE path # <<>>
      <4>1. p = path[Len(path)] /\ Len(path) \in 1 .. Len(path)
        BY <1>3, <3>2, EmptySeq DEF p, Last
      <4>2. Len(path) + height[p] < MaxElement
        BY <1>4, <4>1
      <4>3. height[p] \in Int /\ height[p] >= 0
        <5>1. m.height[p] \in 0 .. Cardinality(S[p]) - 1 /\ Cardinality(S[p]) \in Nat
          BY <1>3, <1>6, <1>8, <3>2, Smaller DEF Low
        <5>2. m.height = height
          BY DEF m, Memory
        <5>. QED BY <5>1, <5>2
      <4>. QED BY <1>3, <1>17, <4>2, <4>3, AvlAssumption
    <3>. QED BY <3>1, <3>2
  <2>. QED BY <1>1, <1>3, <1>11, <1>17, <2>1 DEF TypeOK
<1>19. ControlInv'
  <2>1. ASSUME NEW e \in Elements \ (N \cup {x}) PROVE left'[e] = NULL /\ right'[e] = NULL
    <3>1. e # x /\ e \notin N /\ left[e] = NULL /\ right[e] = NULL
      BY <1>4, <2>1
    <3>2. path # <<>> => e # p
      BY <1>8, <3>1
    <3>. QED BY <1>11, <3>1, <3>2
  <2>2. x \notin nodes
    BY <1>4 DEF N
  <2>3. todo = <<>>
    BY <1>1, <1>3 DEF ControlInv
  <2>. QED BY <1>1, <1>4, <1>13, <1>17, <2>1, <2>2, <2>3 DEF ControlInv
<1>20. RotateInv'
  BY <1>1 DEF RotateInv
<1>. QED BY <1>16, <1>18, <1>19, <1>20 DEF AvlInv

-----------------------------------------------------------------------------
(***************************************************************************)
(* What find returns.                                                       *)
(***************************************************************************)

FindsFrom(f, e) ==
  f = [t \in Pointer |-> IF t \in {NULL, e} THEN t ELSE f[IF e < t THEN left[t] ELSE right[t]]]

\* find, defined by recursion, is a function as soon as there is one.
LEMMA FindIs ==
  ASSUME NEW e, NEW g, FindsFrom(g, e)
  PROVE  \E f : FindsFrom(f, e) /\ Find(e) = f[tree]
<1> DEFINE f == CHOOSE f : FindsFrom(f, e)
<1>1. FindsFrom(f, e)
  OBVIOUS
<1>2. Find(e) = f[tree]
  BY DEF Find, FindsFrom
<1>. QED BY <1>1, <1>2

\* find gets to the nodes of the tree and to no other.
LEMMA FindExact ==
  ASSUME TypeOK, NEW S, Whole(Memory, nodes, S),
         \A n \in Elements \ nodes : left[n] = NULL /\ right[n] = NULL,
         NEW e \in Elements
  PROVE  Find(e) = IF e \in nodes THEN e ELSE NULL
<1> DEFINE m == Memory
           N == nodes
           Here(t) == t \in N /\ e \in S[t]
           Child(t) == IF e < t THEN left[t] ELSE right[t]
           g == [t \in Pointer |-> IF t = e \/ Here(t) THEN e ELSE NULL]
<1>1. m \in Memories /\ N \in SUBSET Elements
  BY StateFacts
<1>2. e # NULL /\ e \in Int /\ NULL \notin N
  BY <1>1, NullIsNoNode, AvlAssumption
<1>3. ASSUME NEW t \in N, t # e
      PROVE  /\ Child(t) \in N \cup {NULL}
             /\ e \in S[t] <=> e \in S[Child(t)]
             /\ Child(t) = m[Side(t, e)][t]
  <2> DEFINE d == Side(t, e)  c == m[d][t]
  <2>1. d \in Sides /\ AtNode(m, N, S, t, d) /\ t \in Int
    BY <1>1, SideFacts, WholeFacts, NullIsNoNode
  <2>2. Child(t) = c
    BY DEF Side, Memory
  <2>. HIDE DEF Child, c
  <2>3. c \in N \cup {NULL} /\ S[t] = {t} \cup S[c] \cup S[m[Opposite(d)][t]]
        /\ \A k \in S[m[Opposite(d)][t]] : k \in Int /\ Toward(Opposite(d), k, t)
    BY <2>1 DEF AtNode, c
  <2>4. e \notin S[m[Opposite(d)][t]]
    <3>1. Toward(d, e, t) /\ Opposite(d) \in Sides
      BY <1>2, <1>3, <2>1, SideFacts
    <3>2. ~ Toward(Opposite(d), e, t)
      BY <1>2, <2>1, <3>1, TowardFacts
    <3>. QED BY <2>3, <3>2
  <2>. QED BY <1>3, <2>2, <2>3, <2>4 DEF c
<1>4. S[NULL] = {} /\ \A n \in N : n \in S[n]
  BY DEF Whole, Sorted
<1>5. \A t \in Pointer \ N : t # NULL => Child(t) = NULL
  BY <1>1
<1>6. \A t \in Pointer : Child(t) \in Pointer \/ t = NULL
  BY DEF TypeOK
<1>. HIDE DEF Child
<1>7. FindsFrom(g, e)
  <2>1. ASSUME NEW t \in Pointer
        PROVE  g[t] = IF t \in {NULL, e} THEN t ELSE g[Child(t)]
    <3>1. g[t] = IF t = e \/ Here(t) THEN e ELSE NULL
      OBVIOUS
    <3>2. CASE t = e
      BY <3>1, <3>2
    <3>3. CASE t = NULL
      BY <1>2, <3>1, <3>3
    <3>4. CASE t \notin {NULL, e}
      <4>1. g[Child(t)] = IF Child(t) = e \/ Here(Child(t)) THEN e ELSE NULL
        BY <1>6, <3>4
      <4>2. CASE t \in N
        BY <1>2, <1>3, <1>4, <3>1, <3>4, <4>1, <4>2
      <4>3. CASE t \notin N
        BY <1>2, <1>5, <3>1, <3>4, <4>1, <4>3
      <4>. QED BY <4>2, <4>3
    <3>. QED BY <3>2, <3>3, <3>4
  <2>2. g = [t \in Pointer |-> IF t \in {NULL, e} THEN t ELSE g[Child(t)]]
    <3> DEFINE h == [t \in Pointer |-> IF t \in {NULL, e} THEN t ELSE g[Child(t)]]
    <3>1. \A t \in Pointer : g[t] = h[t]
      BY <2>1
    <3>2. g = [t \in Pointer |-> g[t]] /\ h = [t \in Pointer |-> h[t]]
      OBVIOUS
    <3>. HIDE DEF g, h
    <3>3. g = h
      BY <3>1, <3>2
    <3>. QED BY <3>3 DEF h
  <2>. HIDE DEF g
  <2>. QED BY <2>2 DEF FindsFrom, Child
<1>. HIDE DEF g
<1>8. PICK f : FindsFrom(f, e) /\ Find(e) = f[tree]
  BY <1>7, FindIs
<1>9. \A t \in Pointer : f[t] = IF t \in {NULL, e} THEN t ELSE f[Child(t)]
  BY <1>8 DEF FindsFrom, Child
<1> DEFINE Fine(t) == f[t] = IF e \in S[t] THEN e ELSE NULL
<1>10. Fine(NULL)
  BY <1>2, <1>4, <1>9
<1>11. ASSUME NEW t \in N, Child(t) # e => Fine(Child(t)) PROVE Fine(t)
  <2>1. t \in Pointer /\ e \in Pointer
    BY <1>1
  <2>2. CASE t = e
    BY <1>4, <1>9, <2>1, <2>2
  <2>3. CASE t # e
    <3>1. f[t] = f[Child(t)] /\ (e \in S[t] <=> e \in S[Child(t)]) /\ Child(t) \in N \cup {NULL}
      BY <1>2, <1>3, <1>9, <2>1, <2>3
    <3>2. CASE Child(t) = e
      BY <1>2, <1>4, <1>9, <2>1, <3>1, <3>2
    <3>3. CASE Child(t) # e
      BY <1>11, <3>1, <3>3
    <3>. QED BY <3>2, <3>3
  <2>. QED BY <2>2, <2>3
<1> DEFINE Sizes == {Cardinality(S[n]) : n \in {k \in N : ~ Fine(k)}}
<1>. HIDE DEF Fine
<1>12. \A n \in N : Fine(n)
  <2>1. SUFFICES ASSUME NEW n \in N, ~ Fine(n) PROVE FALSE
    OBVIOUS
  <2>2. \A k \in N : Cardinality(S[k]) \in Nat
    BY <1>1, Smaller
  <2>3. Sizes \in SUBSET Nat /\ Sizes # {}
    BY <2>1, <2>2
  <2>4. PICK s \in Sizes : \A z \in Sizes : s <= z
    <3>. HIDE DEF Sizes
    <3>. QED BY <2>3, LeastElement
  <2>5. PICK k \in N : ~ Fine(k) /\ s = Cardinality(S[k])
    BY <2>4
  <2>6. k # e
    <3>1. k = e => Fine(k)
      <4>1. k \in Pointer
        BY <1>1
      <4>. QED BY <1>4, <1>9, <4>1 DEF Fine
    <3>. QED BY <2>5, <3>1
  <2>7. Child(k) \in N \cup {NULL} /\ Child(k) = m[Side(k, e)][k] /\ Side(k, e) \in Sides
    BY <1>3, <2>6, SideFacts
  <2>8. CASE Child(k) = NULL
    BY <1>10, <1>11, <2>5, <2>8
  <2>9. CASE Child(k) \in N
    <3>1. Cardinality(S[Child(k)]) < Cardinality(S[k]) /\ Cardinality(S[Child(k)]) \in Nat
      BY <1>1, <2>7, Smaller
    <3>2. Fine(Child(k))
      BY <2>2, <2>4, <2>5, <2>9, <3>1
    <3>. QED BY <1>11, <2>5, <3>2
  <2>. QED BY <2>7, <2>8, <2>9
<1>13. tree \in N \cup {NULL} /\ S[tree] = N
  BY DEF Whole, Sorted, Linked, Memory
<1>14. Fine(tree)
  BY <1>10, <1>12, <1>13
<1>. QED BY <1>8, <1>13, <1>14 DEF Fine

\* Between two insertions, or before the first call of one.
LEMMA RestNext ==
  ASSUME pc' \in {"idle", "descend"}, Waiting' = <<>>, NEW m, m = Settled', NEW N, N = Known',
         \E S \in Below(N) : Whole(m, N, S) /\ Low(m, N, S),
         \A n \in N : Right(m, n)
  PROVE  SteadyInv'
<1>1. Chain(m, N, <<>>)'
  BY EmptySeq DEF Chain
<1>2. HeightsAre(pc, m, N, <<>>)'
  BY DEF HeightsAre
<1>. QED BY <1>1, <1>2 DEF SteadyInv

\* The first call of insert, for a pid that find() has not found.
LEMMA InsertStep ==
  ASSUME AvlInv, NEW e \in Elements, Insert(e)
  PROVE  AvlInv'
<1>1. /\ pc = "idle" /\ pc' = "descend" /\ x' = e /\ Find(e) = NULL /\ path' = path
      /\ nodes' = nodes /\ todo' = todo /\ tree' = tree /\ left' = left /\ right' = right
      /\ height' = height /\ Memory' = Memory
  BY DEF Insert, links, Memory
<1>2. /\ TypeOK /\ ControlInv /\ path = <<>> /\ todo = <<>> /\ Len(path) = 0
      /\ \A n \in Elements \ nodes : left[n] = NULL /\ right[n] = NULL
  BY <1>1, EmptySeq DEF AvlInv, ControlInv, Known
<1>3. Settled = Memory /\ Known = nodes
  BY <1>1 DEF Settled, Known
<1>4. PICK S \in Below(nodes) : Whole(Memory, nodes, S) /\ Low(Memory, nodes, S)
  BY <1>1, <1>3 DEF AvlInv, SteadyInv
<1>5. \A n \in nodes : Right(Memory, n)
  BY <1>1, <1>3 DEF AvlInv, SteadyInv, HeightsAre
<1>6. e \notin nodes
  <2>1. Find(e) = IF e \in nodes THEN e ELSE NULL
    BY <1>2, <1>4, FindExact
  <2>. QED BY <1>1, <2>1, AvlAssumption
<1>7. TypeOK'
  BY <1>1, <1>2 DEF TypeOK
<1>8. ControlInv'
  BY <1>1, <1>2, <1>6 DEF ControlInv, Known
<1>9. SteadyInv'
  <2>1. Settled' = Memory /\ Known' = nodes /\ Waiting' = <<>>
    BY <1>1, <1>2 DEF Settled, Known, Waiting
  <2>. QED BY <1>1, <1>4, <1>5, <2>1, RestNext
<1>10. RotateInv'
  BY <1>1 DEF RotateInv
<1>. QED BY <1>7, <1>8, <1>9, <1>10 DEF AvlInv

-----------------------------------------------------------------------------
(***************************************************************************)
(* The invariant.                                                           *)
(***************************************************************************)

\* An empty tree is whole.
LEMMA AvlInit == Init => AvlInv
<1>1. SUFFICES ASSUME Init PROVE AvlInv
  OBVIOUS
<1>2. /\ pc = "idle" /\ path = <<>> /\ todo = <<>> /\ nodes = {} /\ x = NULL /\ tree = NULL
      /\ \A e \in Elements : left[e] = NULL /\ right[e] = NULL
      /\ Len(path) = 0
  BY <1>1, EmptySeq DEF Init
<1>3. TypeOK
  <2>1. path \in Seq(Elements) /\ todo \in Seq(Assignment)
    BY <1>2, EmptySeq
  <2>2. Len(path) <= MaxElement
    BY <1>2, AvlAssumption
  <2>. QED BY <1>1, <1>2, <2>1, <2>2 DEF Init, TypeOK
<1>4. ControlInv
  BY <1>2 DEF ControlInv
<1>5. SteadyInv
  <2>1. Settled = Memory /\ Known = {} /\ Waiting = <<>> /\ Memory.tree = NULL
    BY <1>2 DEF Settled, Known, Waiting, Memory
  <2> DEFINE S == [n \in {} \cup {NULL} |-> {}]
  <2>2. S \in Below({}) /\ Whole(Memory, {}, S) /\ Low(Memory, {}, S)
    BY <2>1 DEF Below, Whole, Sorted, Linked, Low
  <2>3. Chain(Memory, {}, <<>>)
    BY EmptySeq DEF Chain
  <2>4. HeightsAre(pc, Memory, {}, <<>>)
    BY <1>2 DEF HeightsAre
  <2>. QED BY <2>1, <2>2, <2>3, <2>4 DEF SteadyInv
<1>6. RotateInv
  BY <1>2 DEF RotateInv
<1>. QED BY <1>3, <1>4, <1>5, <1>6 DEF AvlInv

\* What is said of a state stays true while nothing changes.
LEMMA AvlStutter == AvlInv /\ UNCHANGED vars => AvlInv'
<1>1. SUFFICES ASSUME AvlInv, UNCHANGED vars PROVE AvlInv'
  OBVIOUS
<1>2. UNCHANGED <<tree, left, right, height, nodes, pc, x, path, todo>>
  BY <1>1 DEF vars, links
<1>3. TypeOK' /\ ControlInv'
  BY <1>1, <1>2 DEF AvlInv, TypeOK, ControlInv, Known
<1>4. Memory' = Memory /\ Settled' = Settled /\ Known' = Known /\ Waiting' = Waiting
  BY <1>2 DEF Memory, Settled, Known, Waiting
<1>5. SteadyInv'
  <2>1. CASE pc = "rotate"
    BY <1>2, <2>1 DEF SteadyInv
  <2>2. CASE pc # "rotate"
    <3> DEFINE m == Settled  N == Known  q == Waiting
    <3>1. Steady(pc', m, N, q)
      BY <1>1, <1>2, <2>2 DEF AvlInv, SteadyInv, Steady
    <3>2. m = Settled' /\ N = Known' /\ q = Waiting'
      BY <1>4
    <3>. HIDE DEF m, N, q
    <3>. QED BY <1>2, <3>1, <3>2, SteadyNext
  <2>. QED BY <2>1, <2>2
<1>6. RotateInv'
  <2>1. SUFFICES ASSUME pc = "rotate" PROVE RotateInv'
    BY <1>2 DEF RotateInv
  <2>2. PICK run \in Seq(Memories) : Leads(todo, run)
    BY <1>1, <2>1 DEF AvlInv, RotateInv
  <2>3. \E r \in Seq(Memories) : Leads(todo, r)'
    <3>1. UNCHANGED <<x, path, nodes>> /\ todo' = todo /\ Memory' = Memory
      BY <1>2, <1>4
    <3> DEFINE end == run[Len(run)]
    <3>2. /\ todo \in Seq(Assignment) /\ Len(run) = Len(todo) + 1 /\ run[1] = Memory'
          /\ \A j \in 1 .. Len(todo) : /\ todo[j].of \in nodes
                                       /\ Assigned(run[j], todo[j], run[j + 1])
          /\ \A j \in 1 .. Len(run) : \E S \in Below(nodes) : Sorted(run[j], nodes, S)
      BY <2>2, <3>1 DEF Leads
    <3>3. /\ \E S \in Below(nodes) : Whole(end, nodes, S) /\ Low(end, nodes, S)
          /\ \A n \in nodes : Right(end, n)
          /\ Chain(end, nodes, Front(path)) /\ RootOf(end, Front(path)) \in nodes
      BY <2>2 DEF Leads
    <3>. HIDE DEF Leads
    <3>. QED BY <3>1, <3>2, <3>3, LeadsNext
  <2>. QED BY <2>3 DEF RotateInv
<1>. QED BY <1>3, <1>5, <1>6 DEF AvlInv

\* The inductive invariant holds in every state: at each moment of an insertion the tree
\* is a search tree of known heights, or a rotation is under way that makes it one again.
THEOREM AvlInvariant == Spec => []AvlInv
<1>1. AvlInv /\ [Next]_vars => AvlInv'
  <2>1. SUFFICES ASSUME AvlInv, [Next]_vars PROVE AvlInv'
    OBVIOUS
  <2>2. ASSUME NEW e \in Elements, Insert(e) PROVE AvlInv'
    BY <2>1, <2>2, InsertStep
  <2>3. CASE Descend
    BY <2>1, <2>3, DescendStep
  <2>4. CASE Create
    BY <2>1, <2>4, CreateStep
  <2>5. CASE Initialise
    BY <2>1, <2>5, InitialiseStep
  <2>6. CASE Balance
    BY <2>1, <2>6, BalanceStep
  <2>7. CASE Rotate
    BY <2>1, <2>7, RotateStep
  <2>8. CASE Return
    BY <2>1, <2>8, ReturnStep
  <2>9. CASE Full
    BY <2>1, <2>9, AvlStutter DEF Full
  <2>10. CASE UNCHANGED vars
    BY <2>1, <2>10, AvlStutter
  <2>. QED BY <2>1, <2>2, <2>3, <2>4, <2>5, <2>6, <2>7, <2>8, <2>9, <2>10 DEF Next
<1>. QED BY <1>1, AvlInit, PTL DEF Spec

\* The state of avltree.c stays well formed: every link, height and pending call of an
\* insertion keeps its type, and the stack never outgrows the tree.
THEOREM TypesStayRight == Spec => []TypeOK
<1>1. AvlInv => TypeOK
  BY DEF AvlInv
<1>. QED BY <1>1, AvlInvariant, PTL

\* Between two insertions (rotations done, insert returned) every node has the height it
\* stores and is balanced.
THEOREM StaysBalanced == Spec => []Balanced
<1>1. AvlInv => Balanced
  <2>1. SUFFICES ASSUME AvlInv, pc = "idle", NEW n \in nodes
                 PROVE  /\ height[n] = HeightFromSubtrees(n)
                        /\ Height(left[n]) - Height(right[n]) \in -1 .. 1
    BY DEF Balanced
  <2>2. Right(Memory, n)
    BY <2>1 DEF AvlInv, SteadyInv, HeightsAre, Settled, Known
  <2>. QED BY <2>2, HeightIs DEF Right, Lean, Opposite, Memory
<1>. QED BY <1>1, AvlInvariant, PTL

\* Between two insertions find() gets to the node of every pid inserted, and to no other.
THEOREM AlwaysFinds == Spec => []FindsEveryNode
<1>1. AvlInv => FindsEveryNode
  <2>1. SUFFICES ASSUME AvlInv, pc = "idle", NEW e \in Elements
                 PROVE  Find(e) = IF e \in nodes THEN e ELSE NULL
    BY DEF FindsEveryNode
  <2>2. Settled = Memory /\ Known = nodes
    BY <2>1 DEF Settled, Known
  <2>3. TypeOK /\ \A n \in Elements \ nodes : left[n] = NULL /\ right[n] = NULL
    BY <2>1, <2>2 DEF AvlInv, ControlInv
  <2>4. PICK S \in Below(nodes) : Whole(Memory, nodes, S)
    BY <2>1, <2>2 DEF AvlInv, SteadyInv
  <2>. QED BY <2>3, <2>4, FindExact
<1>. QED BY <1>1, AvlInvariant, PTL

-----------------------------------------------------------------------------
(***************************************************************************)
(* The walk of write_stat and empty().                                      *)
(***************************************************************************)

OneToOne(s) == \A i, j \in 1 .. Len(s) : s[i] = s[j] => i = j

\* A sequence over a set is one over any larger set.
LEMMA SeqOfMore ==
  ASSUME NEW A, NEW B, A \subseteq B, NEW s \in Seq(A)
  PROVE  s \in Seq(B)
  OBVIOUS

\* Sequences without a common element, one after the other.
LEMMA JoinedOneToOne ==
  ASSUME NEW C, NEW A \in SUBSET C, NEW B \in SUBSET C, A \cap B = {},
         NEW s \in Seq(A), NEW u \in Seq(B), OneToOne(s), OneToOne(u)
  PROVE  s \o u \in Seq(A \cup B) /\ OneToOne(s \o u)
<1> DEFINE z == s \o u
<1>1. s \in Seq(A \cup B) /\ u \in Seq(A \cup B)
  BY SeqOfMore
<1>2. /\ z \in Seq(A \cup B) /\ Len(z) = Len(s) + Len(u)
      /\ \A i \in 1 .. Len(s) + Len(u) : z[i] = IF i <= Len(s) THEN s[i] ELSE u[i - Len(s)]
  BY <1>1, ConcatProperties
<1>3. Len(s) \in Nat /\ Len(u) \in Nat
  BY LenProperties
<1>. HIDE DEF z
<1>4. ASSUME NEW i \in 1 .. Len(z), NEW j \in 1 .. Len(z), z[i] = z[j]
      PROVE  i = j
  <2>1. CASE i <= Len(s) /\ j <= Len(s)
    <3>1. i \in 1 .. Len(s) /\ j \in 1 .. Len(s) /\ z[i] = s[i] /\ z[j] = s[j]
      BY <1>2, <1>3, <2>1
    <3>. QED BY <1>4, <3>1 DEF OneToOne
  <2>2. CASE i > Len(s) /\ j > Len(s)
    <3>1. /\ i - Len(s) \in 1 .. Len(u) /\ j - Len(s) \in 1 .. Len(u)
          /\ z[i] = u[i - Len(s)] /\ z[j] = u[j - Len(s)]
      BY <1>2, <1>3, <2>2
    <3>2. i - Len(s) = j - Len(s)
      BY <1>4, <3>1 DEF OneToOne
    <3>. QED BY <1>2, <1>3, <3>2
  <2>3. CASE i <= Len(s) /\ j > Len(s)
    <3>1. /\ i \in 1 .. Len(s) /\ j - Len(s) \in 1 .. Len(u)
          /\ z[i] = s[i] /\ z[j] = u[j - Len(s)]
      BY <1>2, <1>3, <2>3
    <3>2. s[i] \in A /\ u[j - Len(s)] \in B
      BY <3>1, ElementOfSeq
    <3>. QED BY <1>4, <3>1, <3>2
  <2>4. CASE i > Len(s) /\ j <= Len(s)
    <3>1. /\ j \in 1 .. Len(s) /\ i - Len(s) \in 1 .. Len(u)
          /\ z[j] = s[j] /\ z[i] = u[i - Len(s)]
      BY <1>2, <1>3, <2>4
    <3>2. s[j] \in A /\ u[i - Len(s)] \in B
      BY <3>1, ElementOfSeq
    <3>. QED BY <1>4, <3>1, <3>2
  <2>. QED BY <1>2, <1>3, <2>1, <2>2, <2>3, <2>4
<1>5. OneToOne(z)
  BY <1>4 DEF OneToOne
<1>. QED BY <1>2, <1>5 DEF z

WalksDown(w, k) ==
  w = [d \in 0 .. k |->
        [t \in Pointer |->
           IF t = NULL \/ d = 0 THEN <<>>
           ELSE <<t>> \o w[d - 1][left[t]] \o w[d - 1][right[t]]]]

\* The function that Walk defines by recursion is there.
LEMMA WalkIs ==
  ASSUME TypeOK, NEW k \in Nat
  PROVE  \E w : WalksDown(w, k) /\ Walk(k) = w[k][tree]
<1> DEFINE Level(v) == [t \in Pointer |-> IF t = NULL THEN <<>>
                                          ELSE <<t>> \o v[left[t]] \o v[right[t]]]
           Zero == [t \in Pointer |-> <<>>]
           Bad == {j \in Nat : ~ \E w : WalksDown(w, j)}
<1>1. ASSUME NEW w, NEW j \in Nat,
             w = [d \in 0 .. j |-> IF d = 0 THEN Zero ELSE Level(w[d - 1])]
      PROVE  WalksDown(w, j)
  <2> DEFINE h == [d \in 0 .. j |->
                    [t \in Pointer |->
                       IF t = NULL \/ d = 0 THEN <<>>
                       ELSE <<t>> \o w[d - 1][left[t]] \o w[d - 1][right[t]]]]
  <2>1. ASSUME NEW d \in 0 .. j PROVE w[d] = h[d]
    <3>1. w[d] = IF d = 0 THEN Zero ELSE Level(w[d - 1])
      BY <1>1
    <3>2. h[d] = [t \in Pointer |->
                    IF t = NULL \/ d = 0 THEN <<>>
                    ELSE <<t>> \o w[d - 1][left[t]] \o w[d - 1][right[t]]]
      OBVIOUS
    <3>. HIDE DEF h
    <3>3. CASE d = 0
      BY <3>1, <3>2, <3>3
    <3>4. CASE d # 0
      BY <3>1, <3>2, <3>4
    <3>. QED BY <3>3, <3>4
  <2>2. w = [d \in 0 .. j |-> w[d]]
    BY <1>1
  <2>3. h = [d \in 0 .. j |-> h[d]]
    OBVIOUS
  <2>4. w = h
    <3>. HIDE DEF h
    <3>. QED BY <2>1, <2>2, <2>3
  <2>. QED BY <2>4 DEF WalksDown
<1>2. ASSUME NEW w, NEW j \in Nat, WalksDown(w, j)
      PROVE  w = [d \in 0 .. j |-> IF d = 0 THEN Zero ELSE Level(w[d - 1])]
  <2> DEFINE h == [d \in 0 .. j |-> IF d = 0 THEN Zero ELSE Level(w[d - 1])]
  <2>1. ASSUME NEW d \in 0 .. j PROVE w[d] = h[d]
    <3>1. w[d] = [t \in Pointer |->
                    IF t = NULL \/ d = 0 THEN <<>>
                    ELSE <<t>> \o w[d - 1][left[t]] \o w[d - 1][right[t]]]
      BY <1>2 DEF WalksDown
    <3>2. h[d] = IF d = 0 THEN Zero ELSE Level(w[d - 1])
      OBVIOUS
    <3>. HIDE DEF h
    <3>3. CASE d = 0
      BY <3>1, <3>2, <3>3
    <3>4. CASE d # 0
      BY <3>1, <3>2, <3>4
    <3>. QED BY <3>3, <3>4
  <2>2. w = [d \in 0 .. j |-> w[d]]
    BY <1>2 DEF WalksDown
  <2>3. h = [d \in 0 .. j |-> h[d]]
    OBVIOUS
  <2>4. w = h
    <3>. HIDE DEF h
    <3>. QED BY <2>1, <2>2, <2>3
  <2>. QED BY <2>4
<1>. HIDE DEF Level, Zero
<1>3. \E w : WalksDown(w, 0)
  <2> DEFINE w == [d \in 0 .. 0 |-> Zero]
  <2>1. w = [d \in 0 .. 0 |-> IF d = 0 THEN Zero ELSE Level(w[d - 1])]
    OBVIOUS
  <2>. HIDE DEF w
  <2>. QED BY <1>1, <2>1
<1>4. ASSUME NEW j \in Nat, \E w : WalksDown(w, j) PROVE \E w : WalksDown(w, j + 1)
  <2>1. PICK v : WalksDown(v, j)
    BY <1>4
  <2>2. v = [d \in 0 .. j |-> IF d = 0 THEN Zero ELSE Level(v[d - 1])]
    BY <1>2, <2>1
  <2> DEFINE w == [d \in 0 .. j + 1 |-> IF d <= j THEN v[d] ELSE Level(v[j])]
             h == [d \in 0 .. j + 1 |-> IF d = 0 THEN Zero ELSE Level(w[d - 1])]
  <2>3. ASSUME NEW d \in 0 .. j + 1 PROVE w[d] = h[d]
    <3>1. w[d] = IF d <= j THEN v[d] ELSE Level(v[j])
      OBVIOUS
    <3>2. h[d] = IF d = 0 THEN Zero ELSE Level(w[d - 1])
      OBVIOUS
    <3>3. d # 0 => w[d - 1] = v[d - 1]
      OBVIOUS
    <3>4. d <= j => v[d] = IF d = 0 THEN Zero ELSE Level(v[d - 1])
      BY <2>2
    <3>. HIDE DEF h, w
    <3>5. CASE d <= j
      BY <3>1, <3>2, <3>3, <3>4, <3>5
    <3>6. CASE ~ (d <= j)
      <4>1. d = j + 1 /\ d - 1 = j /\ d # 0
        BY <3>6
      <4>. QED BY <3>1, <3>2, <3>3, <3>6, <4>1
    <3>. QED BY <3>5, <3>6
  <2>4. w = [d \in 0 .. j + 1 |-> w[d]] /\ h = [d \in 0 .. j + 1 |-> h[d]]
    OBVIOUS
  <2>5. w = h
    <3>. HIDE DEF h, w
    <3>. QED BY <2>3, <2>4
  <2>6. w = [d \in 0 .. j + 1 |-> IF d = 0 THEN Zero ELSE Level(w[d - 1])]
    BY <2>5
  <2>. HIDE DEF w
  <2>. QED BY <1>1, <2>6
<1>5. \E w : WalksDown(w, k)
  <2>1. SUFFICES ASSUME Bad # {} PROVE FALSE
    OBVIOUS
  <2>2. PICK j \in Bad : \A i \in Bad : j <= i
    <3>1. Bad \in SUBSET Nat
      OBVIOUS
    <3>. HIDE DEF Bad
    <3>. QED BY <2>1, <3>1, LeastElement
  <2>3. j \in Nat /\ j # 0 /\ ~ \E w : WalksDown(w, j)
    BY <1>3, <2>2
  <2>4. j - 1 \in Nat /\ j - 1 \notin Bad /\ (j - 1) + 1 = j
    <3>1. ~ (j <= j - 1)
      BY <2>3
    <3>2. j - 1 \notin Bad
      <4>. HIDE DEF Bad
      <4>. QED BY <2>2, <3>1
    <3>. QED BY <2>3, <3>2
  <2>5. \E w : WalksDown(w, (j - 1) + 1)
    BY <1>4, <2>4
  <2>. QED BY <2>3, <2>4, <2>5
<1> DEFINE f == CHOOSE f : WalksDown(f, k)
<1>6. WalksDown(f, k)
  BY <1>5
<1>7. Walk(k) = f[k][tree]
  BY DEF Walk, WalksDown
<1>. QED BY <1>6, <1>7

\* From any node on, the walk stays in what is below the node and repeats nothing.
LEMMA WalkOnce ==
  ASSUME TypeOK, NEW S, Sorted(Memory, nodes, S), NEW k \in Nat, NEW w, WalksDown(w, k)
  PROVE  \A t \in nodes \cup {NULL} : w[k][t] \in Seq(S[t]) /\ OneToOne(w[k][t])
<1> DEFINE Fine(d) == \A t \in nodes \cup {NULL} : w[d][t] \in Seq(S[t]) /\ OneToOne(w[d][t])
           Bad == {d \in 0 .. k : ~ Fine(d)}
<1>1. \A d \in 0 .. k, t \in Pointer :
        w[d][t] = IF t = NULL \/ d = 0 THEN <<>>
                  ELSE <<t>> \o w[d - 1][left[t]] \o w[d - 1][right[t]]
  <2>1. SUFFICES ASSUME NEW d \in 0 .. k, NEW t \in Pointer
                 PROVE  w[d][t] = IF t = NULL \/ d = 0 THEN <<>>
                                  ELSE <<t>> \o w[d - 1][left[t]] \o w[d - 1][right[t]]
    OBVIOUS
  <2>2. w[d] = [n \in Pointer |->
                  IF n = NULL \/ d = 0 THEN <<>>
                  ELSE <<n>> \o w[d - 1][left[n]] \o w[d - 1][right[n]]]
    BY DEF WalksDown
  <2>. QED BY <2>2
<1>2. nodes \in SUBSET Elements /\ (\A t \in nodes \cup {NULL} : t \in Pointer)
      /\ NULL \notin nodes /\ \A t \in nodes : t \in Int
  BY StateFacts, NullIsNoNode
<1>3. \A A : <<>> \in Seq(A) /\ OneToOne(<<>>)
  BY EmptySeq DEF OneToOne
<1>4. Fine(0)
  <2>1. 0 \in 0 .. k
    OBVIOUS
  <2>2. \A t \in nodes \cup {NULL} : w[0][t] = <<>>
    BY <1>1, <1>2, <2>1
  <2>. QED BY <1>3, <2>2
<1>5. ASSUME NEW d \in 0 .. k, d # 0, Fine(d - 1) PROVE Fine(d)
  <2>1. SUFFICES ASSUME NEW t \in nodes \cup {NULL}
                 PROVE  w[d][t] \in Seq(S[t]) /\ OneToOne(w[d][t])
    OBVIOUS
  <2>2. CASE t = NULL
    <3>1. w[d][t] = <<>>
      BY <1>1, <1>2, <2>2
    <3>. QED BY <1>3, <3>1
  <2>3. CASE t \in nodes
    <3> DEFINE a == left[t]  b == right[t]
               u == w[d - 1][a]  v == w[d - 1][b]
    <3>1. /\ a \in nodes \cup {NULL} /\ b \in nodes \cup {NULL} /\ S[t] \in SUBSET nodes
          /\ \A e \in S[a] : e \in S[t] /\ Toward("left", e, t)
          /\ \A e \in S[b] : e \in S[t] /\ Toward("right", e, t)
          /\ t \in S[t]
      <4>1. "left" \in Sides /\ "right" \in Sides /\ Memory["left"] = left
            /\ Memory["right"] = right
        BY DEF Sides, Memory
      <4>2. Linked(Memory, nodes) /\ S \in Below(nodes)
        BY DEF Sorted
      <4>3. a \in nodes \cup {NULL} /\ b \in nodes \cup {NULL}
        BY <2>3, <4>1, <4>2 DEF Linked
      <4>4. S[t] \in SUBSET nodes
        BY <2>3, <4>2 DEF Below
      <4>. QED BY <2>3, <4>1, <4>3, <4>4 DEF Sorted
    <3>2. u \in Seq(S[a]) /\ OneToOne(u) /\ v \in Seq(S[b]) /\ OneToOne(v)
      BY <1>5, <3>1
    <3>3. w[d][t] = (<<t>> \o u) \o v
      BY <1>1, <1>2, <1>5, <2>3
    <3>4. /\ \A e \in S[a] : e \in Int /\ e < t
          /\ \A e \in S[b] : e \in Int /\ e > t
          /\ t \in Int
      BY <1>2, <2>3, <3>1 DEF Toward
    <3>. HIDE DEF u, v, a, b
    <3>5. S[a] \in SUBSET S[t] /\ S[b] \in SUBSET S[t] /\ {t} \in SUBSET S[t]
      BY <3>1
    <3>6. {t} \cap S[a] = {} /\ ({t} \cup S[a]) \cap S[b] = {}
      BY <3>4
    <3>7. <<t>> \in Seq({t}) /\ OneToOne(<<t>>)
      <4>1. <<t>> \in Seq({t}) /\ Len(<<t>>) = 1
        OBVIOUS
      <4>. QED BY <4>1 DEF OneToOne
    <3>8. <<t>> \o u \in Seq({t} \cup S[a]) /\ OneToOne(<<t>> \o u)
      BY <3>2, <3>5, <3>6, <3>7, JoinedOneToOne
    <3>9. /\ (<<t>> \o u) \o v \in Seq(({t} \cup S[a]) \cup S[b])
          /\ OneToOne((<<t>> \o u) \o v)
      <4> DEFINE s == <<t>> \o u  A == {t} \cup S[a]
      <4>1. s \in Seq(A) /\ OneToOne(s) /\ A \in SUBSET S[t] /\ A \cap S[b] = {}
        BY <3>5, <3>6, <3>8
      <4>. HIDE DEF s, A
      <4>2. s \o v \in Seq(A \cup S[b]) /\ OneToOne(s \o v)
        BY <3>2, <3>5, <4>1, JoinedOneToOne
      <4>. QED BY <4>2 DEF s, A
    <3>10. ({t} \cup S[a]) \cup S[b] \subseteq S[t]
      BY <3>5
    <3> DEFINE z == (<<t>> \o u) \o v  Z == ({t} \cup S[a]) \cup S[b]
    <3>11. z \in Seq(S[t])
      <4>1. z \in Seq(Z) /\ Z \subseteq S[t]
        BY <3>9, <3>10
      <4>. HIDE DEF z, Z
      <4>. QED BY <4>1, SeqOfMore
    <3>. QED BY <3>3, <3>9, <3>11
  <2>. QED BY <2>1, <2>2, <2>3
<1>. HIDE DEF Fine
<1>6. SUFFICES ASSUME Bad # {} PROVE FALSE
  <2>1. k \in 0 .. k
    OBVIOUS
  <2>. QED BY <2>1, <1>6 DEF Fine
<1>7. PICK d \in Bad : \A i \in Bad : d <= i
  <2>1. Bad \in SUBSET Nat
    OBVIOUS
  <2>. HIDE DEF Bad
  <2>. QED BY <1>6, <2>1, LeastElement
<1>8. d \in 0 .. k /\ ~ Fine(d) /\ d # 0
  BY <1>4, <1>7
<1>9. d - 1 \in 0 .. k /\ d - 1 \notin Bad
  <2>1. ~ (d <= d - 1)
    BY <1>8
  <2>2. d - 1 \notin Bad
    <3>. HIDE DEF Bad
    <3>. QED BY <1>7, <2>1
  <2>. QED BY <1>8, <2>2
<1>. QED BY <1>5, <1>8, <1>9

\* Whenever a signal comes while insert is at work, but for the moment between malloc and
\* memset, the walk of empty() ends and frees no node twice.
THEOREM NeverFreedTwice == Spec => []FreedOnceMidInsertion
<1>1. AvlInv => FreedOnceMidInsertion
  <2>1. SUFFICES ASSUME AvlInv, pc # "raw" PROVE IsInjective(Visits)
    BY DEF FreedOnceMidInsertion
  <2>2. TypeOK
    BY <2>1 DEF AvlInv
  <2>3. PICK S \in Below(nodes) : Sorted(Memory, nodes, S)
    <3>1. CASE pc = "rotate"
      <4>1. PICK run \in Seq(Memories) : Leads(todo, run)
        BY <2>1, <3>1 DEF AvlInv, RotateInv
      <4>2. /\ Len(run) = Len(todo) + 1 /\ todo \in Seq(Assignment) /\ run[1] = Memory
            /\ \A j \in 1 .. Len(run) : \E T \in Below(nodes) : Sorted(run[j], nodes, T)
        BY <4>1 DEF Leads
      <4>3. 1 \in 1 .. Len(run)
        BY <4>2, LenProperties
      <4>. QED BY <4>2, <4>3
    <3>2. CASE pc # "rotate"
      <4>1. Settled = Memory /\ Known = nodes
        BY <2>1 DEF Settled, Known
      <4>. QED BY <2>1, <3>2, <4>1 DEF AvlInv, SteadyInv, Whole
    <3>. QED BY <3>1, <3>2
  <2> DEFINE k == MaxElement + 1
  <2>4. k \in Nat
    BY AvlAssumption
  <2>. HIDE DEF k
  <2>5. PICK w : WalksDown(w, k) /\ Walk(k) = w[k][tree]
    BY <2>2, <2>4, WalkIs
  <2>6. tree \in nodes \cup {NULL}
    BY <2>3 DEF Sorted, Linked, Memory
  <2>7. Visits \in Seq(S[tree]) /\ OneToOne(Visits)
    <3>1. Visits = w[k][tree]
      BY <2>5 DEF Visits, k
    <3>. QED BY <2>2, <2>3, <2>4, <2>5, <2>6, <3>1, WalkOnce
  <2>8. DOMAIN Visits = 1 .. Len(Visits)
    BY <2>7
  <2>. QED BY <2>7, <2>8 DEF OneToOne, IsInjective
<1>. QED BY <1>1, AvlInvariant, PTL

=============================================================================
