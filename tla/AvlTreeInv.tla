----------------------------- MODULE AvlTreeInv -----------------------------
(***************************************************************************)
(* The inductive invariant of AvlTree.                                      *)
(*                                                                          *)
(* It speaks of memories, the current one and those that a rotation is      *)
(* about to produce, and of the set of nodes below each node.  The sets and *)
(* the memories are not state of the program: the invariant says that there *)
(* are some.                                                                *)
(***************************************************************************)
EXTENDS AvlTree, FiniteSets

Memory == [tree |-> tree, left |-> left, right |-> right, height |-> height]

Memories == [tree: Pointer, left: [Elements -> Pointer], right: [Elements -> Pointer],
             height: [Elements -> {NoHeight} \cup 0 .. MaxElement]]

\* A node that malloc has linked counts as one already, with what memset is about to
\* make of it.
Known == IF pc = "raw" THEN nodes \cup {x} ELSE nodes

Settled ==
  IF pc = "raw" THEN [tree |-> tree, left |-> [left EXCEPT ![x] = NULL],
                      right |-> [right EXCEPT ![x] = NULL],
                      height |-> [height EXCEPT ![x] = 0]]
  ELSE Memory

-----------------------------------------------------------------------------
\* What is said of a memory m whose nodes are N.  A node and its mirror image are
\* spoken of at once: m[d] are the links of side d.

Sides == {"left", "right"}
Opposite(d) == IF d = "left" THEN "right" ELSE "left"
Toward(d, e, n) == IF d = "left" THEN e < n ELSE e > n
Side(n, e) == IF e < n THEN "left" ELSE "right"

HeightIn(m, t) == IF t = NULL THEN -1 ELSE m.height[t]
Taller(a, b) == IF a > b THEN a ELSE b
FromSubtrees(m, t) == 1 + Taller(HeightIn(m, m.left[t]), HeightIn(m, m.right[t]))
Lean(m, t, d) == HeightIn(m, m[d][t]) - HeightIn(m, m[Opposite(d)][t])

Linked(m, N) ==
  /\ m.tree \in N \cup {NULL}
  /\ \A n \in N, d \in Sides : m[d][n] \in N \cup {NULL}

Below(N) == [N \cup {NULL} -> SUBSET N]

\* Nothing is below a node of which a walk can pass twice: S[n] has all nodes that are
\* reached from n, those on its left lower, those on its right higher.
Sorted(m, N, S) ==
  /\ Linked(m, N)
  /\ S \in Below(N) /\ S[NULL] = {}
  /\ \A n \in N : n \in S[n]
  /\ \A n \in N, d \in Sides : \A e \in S[m[d][n]] : e \in S[n] /\ Toward(d, e, n)

\* Every node is in the tree and S[n] is just what is below n, linked once.
Whole(m, N, S) ==
  /\ Sorted(m, N, S)
  /\ S[m.tree] = N
  /\ \A n \in N : S[n] = {n} \cup S[m.left[n]] \cup S[m.right[n]]
  /\ \A n, k \in N, c, d \in Sides : m[c][n] = m[d][k] /\ m[c][n] # NULL => n = k

\* No height exceeds what a tree of so many nodes can have.
Low(m, N, S) == \A n \in N : m.height[n] \in 0 .. Cardinality(S[n]) - 1

\* The height that is stored is that of the subtree, which is balanced.
Right(m, n) == m.height[n] = FromSubtrees(m, n) /\ Lean(m, n, "left") \in -1 .. 1

\* A subtree that has grown leans to the side that x went, unless it is x itself.
Tilted(m, c) == IF c = x THEN FromSubtrees(m, c) = 0 ELSE Lean(m, c, Side(c, x)) = 1

\* The height stored at p is from before the insertion; on x's side is c, which is h
\* high now and has grown by one or not at all.
Grown(m, p, c, h) ==
  \E g \in {h - 1, h} :
    LET other == HeightIn(m, m[Opposite(Side(p, x))][p]) IN
    /\ m.height[p] = 1 + Taller(g, other)
    /\ g - other \in -1 .. 1
    /\ g = h \/ Tilted(m, c)

\* What is reached from the nodes q for x.
RootOf(m, q) == IF q = <<>> THEN m.tree ELSE m[Side(Last(q), x)][Last(q)]

\* The nodes q have been passed on the way to x.
Chain(m, N, q) ==
  /\ \A i \in 1 .. Len(q) : q[i] \in N \ {x}
  /\ q # <<>> => q[1] = m.tree
  /\ \A i \in 1 .. Len(q) - 1 : q[i + 1] = m[Side(q[i], x)][q[i]]

\* m with a field of node n set to v, and with the root pointer that q leads to.
Put(m, f, n, v) == [m EXCEPT ![f] = [@ EXCEPT ![n] = v]]
PutRoot(m, q, v) == IF q = <<>> THEN [m EXCEPT !.tree = v]
                    ELSE Put(m, Side(Last(q), x), Last(q), v)

\* The assignment a turns m into k.
Assigned(m, a, k) ==
  \/ a.field \in Sides  /\ k = Put(m, a.field, a.of, a.to)
  \/ a.field = "height" /\ k = Put(m, "height", a.of, FromSubtrees(m, a.of))
  \/ a.field = "root"   /\ k = PutRoot(m, Front(path), a.to)

-----------------------------------------------------------------------------
\* The calls of insert that wait for the one at work.
Waiting == IF pc \in {"raw", "height"} THEN Front(path) ELSE path

ControlInv ==
  /\ pc # "idle" => x \in Elements
  /\ pc = "idle" => path = <<>>
  /\ pc \notin {"idle", "descend"} => path # <<>>
  /\ pc = "descend" => x \notin nodes
  /\ pc \notin {"idle", "descend"} => x \in Known
  /\ pc = "raw" => x \notin nodes
  /\ (pc = "rotate") <=> (todo # <<>>)
  /\ \A e \in Elements \ Known : left[e] = NULL /\ right[e] = NULL
  /\ pc = "descend" => \A i \in 1 .. Len(path) : i + height[path[i]] < MaxElement
  /\ pc = "raw" => Last(path) = x

\* Which heights are right, and what is known of the others, with insert at `at` and the
\* calls for the nodes q waiting.
HeightsAre(at, m, N, q) ==
  /\ at \in {"idle", "descend"} => \A n \in N : Right(m, n)
  /\ at = "balance" =>
       LET t == Last(q)  c == m[Side(t, x)][t] IN
       /\ \A n \in N \ {t} : Right(m, n)
       /\ Grown(m, t, c, HeightIn(m, c))
  /\ at \in {"raw", "height"} =>
       LET t == RootOf(m, q)  p == Last(q) IN
       /\ t \in N
       /\ Lean(m, t, "left") \in -1 .. 1
       /\ \A n \in N \ {t} : (q # <<>> /\ n = p) \/ Right(m, n)
       /\ q # <<>> => Grown(m, p, t, FromSubtrees(m, t))

SteadyInv ==
  pc # "rotate" =>
    /\ \E S \in Below(Known) : Whole(Settled, Known, S) /\ Low(Settled, Known, S)
    /\ Chain(Settled, Known, Waiting)
    /\ HeightsAre(pc, Settled, Known, Waiting)

\* The assignments moves, of a rotation, lead from the memory of now by those of run to
\* one that is right again; cleanstop may come before each of them.
Leads(moves, run) ==
  LET end == run[Len(run)] IN
  /\ moves \in Seq(Assignment) /\ run \in Seq(Memories) /\ Len(run) = Len(moves) + 1
  /\ run[1] = Memory
  /\ \A j \in 1 .. Len(moves) : /\ moves[j].of \in nodes
                                /\ Assigned(run[j], moves[j], run[j + 1])
  /\ \A j \in 1 .. Len(run) : \E S \in Below(nodes) : Sorted(run[j], nodes, S)
  /\ \E S \in Below(nodes) : Whole(end, nodes, S) /\ Low(end, nodes, S)
  /\ \A n \in nodes : Right(end, n)
  /\ Chain(end, nodes, Front(path))
  /\ RootOf(end, Front(path)) \in nodes

RotateInv == pc = "rotate" => \E run \in Seq(Memories) : Leads(todo, run)

AvlInv == TypeOK /\ ControlInv /\ SteadyInv /\ RotateInv

=============================================================================
