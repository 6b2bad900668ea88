-------------------------- MODULE ModuleGraphProofs --------------------------
(***************************************************************************)
(* The module graph, for any set of paths and any renames: its index is    *)
(* safe to use, and, as long as no rename is followed by an update without *)
(* a sort in between, it never has a cycle and implements the dependency   *)
(* map of DependencyGraph.                                                 *)
(***************************************************************************)
EXTENDS ModuleGraph, DepGraphProofs, WellFoundedInduction

-----------------------------------------------------------------------------
(* Positions. *)

(* A set of numbers that is not empty has a least element, ...            *)
LEMMA LeastExists ==
  ASSUME NEW S, S \subseteq Nat, S # {}
  PROVE  \E m \in S : \A k \in S : m <= k
<1>1. PICK m \in S : \A k \in S : ~ (<<k, m>> \in OpToRel(<, Nat))
  BY WFMin, NatLessThanWellFounded
<1>2. ASSUME NEW k \in S PROVE m <= k
  <2>1. k \in Nat /\ m \in Nat
    OBVIOUS
  <2>2. ~ (<<k, m>> \in OpToRel(<, Nat))
    BY <1>1
  <2>3. ~ (k < m)
    <3> SUFFICES ASSUME k < m PROVE FALSE
      OBVIOUS
    <3> QED
      BY <2>1, <2>2 DEF OpToRel
  <2> QED
    BY <2>1, <2>3
<1> QED
  BY <1>2

(* ... and a set of positions a greatest one.                             *)
LEMMA GreatestExists ==
  ASSUME NEW n \in Nat, NEW S, S \subseteq 1 .. n, S # {}
  PROVE  \E m \in S : \A k \in S : k <= m
<1> DEFINE T == {n - i : i \in S}
<1>1. ASSUME NEW i \in S PROVE n - i \in Nat
  OBVIOUS
<1>2. T \subseteq Nat
  BY <1>1
<1>3. T # {}
  OBVIOUS
<1>4. PICK t \in T : \A k \in T : t <= k
  BY <1>2, <1>3, LeastExists
<1>5. PICK m \in S : t = n - m
  BY <1>4
<1>6. ASSUME NEW k \in S PROVE k <= m
  <2>1. n - m <= n - k
    BY <1>4, <1>5
  <2> QED
    BY <2>1
<1> QED
  BY <1>6

-----------------------------------------------------------------------------
(* The type and the exactness of the index, of any graph. *)

Typed(g) ==
  /\ g = [nodes |-> g.nodes, index |-> g.index]
  /\ g.nodes \in Seq(Node)
  /\ DOMAIN g.index \subseteq Paths
  /\ g.index \in [DOMAIN g.index -> Nat \ {0}]

Exact(g) ==
  /\ \A p \in DOMAIN g.index :
       g.index[p] \in DOMAIN g.nodes /\ g.nodes[g.index[p]].id = p
  /\ \A i \in DOMAIN g.nodes :
       g.nodes[i].id \in DOMAIN g.index /\ g.index[g.nodes[i].id] = i

Good(g) == Typed(g) /\ Exact(g)

(* Dependencies have nodes, as the users of the graph see it.              *)
Complete(g) == \A p \in DOMAIN View(g) : View(g)[p] \subseteq DOMAIN View(g)

LEMMA GoodFacts ==
  ASSUME NEW g, Good(g)
  PROVE  /\ Len(g.nodes) \in Nat
         /\ DOMAIN g.nodes = 1 .. Len(g.nodes)
         /\ \A i \in DOMAIN g.nodes : g.nodes[i] \in Node
         /\ \A p \in DOMAIN g.index : g.index[p] \in DOMAIN g.nodes
         /\ \A i, j \in DOMAIN g.nodes : g.nodes[i].id = g.nodes[j].id => i = j
         /\ DOMAIN View(g) = DOMAIN g.index
         /\ \A i \in DOMAIN g.nodes : View(g)[g.nodes[i].id] = g.nodes[i].depends_on
         /\ WithinPaths(View(g))
<1>1. /\ Len(g.nodes) \in Nat
      /\ DOMAIN g.nodes = 1 .. Len(g.nodes)
      /\ \A i \in DOMAIN g.nodes : g.nodes[i] \in Node
  BY DEF Good, Typed
<1>2. /\ \A p \in DOMAIN g.index : g.index[p] \in DOMAIN g.nodes
      /\ \A i, j \in DOMAIN g.nodes : g.nodes[i].id = g.nodes[j].id => i = j
  BY DEF Good, Exact
<1>3. /\ DOMAIN View(g) = DOMAIN g.index
      /\ \A i \in DOMAIN g.nodes : View(g)[g.nodes[i].id] = g.nodes[i].depends_on
  BY DEF Good, Exact, View
<1>4. ASSUME NEW p \in DOMAIN g.index
      PROVE  View(g)[p] \subseteq Paths
  BY <1>1, <1>2 DEF View, Node
<1>5. WithinPaths(View(g))
  BY <1>3, <1>4 DEF WithinPaths, Good, Typed
<1> QED
  BY <1>1, <1>2, <1>3, <1>5

(* The topological sort, which has no index, sees the same graph.          *)
LEMMA ByNameIsView ==
  ASSUME NEW g, Good(g)
  PROVE  ByName(g) = View(g)
<1>1. {g.nodes[i].id : i \in DOMAIN g.nodes} = DOMAIN g.index
  BY DEF Good, Typed, Exact
<1>2. ASSUME NEW p \in DOMAIN g.index
      PROVE  g.index[p] = First(g, p)
  <2>1. Positions(g, p) = {g.index[p]}
    BY GoodFacts DEF Good, Exact, Positions
  <2>2. g.index[p] \in Nat
    BY DEF Good, Typed
  <2> QED
    BY <2>1, <2>2 DEF First
<1>3. ASSUME NEW p \in DOMAIN g.index
      PROVE  ByName(g)[p] = View(g)[p]
  BY <1>1, <1>2, <1>3 DEF ByName, View
<1> QED
  BY <1>1, <1>3 DEF ByName, View

-----------------------------------------------------------------------------
(* Each update keeps the index exact, and does to the view what the update *)
(* of the dependency map of the same name does.                            *)

LEMMA EmptyGood == Good(Empty) /\ View(Empty) = EmptyGraph
BY DEF Good, Typed, Exact, Empty, View, EmptyGraph

\* Nodes keep their names and places.
LEMMA SameNames ==
  ASSUME NEW g, Good(g), NEW h, h.index = g.index, DOMAIN h.nodes = DOMAIN g.nodes,
         \A i \in DOMAIN g.nodes : h.nodes[i].id = g.nodes[i].id
  PROVE  Exact(h)
BY DEF Good, Exact

LEMMA AddNodeGood ==
  ASSUME NEW g, Good(g), NEW p \in Paths
  PROVE  /\ Good(AddNodeIfNone(g, p))
         /\ View(AddNodeIfNone(g, p)) = AddNode(View(g), p)
         /\ p \in DOMAIN View(AddNodeIfNone(g, p))
<1>1. CASE p \in DOMAIN g.index
  <2>1. AddNodeIfNone(g, p) = g
    BY <1>1 DEF AddNodeIfNone
  <2>2. DOMAIN View(g) = DOMAIN g.index
    BY DEF View
  <2>3. AddNode(View(g), p) = View(g)
    BY <1>1, <2>2 DEF AddNode, Parents, View
  <2> QED
    BY <1>1, <2>1, <2>2, <2>3
<1>2. CASE p \notin DOMAIN g.index
  <2> DEFINE h == AddNodeIfNone(g, p)
             new == [id |-> p, depends_on |-> {}]
  <2>1. /\ h = [nodes |-> h.nodes, index |-> h.index]
        /\ h.nodes = Append(g.nodes, new)
        /\ h.index = [q \in DOMAIN g.index \cup {p} |->
                        IF q = p THEN Len(g.nodes) + 1 ELSE g.index[q]]
    BY <1>2 DEF AddNodeIfNone
  <2>2. new \in Node
    BY DEF Node
  <2>3. Typed(h)
    BY <2>1, <2>2, GoodFacts DEF Good, Typed
  <2>4. /\ DOMAIN h.nodes = 1 .. Len(g.nodes) + 1
        /\ \A i \in 1 .. Len(g.nodes) : h.nodes[i] = g.nodes[i]
        /\ h.nodes[Len(g.nodes) + 1] = new
    BY <2>1, <2>2 DEF Good, Typed
  <2>5. Exact(h)
    BY <1>2, <2>1, <2>4, GoodFacts DEF Good, Exact
  <2>6. View(h) = AddNode(View(g), p)
    <3>1. DOMAIN View(h) = DOMAIN g.index \cup {p} /\ DOMAIN View(g) = DOMAIN g.index
      BY <2>1 DEF View
    <3>2. ASSUME NEW q \in DOMAIN g.index \cup {p}
          PROVE  View(h)[q] = Parents(View(g), q)
      <4>1. CASE q = p
        <5>1. View(h)[q] = {}
          BY <2>1, <2>4, <4>1 DEF View
        <5>2. Parents(View(g), q) = {}
          BY <1>2, <3>1, <4>1 DEF Parents
        <5> QED
          BY <5>1, <5>2
      <4>2. CASE q # p
        <5>1. q \in DOMAIN g.index /\ g.index[q] \in 1 .. Len(g.nodes)
          BY <4>2, GoodFacts DEF Good, Typed
        <5>2. View(h)[q] = View(g)[q]
          BY <2>1, <2>4, <4>2, <5>1 DEF View
        <5> QED
          BY <3>1, <5>1, <5>2 DEF Parents
      <4> QED
        BY <4>1, <4>2
    <3> QED
      BY <3>1, <3>2 DEF AddNode, View
  <2> QED
    BY <2>1, <2>3, <2>5, <2>6 DEF Good, View
<1> QED
  BY <1>1, <1>2

LEMMA PushDepGood ==
  ASSUME NEW g, Good(g), NEW r \in DOMAIN g.index, NEW t \in Paths
  PROVE  /\ Good(PushDep(g, r, t))
         /\ View(PushDep(g, r, t)) = AddEdge(View(g), r, t)
<1> DEFINE h == PushDep(g, r, t)
           n == g.nodes[g.index[r]]
           m == WithDeps(n, n.depends_on \cup {t})
<1>1. /\ h = [nodes |-> h.nodes, index |-> h.index]
      /\ h.index = g.index
      /\ h.nodes = [g.nodes EXCEPT ![g.index[r]] = m]
  BY DEF PushDep, Good, Typed
<1>2. /\ n \in Node /\ n.id = r
      /\ m \in Node /\ m.id = r /\ m.depends_on = n.depends_on \cup {t}
  BY GoodFacts DEF Node, WithDeps, Good, Exact
<1>3. Typed(h)
  BY <1>1, <1>2, GoodFacts DEF Good, Typed
<1>4. /\ DOMAIN h.nodes = DOMAIN g.nodes
      /\ \A i \in DOMAIN g.nodes : h.nodes[i] = IF i = g.index[r] THEN m ELSE g.nodes[i]
  BY <1>1, GoodFacts
<1>5. Exact(h)
  <2>1. \A i \in DOMAIN g.nodes : h.nodes[i].id = g.nodes[i].id
    BY <1>2, <1>4
  <2> QED
    BY <1>1, <1>4, <2>1, SameNames
<1>6. View(h) = AddEdge(View(g), r, t)
  <2>1. DOMAIN View(h) = DOMAIN g.index /\ DOMAIN View(g) = DOMAIN g.index
    BY <1>1 DEF View
  <2>2. ASSUME NEW q \in DOMAIN g.index
        PROVE  View(h)[q] = IF q = r THEN View(g)[q] \cup {t} ELSE View(g)[q]
    <3>1. View(h)[q] = h.nodes[g.index[q]].depends_on /\ View(g)[q] = g.nodes[g.index[q]].depends_on
      BY <1>1 DEF View
    <3>2. g.index[q] \in DOMAIN g.nodes /\ (g.index[q] = g.index[r] <=> q = r)
      BY DEF Good, Exact
    <3> QED
      BY <1>2, <1>4, <3>1, <3>2
  <2> QED
    BY <2>1, <2>2 DEF AddEdge, View
<1> QED
  BY <1>3, <1>5, <1>6 DEF Good

LEMMA AddRefGood ==
  ASSUME NEW g, Good(g), NEW r \in Paths, NEW t \in Paths
  PROVE  /\ Good(AddRef(g, r, t))
         /\ View(AddRef(g, r, t)) = IncRef(View(g), r, t)
<1> DEFINE h == AddNodeIfNone(g, r)
<1>1. Good(h) /\ View(h) = AddNode(View(g), r) /\ r \in DOMAIN View(h)
  BY AddNodeGood
<1>2. r \in DOMAIN h.index
  BY <1>1, GoodFacts
<1>3. CASE r = t \/ DeepDependsOn(View(h), t, r)
  <2>1. AddRef(g, r, t) = h
    BY <1>3 DEF AddRef
  <2>2. IncRef(View(g), r, t) = View(h)
    BY <1>1, <1>3 DEF IncRef, Refused
  <2> QED
    BY <1>1, <2>1, <2>2
<1>4. CASE ~(r = t \/ DeepDependsOn(View(h), t, r))
  <2>1. AddRef(g, r, t) = PushDep(h, r, t)
    BY <1>4 DEF AddRef
  <2>2. IncRef(View(g), r, t) = AddEdge(View(h), r, t)
    BY <1>1, <1>4 DEF IncRef, Refused
  <2> QED
    BY <1>1, <1>2, <2>1, <2>2, PushDepGood
<1> QED
  BY <1>3, <1>4

LEMMA FunctionIsSeq ==
  ASSUME NEW S, NEW n \in Nat, NEW s \in [1 .. n -> S]
  PROVE  s \in Seq(S)
OBVIOUS

\* Nodes of the graph without p forget p.
LEMMA ForgetFacts ==
  ASSUME NEW nodes \in Seq(Node), NEW p
  PROVE  /\ Forget(nodes, p) \in Seq(Node)
         /\ DOMAIN Forget(nodes, p) = DOMAIN nodes
         /\ \A i \in DOMAIN nodes :
              /\ Forget(nodes, p)[i].id = nodes[i].id
              /\ Forget(nodes, p)[i].depends_on = nodes[i].depends_on \ {p}
<1>1. /\ DOMAIN Forget(nodes, p) = DOMAIN nodes
      /\ \A i \in DOMAIN nodes :
           Forget(nodes, p)[i] = WithDeps(nodes[i], nodes[i].depends_on \ {p})
  BY DEF Forget
<1>2. ASSUME NEW i \in DOMAIN nodes
      PROVE  WithDeps(nodes[i], nodes[i].depends_on \ {p}) \in Node
  <2>1. nodes[i] \in Node
    OBVIOUS
  <2> QED
    BY <2>1 DEF WithDeps, Node
<1>3. Forget(nodes, p) \in Seq(Node)
  <2>1. Forget(nodes, p) \in [1 .. Len(nodes) -> Node]
    BY <1>2 DEF Forget
  <2> QED
    BY <2>1, FunctionIsSeq
<1> QED
  BY <1>1, <1>3 DEF WithDeps

\* `nodes' and `index' are those of g with p cut out.
IsCut(g, p, nodes, index) ==
  /\ nodes \in Seq(Node)
  /\ index \in [DOMAIN g.index \ {p} -> Nat \ {0}]
  /\ \A q \in DOMAIN index :
       /\ index[q] \in DOMAIN nodes
       /\ nodes[index[q]] = g.nodes[g.index[q]]
  /\ \A j \in DOMAIN nodes :
       /\ nodes[j].id \in DOMAIN index
       /\ index[nodes[j].id] = j

\* The later positions move down by one.
LEMMA ShiftFacts ==
  ASSUME NEW g, Good(g), NEW p \in DOMAIN g.index
  PROVE  IsCut(g, p, WithoutPosition(g.nodes, g.index[p]), ShiftedIndex(g.index, p))
<1> DEFINE k == g.index[p]
           n == Len(g.nodes)
           nodes == WithoutPosition(g.nodes, k)
           index == ShiftedIndex(g.index, p)
<1>1. n \in Nat /\ DOMAIN g.nodes = 1 .. n /\ k \in 1 .. n
  BY GoodFacts
<1>2. /\ DOMAIN nodes = 1 .. n - 1
      /\ \A j \in 1 .. n - 1 : nodes[j] = IF j < k THEN g.nodes[j] ELSE g.nodes[j + 1]
  BY DEF WithoutPosition
<1>3. \A j \in 1 .. n - 1 : nodes[j] \in Node
  BY <1>1, <1>2, GoodFacts
<1>4. nodes \in Seq(Node)
  <2>1. nodes \in [1 .. n - 1 -> Node]
    BY <1>3 DEF WithoutPosition
  <2> QED
    BY <1>1, <2>1, FunctionIsSeq
<1>5. /\ DOMAIN index = DOMAIN g.index \ {p}
      /\ \A q \in DOMAIN index :
           index[q] = IF g.index[q] > k THEN g.index[q] - 1 ELSE g.index[q]
  BY DEF ShiftedIndex
<1>6. ASSUME NEW q \in DOMAIN index
      PROVE  index[q] \in DOMAIN nodes /\ nodes[index[q]] = g.nodes[g.index[q]]
  <2>1. g.index[q] \in 1 .. n /\ g.index[q] # k
    BY <1>1, <1>5 DEF Good, Exact
  <2> QED
    BY <1>1, <1>2, <1>5, <2>1
<1>7. ASSUME NEW j \in DOMAIN nodes
      PROVE  nodes[j].id \in DOMAIN index /\ index[nodes[j].id] = j
  <2> DEFINE i == IF j < k THEN j ELSE j + 1
  <2>1. i \in 1 .. n /\ i # k /\ nodes[j] = g.nodes[i]
    BY <1>1, <1>2
  <2>2. g.nodes[i].id \in DOMAIN g.index /\ g.index[g.nodes[i].id] = i
    BY <1>1, <2>1 DEF Good, Exact
  <2> QED
    BY <1>1, <1>2, <1>5, <2>1, <2>2
<1>8. index \in [DOMAIN g.index \ {p} -> Nat \ {0}]
  <2>1. \A q \in DOMAIN g.index \ {p} : index[q] \in Nat \ {0}
    BY <1>1, <1>2, <1>5, <1>6
  <2> QED
    BY <1>5, <2>1 DEF ShiftedIndex
<1> QED
  BY <1>4, <1>6, <1>7, <1>8 DEF IsCut

LEMMA RemoveGood ==
  ASSUME NEW g, Good(g), Complete(g), NEW p \in Paths
  PROVE  /\ Good(Remove(g, p))
         /\ View(Remove(g, p)) = IF p \in DOMAIN View(g) THEN RemoveNode(View(g), p)
                                 ELSE View(g)
<1> DEFINE h == Remove(g, p)
<1>1. g.nodes \in Seq(Node) /\ DOMAIN View(g) = DOMAIN g.index
  BY DEF Good, Typed, View
<1>2. CASE p \in DOMAIN g.index
  <2> DEFINE nodes == WithoutPosition(g.nodes, g.index[p])
             index == ShiftedIndex(g.index, p)
  <2>1. h = [nodes |-> Forget(nodes, p), index |-> index]
    BY <1>2 DEF Remove
  <2>2. /\ nodes \in Seq(Node)
        /\ index \in [DOMAIN g.index \ {p} -> Nat \ {0}]
        /\ \A q \in DOMAIN index :
             /\ index[q] \in DOMAIN nodes
             /\ nodes[index[q]] = g.nodes[g.index[q]]
        /\ \A j \in DOMAIN nodes :
             /\ nodes[j].id \in DOMAIN index
             /\ index[nodes[j].id] = j
    <3>1. IsCut(g, p, nodes, index)
      BY <1>2, ShiftFacts
    <3> QED
      BY <3>1 DEF IsCut
  <2> HIDE DEF nodes, index
  <2>3. /\ h.nodes \in Seq(Node)
        /\ DOMAIN h.nodes = DOMAIN nodes
        /\ \A i \in DOMAIN nodes :
             /\ h.nodes[i].id = nodes[i].id
             /\ h.nodes[i].depends_on = nodes[i].depends_on \ {p}
    BY <2>1, <2>2, ForgetFacts
  <2>4. h.index = index /\ h = [nodes |-> h.nodes, index |-> h.index]
    BY <2>1
  <2>5. Typed(h)
    <3>1. index \in [DOMAIN index -> Nat \ {0}] /\ DOMAIN index \subseteq Paths
      BY <2>2 DEF Good, Typed
    <3> QED
      BY <2>3, <2>4, <3>1 DEF Typed
  <2>6. Exact(h)
    <3>1. \A q \in DOMAIN h.index : h.index[q] \in DOMAIN h.nodes /\ h.nodes[h.index[q]].id = q
      BY <2>2, <2>3, <2>4 DEF Good, Exact
    <3>2. \A i \in DOMAIN h.nodes :
            h.nodes[i].id \in DOMAIN h.index /\ h.index[h.nodes[i].id] = i
      BY <2>2, <2>3, <2>4
    <3> QED
      BY <3>1, <3>2 DEF Exact
  <2>7. View(h) = RemoveNode(View(g), p)
    <3>1. DOMAIN View(h) = DOMAIN g.index \ {p}
      BY <2>2, <2>4 DEF View
    <3>2. ASSUME NEW q \in DOMAIN g.index \ {p}
          PROVE  View(h)[q] = View(g)[q] \ {p}
      <4>1. View(h)[q] = h.nodes[index[q]].depends_on /\ View(g)[q] = g.nodes[g.index[q]].depends_on
        BY <2>2, <2>4 DEF View
      <4> QED
        BY <2>2, <2>3, <4>1
    <3> QED
      BY <1>1, <3>1, <3>2 DEF RemoveNode, View
  <2> QED
    BY <1>1, <1>2, <2>5, <2>6, <2>7 DEF Good
<1>3. CASE p \notin DOMAIN g.index
  <2>1. h = [nodes |-> Forget(g.nodes, p), index |-> g.index]
    BY <1>3 DEF Remove
  <2>2. /\ h.nodes \in Seq(Node)
        /\ DOMAIN h.nodes = DOMAIN g.nodes
        /\ \A i \in DOMAIN g.nodes :
             /\ h.nodes[i].id = g.nodes[i].id
             /\ h.nodes[i].depends_on = g.nodes[i].depends_on \ {p}
    BY <1>1, <2>1, ForgetFacts
  <2>3. h.index = g.index /\ h = [nodes |-> h.nodes, index |-> h.index]
    BY <2>1
  <2>4. Good(h)
    BY <2>2, <2>3, SameNames DEF Good, Typed
  <2>5. ASSUME NEW q \in DOMAIN g.index
        PROVE  View(h)[q] = View(g)[q]
    <3>1. /\ View(h)[q] = h.nodes[g.index[q]].depends_on
          /\ View(g)[q] = g.nodes[g.index[q]].depends_on
      BY <2>3 DEF View
    <3>2. View(h)[q] = View(g)[q] \ {p}
      BY <2>2, <3>1, GoodFacts
    <3>3. p \notin View(g)[q]
      BY <1>1, <1>3 DEF Complete
    <3> QED
      BY <3>2, <3>3
  <2>6. View(h) = View(g)
    BY <2>3, <2>5 DEF View
  <2> QED
    BY <1>1, <1>3, <2>4, <2>6
<1> QED
  BY <1>2, <1>3

\* An index rebuilt from nodes with different names is exact.
LEMMA ReindexedFacts ==
  ASSUME NEW nodes \in Seq(Node),
         \A i, j \in DOMAIN nodes : nodes[i].id = nodes[j].id => i = j
  PROVE  /\ DOMAIN Reindexed(nodes) = {nodes[i].id : i \in DOMAIN nodes}
         /\ \A i \in DOMAIN nodes : Reindexed(nodes)[nodes[i].id] = i
<1>1. DOMAIN nodes = 1 .. Len(nodes) /\ Len(nodes) \in Nat
  OBVIOUS
<1>2. ASSUME NEW i \in DOMAIN nodes
      PROVE  Last(nodes, nodes[i].id) = i
  <2>1. \A k \in DOMAIN nodes :
          (/\ nodes[k].id = nodes[i].id
           /\ \A j \in DOMAIN nodes : nodes[j].id = nodes[i].id => j <= k) <=> k = i
    BY <1>1
  <2> QED
    BY <2>1 DEF Last
<1> QED
  BY <1>2 DEF Reindexed

LEMMA SortedGood ==
  ASSUME NEW g, Good(g), NEW h \in Sorted(g)
  PROVE  Good(h) /\ IF Sortable(g) THEN View(h) = View(g) ELSE h = Empty
<1>1. CASE ~Sortable(g)
  BY <1>1, EmptyGood DEF Sorted
<1>2. CASE Sortable(g)
  <2>1. PICK o \in SortedOrders(g) :
          /\ h = [nodes |-> [k \in DOMAIN o |-> g.nodes[o[k]]],
                  index |-> Reindexed([k \in DOMAIN o |-> g.nodes[o[k]]])]
    BY <1>2 DEF Sorted
  <2> DEFINE Dom == DOMAIN g.nodes
  <2>2. /\ o \in [Dom -> Dom]
        /\ \A i \in Dom : \E k \in Dom : o[k] = i
        /\ \A k, l \in Dom : k < l => o[k] # o[l]
    BY DEF SortedOrders
  <2>3. Dom = 1 .. Len(g.nodes) /\ Len(g.nodes) \in Nat
    BY GoodFacts
  <2>4. /\ DOMAIN h.nodes = Dom
        /\ \A k \in Dom : h.nodes[k] = g.nodes[o[k]]
        /\ h.index = Reindexed(h.nodes)
        /\ h = [nodes |-> h.nodes, index |-> h.index]
    BY <2>1, <2>2
  <2>5. h.nodes \in Seq(Node)
    <3>1. h.nodes \in [1 .. Len(g.nodes) -> Node]
      BY <2>1, <2>2, <2>3, GoodFacts
    <3> QED
      BY <2>3, <3>1, FunctionIsSeq
  <2>6. \A k, l \in Dom : h.nodes[k].id = h.nodes[l].id => k = l
    <3> SUFFICES ASSUME NEW k \in Dom, NEW l \in Dom, h.nodes[k].id = h.nodes[l].id
                 PROVE  k = l
      OBVIOUS
    <3>1. o[k] \in Dom /\ o[l] \in Dom
      BY <2>2
    <3>2. o[k] = o[l]
      BY <2>4, <3>1, GoodFacts
    <3>3. k < l \/ l < k \/ k = l
      BY <2>3
    <3> QED
      BY <2>2, <3>2, <3>3
  <2>7. /\ DOMAIN h.index = {h.nodes[i].id : i \in Dom}
        /\ \A i \in Dom : h.index[h.nodes[i].id] = i
    BY <2>4, <2>5, <2>6, ReindexedFacts
  <2>8. DOMAIN h.index = DOMAIN g.index
    <3>1. DOMAIN g.index = {g.nodes[i].id : i \in Dom}
      BY DEF Good, Exact
    <3> QED
      BY <2>2, <2>4, <2>7, <3>1
  <2>9. Typed(h)
    <3>1. h.index \in [DOMAIN h.index -> Nat \ {0}]
      BY <2>3, <2>4, <2>7 DEF Reindexed
    <3> QED
      BY <2>4, <2>5, <2>8, <3>1 DEF Good, Typed
  <2>10. Exact(h)
    BY <2>4, <2>7 DEF Exact
  <2>11. View(h) = View(g)
    <3>1. ASSUME NEW p \in DOMAIN g.index
          PROVE  View(h)[p] = View(g)[p]
      <4>1. PICK k \in Dom : p = h.nodes[k].id
        BY <2>7, <2>8
      <4>2. o[k] \in Dom /\ g.nodes[o[k]].id = p
        BY <2>2, <2>4, <4>1
      <4>3. View(h)[p] = g.nodes[o[k]].depends_on
        BY <2>4, <2>7, <2>8, <4>1 DEF View
      <4> QED
        BY <4>2, <4>3, GoodFacts
    <3> QED
      BY <2>8, <3>1 DEF View
  <2> QED
    BY <1>2, <2>9, <2>10, <2>11 DEF Good
<1> QED
  BY <1>1, <1>2

-----------------------------------------------------------------------------
(* Renames do not touch the index, so it may find a node under another     *)
(* path than the node's own; what stays true is that it finds different    *)
(* nodes for different paths.                                              *)

Safe(g) ==
  /\ \A p \in DOMAIN g.index : g.index[p] \in DOMAIN g.nodes
  /\ \A p, q \in DOMAIN g.index : g.index[p] = g.index[q] => p = q

TypedSafe(g) == Typed(g) /\ Safe(g)

LEMMA NodesFacts ==
  ASSUME NEW g, Typed(g)
  PROVE  /\ Len(g.nodes) \in Nat /\ DOMAIN g.nodes = 1 .. Len(g.nodes)
         /\ \A i \in DOMAIN g.nodes : g.nodes[i] \in Node
BY DEF Typed

LEMMA EmptySafe == TypedSafe(Empty)
BY DEF Empty, TypedSafe, Typed, Safe

LEMMA AddNodeSafe ==
  ASSUME NEW g, TypedSafe(g), NEW p \in Paths
  PROVE  TypedSafe(AddNodeIfNone(g, p)) /\ p \in DOMAIN AddNodeIfNone(g, p).index
<1>1. CASE p \in DOMAIN g.index
  BY <1>1 DEF AddNodeIfNone
<1>2. CASE p \notin DOMAIN g.index
  <2> DEFINE h == AddNodeIfNone(g, p)
             new == [id |-> p, depends_on |-> {}]
  <2>1. /\ h = [nodes |-> h.nodes, index |-> h.index]
        /\ h.nodes = Append(g.nodes, new)
        /\ h.index = [q \in DOMAIN g.index \cup {p} |->
                        IF q = p THEN Len(g.nodes) + 1 ELSE g.index[q]]
    BY <1>2 DEF AddNodeIfNone
  <2>2. new \in Node
    BY DEF Node
  <2>3. Len(g.nodes) \in Nat /\ DOMAIN g.nodes = 1 .. Len(g.nodes)
    BY NodesFacts DEF TypedSafe
  <2>4. Typed(h)
    BY <2>1, <2>2, <2>3 DEF TypedSafe, Typed
  <2>5. DOMAIN h.nodes = 1 .. Len(g.nodes) + 1
    BY <2>1, <2>2 DEF TypedSafe, Typed
  <2>6. \A q \in DOMAIN g.index : g.index[q] \in 1 .. Len(g.nodes)
    BY <2>3 DEF TypedSafe, Safe
  <2>7. Safe(h)
    BY <2>1, <2>3, <2>5, <2>6 DEF TypedSafe, Safe
  <2> QED
    BY <2>1, <2>4, <2>7 DEF TypedSafe
<1> QED
  BY <1>1, <1>2

LEMMA AddRefSafe ==
  ASSUME NEW g, TypedSafe(g), NEW r \in Paths, NEW t \in Paths
  PROVE  TypedSafe(AddRef(g, r, t))
<1> DEFINE h == AddNodeIfNone(g, r)
           i == h.index[r]
           m == WithDeps(h.nodes[i], h.nodes[i].depends_on \cup {t})
           k == PushDep(h, r, t)
<1>1. TypedSafe(h) /\ r \in DOMAIN h.index
  BY AddNodeSafe
<1>2. AddRef(g, r, t) \in {h, k}
  BY DEF AddRef
<1> HIDE DEF h
<1>3. i \in DOMAIN h.nodes /\ h.nodes[i] \in Node /\ h.nodes \in Seq(Node)
  BY <1>1, NodesFacts DEF TypedSafe, Safe, Typed
<1>4. m \in Node
  BY <1>3 DEF WithDeps, Node
<1>5. k = [nodes |-> [h.nodes EXCEPT ![i] = m], index |-> h.index]
  BY DEF PushDep
<1> HIDE DEF k, m, i
<1>6. k.nodes \in Seq(Node) /\ DOMAIN k.nodes = DOMAIN h.nodes /\ k.index = h.index
      /\ k = [nodes |-> k.nodes, index |-> k.index]
  BY <1>3, <1>4, <1>5
<1>7. TypedSafe(k)
  BY <1>1, <1>6 DEF TypedSafe, Typed, Safe
<1> QED
  BY <1>1, <1>2, <1>7

LEMMA RemoveSafe ==
  ASSUME NEW g, TypedSafe(g), NEW p \in Paths
  PROVE  TypedSafe(Remove(g, p))
<1>1. CASE p \notin DOMAIN g.index
  <2> DEFINE nodes == Forget(g.nodes, p)
  <2>1. nodes \in Seq(Node) /\ DOMAIN nodes = DOMAIN g.nodes
    BY ForgetFacts DEF TypedSafe, Typed
  <2>2. Remove(g, p) = [nodes |-> nodes, index |-> g.index]
    BY <1>1 DEF Remove
  <2> HIDE DEF nodes
  <2> QED
    BY <2>1, <2>2 DEF TypedSafe, Typed, Safe
<1>2. CASE p \in DOMAIN g.index
  <2> DEFINE k == g.index[p]
             n == Len(g.nodes)
             cut == WithoutPosition(g.nodes, k)
             nodes == Forget(cut, p)
             index == ShiftedIndex(g.index, p)
  <2>1. /\ n \in Nat /\ DOMAIN g.nodes = 1 .. n /\ k \in 1 .. n
        /\ \A i \in DOMAIN g.nodes : g.nodes[i] \in Node
    BY <1>2, NodesFacts DEF TypedSafe, Safe
  <2>2. cut \in Seq(Node) /\ DOMAIN cut = 1 .. n - 1
    <3>1. \A j \in 1 .. n - 1 : (IF j < k THEN g.nodes[j] ELSE g.nodes[j + 1]) \in Node
      BY <2>1
    <3>2. cut \in [1 .. n - 1 -> Node]
      BY <3>1 DEF WithoutPosition
    <3>3. CASE n = 0
      BY <2>1, <3>3
    <3>4. CASE n # 0
      BY <2>1, <3>2, <3>4, FunctionIsSeq
    <3> QED
      BY <3>2, <3>3, <3>4
  <2>3. nodes \in Seq(Node) /\ DOMAIN nodes = 1 .. n - 1
    BY <2>2, ForgetFacts
  <2>4. /\ DOMAIN index = DOMAIN g.index \ {p}
        /\ index = [q \in DOMAIN index |-> index[q]]
        /\ \A q \in DOMAIN index :
             index[q] = IF g.index[q] > k THEN g.index[q] - 1 ELSE g.index[q]
    BY DEF ShiftedIndex
  <2>5. Remove(g, p) = [nodes |-> nodes, index |-> index]
    BY <1>2 DEF Remove
  <2>6. \A q \in DOMAIN index : g.index[q] \in 1 .. n /\ g.index[q] # k
    BY <1>2, <2>1, <2>4 DEF TypedSafe, Safe
  <2> HIDE DEF nodes, index, cut, n
  <2>7. \A q \in DOMAIN index : index[q] \in 1 .. n - 1
    BY <2>1, <2>4, <2>6
  <2>8. ASSUME NEW q \in DOMAIN index, NEW s \in DOMAIN index, index[q] = index[s]
        PROVE  q = s
    <3>1. g.index[q] = g.index[s]
      BY <2>1, <2>4, <2>6, <2>8
    <3> QED
      BY <2>4, <3>1 DEF TypedSafe, Safe
  <2>9. index \in [DOMAIN index -> Nat \ {0}]
    BY <2>1, <2>4, <2>7
  <2> QED
    BY <2>3, <2>4, <2>5, <2>7, <2>8, <2>9 DEF TypedSafe, Typed, Safe
<1> QED
  BY <1>1, <1>2

LEMMA RenameSafe ==
  ASSUME NEW g, TypedSafe(g), NEW old \in Paths, NEW new \in Paths
  PROVE  TypedSafe(RenamePath(g, old, new))
<1> DEFINE renamed(n) ==
             [id |-> IF n.id = old THEN new ELSE n.id,
              depends_on |-> IF old \in n.depends_on
                             THEN (n.depends_on \cup {new}) \ {old}
                             ELSE n.depends_on]
           nodes == [i \in DOMAIN g.nodes |-> renamed(g.nodes[i])]
           h == RenamePath(g, old, new)
<1>1. Len(g.nodes) \in Nat /\ DOMAIN g.nodes = 1 .. Len(g.nodes)
      /\ \A i \in DOMAIN g.nodes : g.nodes[i] \in Node
  BY NodesFacts DEF TypedSafe
<1>2. \A n \in Node : renamed(n) \in Node
  BY DEF Node
<1>3. h = [g EXCEPT !.nodes = nodes]
  BY DEF RenamePath
<1>4. nodes \in [1 .. Len(g.nodes) -> Node]
  BY <1>1, <1>2
<1>5. nodes \in Seq(Node) /\ DOMAIN nodes = DOMAIN g.nodes
  BY <1>1, <1>4, FunctionIsSeq
<1> HIDE DEF nodes
<1>6. h.nodes = nodes /\ h.index = g.index /\ h = [nodes |-> h.nodes, index |-> h.index]
  BY <1>3 DEF TypedSafe, Typed
<1> QED
  BY <1>5, <1>6 DEF TypedSafe, Typed, Safe

LEMMA SortedSafe ==
  ASSUME NEW g, TypedSafe(g), NEW h \in Sorted(g)
  PROVE  TypedSafe(h)
<1>1. CASE ~Sortable(g)
  BY <1>1, EmptySafe DEF Sorted
<1>2. CASE Sortable(g)
  <2>1. PICK o \in SortedOrders(g) :
          h = [nodes |-> [k \in DOMAIN o |-> g.nodes[o[k]]],
               index |-> Reindexed([k \in DOMAIN o |-> g.nodes[o[k]]])]
    BY <1>2 DEF Sorted
  <2> DEFINE nodes == [k \in DOMAIN o |-> g.nodes[o[k]]]
             n == Len(g.nodes)
  <2>2. n \in Nat /\ DOMAIN g.nodes = 1 .. n /\ \A i \in DOMAIN g.nodes : g.nodes[i] \in Node
    BY NodesFacts DEF TypedSafe
  <2>3. o \in [1 .. n -> 1 .. n]
    BY <2>2 DEF SortedOrders
  <2>4. nodes \in [1 .. n -> Node]
    BY <2>2, <2>3
  <2>5. nodes \in Seq(Node) /\ DOMAIN nodes = 1 .. n
    BY <2>2, <2>4, FunctionIsSeq
  <2>6. h = [nodes |-> nodes, index |-> Reindexed(nodes)]
    BY <2>1
  <2> HIDE DEF nodes, n
  <2>7. ASSUME NEW p, \E i \in DOMAIN nodes : nodes[i].id = p
        PROVE  Last(nodes, p) \in DOMAIN nodes /\ nodes[Last(nodes, p)].id = p
    <3> DEFINE S == {i \in DOMAIN nodes : nodes[i].id = p}
    <3>1. S \subseteq 1 .. n /\ S # {}
      BY <2>5, <2>7
    <3>2. \E m \in S : \A k \in S : k <= m
      BY <2>2, <3>1, GreatestExists
    <3>3. \E i \in DOMAIN nodes :
            nodes[i].id = p /\ \A j \in DOMAIN nodes : nodes[j].id = p => j <= i
      BY <3>2
    <3> QED
      BY <3>3 DEF Last
  <2> DEFINE index == Reindexed(nodes)
  <2>8. /\ DOMAIN index = {nodes[i].id : i \in DOMAIN nodes}
        /\ index = [p \in DOMAIN index |-> Last(nodes, p)]
    BY DEF Reindexed
  <2> HIDE DEF index
  <2>9. \A p \in DOMAIN index : index[p] \in DOMAIN nodes /\ nodes[index[p]].id = p
    BY <2>7, <2>8
  <2>10. Safe(h)
    BY <2>6, <2>9 DEF Safe, index
  <2>11. DOMAIN index \subseteq Paths
    BY <2>2, <2>4, <2>5, <2>8 DEF Node
  <2>12. index \in [DOMAIN index -> Nat \ {0}]
    BY <2>2, <2>5, <2>8, <2>9
  <2>13. Typed(h)
    BY <2>5, <2>6, <2>11, <2>12 DEF Typed, index
  <2> QED
    BY <2>10, <2>13 DEF TypedSafe
<1> QED
  BY <1>1, <1>2

-----------------------------------------------------------------------------
(* The nodes of a renamed graph, with the index a sort would give them.    *)

Reindex(g) == [nodes |-> g.nodes, index |-> Reindexed(g.nodes)]

(* The names and the dependencies of a renamed graph are right, and sorting *)
(* it makes the index right, too.                                           *)
LEMMA RenameGood ==
  ASSUME NEW g, Good(g), Complete(g), NEW old \in Paths, NEW new \in Paths,
         Positions(g, new) = {}
  PROVE  LET h == Reindex(RenamePath(g, old, new))
         IN  /\ Good(h)
             /\ View(h) = RenameNode(View(g), old, new)
<1> DEFINE renamed(n) ==
             [id |-> IF n.id = old THEN new ELSE n.id,
              depends_on |-> IF old \in n.depends_on
                             THEN (n.depends_on \cup {new}) \ {old}
                             ELSE n.depends_on]
           nodes == [i \in DOMAIN g.nodes |-> renamed(g.nodes[i])]
           h == Reindex(RenamePath(g, old, new))
           Dom == DOMAIN g.nodes
<1>1. /\ Len(g.nodes) \in Nat /\ Dom = 1 .. Len(g.nodes)
      /\ \A i \in Dom : g.nodes[i] \in Node
  BY GoodFacts
<1>2. new \notin DOMAIN View(g) /\ \A i \in Dom : g.nodes[i].id # new
  <2>1. \A i \in Dom : g.nodes[i].id # new
    BY DEF Positions
  <2> QED
    BY <2>1, GoodFacts DEF Good, Exact
<1>3. \A i \in Dom : g.nodes[i].depends_on \subseteq DOMAIN View(g)
  BY GoodFacts DEF Complete, Good, Exact
<1>4. \A i \in Dom :
        /\ nodes[i].id = NewName(old, new, g.nodes[i].id)
        /\ nodes[i].depends_on = {NewName(old, new, d) : d \in g.nodes[i].depends_on}
  <2> SUFFICES ASSUME NEW i \in Dom
               PROVE  /\ nodes[i].id = NewName(old, new, g.nodes[i].id)
                      /\ nodes[i].depends_on
                           = {NewName(old, new, d) : d \in g.nodes[i].depends_on}
    OBVIOUS
  <2>1. new \notin g.nodes[i].depends_on
    BY <1>2, <1>3
  <2> QED
    BY <2>1 DEF NewName
<1>5. nodes \in Seq(Node) /\ DOMAIN nodes = Dom
  <2>1. \A n \in Node : renamed(n) \in Node
    BY DEF Node
  <2>2. nodes \in [1 .. Len(g.nodes) -> Node]
    BY <1>1, <2>1
  <2> QED
    BY <1>1, <2>2, FunctionIsSeq
<1>6. h.nodes = nodes /\ h.index = Reindexed(nodes) /\ h = [nodes |-> h.nodes, index |-> h.index]
  <2>1. RenamePath(g, old, new).nodes = nodes
    BY DEF RenamePath, Good, Typed
  <2> QED
    BY <2>1 DEF Reindex
<1> HIDE DEF nodes, h
<1>7. \A i, j \in Dom : nodes[i].id = nodes[j].id => i = j
  BY <1>2, <1>4, GoodFacts DEF NewName
<1>8. /\ DOMAIN h.index = {nodes[i].id : i \in Dom}
      /\ \A i \in Dom : h.index[nodes[i].id] = i
  BY <1>5, <1>6, <1>7, ReindexedFacts
<1>9. Good(h)
  <2>1. \A i \in Dom : nodes[i] \in Node
    BY <1>1, <1>5
  <2>2. DOMAIN h.index \subseteq Paths
    BY <1>8, <2>1 DEF Node
  <2>3. h.index \in [DOMAIN h.index -> Nat \ {0}]
    <3>1. h.index = [p \in DOMAIN h.index |-> h.index[p]]
      BY <1>6 DEF Reindexed
    <3>2. \A p \in DOMAIN h.index : h.index[p] \in Nat \ {0}
      BY <1>1, <1>8
    <3> QED
      BY <3>1, <3>2
  <2> QED
    BY <1>5, <1>6, <1>8, <2>2, <2>3 DEF Good, Typed, Exact
<1>10. View(h) = RenameNode(View(g), old, new)
  <2>1. DOMAIN View(g) = {g.nodes[i].id : i \in Dom}
    <3>1. DOMAIN View(g) = DOMAIN g.index
      BY GoodFacts
    <3>2. Exact(g)
      BY DEF Good
    <3> QED
      BY <3>1, <3>2 DEF Exact
  <2>2. DOMAIN View(h) = {NewName(old, new, p) : p \in DOMAIN View(g)}
    <3>1. DOMAIN View(h) = {nodes[i].id : i \in Dom}
      BY <1>8 DEF View
    <3> QED
      BY <1>4, <2>1, <3>1
  <2>3. ASSUME NEW q \in DOMAIN View(h)
        PROVE  View(h)[q] = {NewName(old, new, d) : d \in View(g)[OldName(old, new, q)]}
    <3>1. PICK i \in Dom : q = nodes[i].id
      BY <1>8 DEF View
    <3>2. View(h)[q] = nodes[i].depends_on
      BY <1>5, <1>6, <1>9, <3>1, GoodFacts
    <3>3. OldName(old, new, q) = g.nodes[i].id
      BY <1>2, <1>4, <3>1 DEF NewName, OldName
    <3>4. View(g)[g.nodes[i].id] = g.nodes[i].depends_on
      BY GoodFacts
    <3> QED
      BY <1>4, <3>2, <3>3, <3>4
  <2> QED
    BY <2>2, <2>3 DEF RenameNode, View
<1> QED
  BY <1>9, <1>10 DEF h

(* A sort does not look at the index, and by name it is not visible.       *)
LEMMA NamesIgnoreIndex ==
  ASSUME NEW g
  PROVE  /\ Sorted(g) = Sorted(Reindex(g))
         /\ Sortable(g) = Sortable(Reindex(g))
         /\ ByName(g) = ByName(Reindex(g))
         /\ \A p : Positions(g, p) = Positions(Reindex(g), p)
         /\ \A p, q : RenamePath(g, p, q).nodes = RenamePath(Reindex(g), p, q).nodes
<1>1. Reindex(g).nodes = g.nodes
  BY DEF Reindex
<1>2. ByName(g) = ByName(Reindex(g)) /\ \A p : Positions(g, p) = Positions(Reindex(g), p)
  BY <1>1 DEF ByName, First, Positions
<1>3. Sortable(g) = Sortable(Reindex(g))
  BY <1>2 DEF Sortable
<1>4. SortedOrders(g) = SortedOrders(Reindex(g))
  BY <1>1, <1>2 DEF SortedOrders
<1> QED
  BY <1>1, <1>2, <1>3, <1>4 DEF Sorted, RenamePath

-----------------------------------------------------------------------------
(* The specification.  What is inductive is that the index is safe, and    *)
(* that the graph, with its index or with the one a sort would give it,    *)
(* has a node for each dependency and no cycle.                            *)

Sound(g) == Good(g) /\ Complete(g) /\ Acyclic(View(g))

Inv ==
  /\ TypedSafe(mg)
  /\ trust \in {"index", "names", "nothing"}
  /\ trust = "index" => Sound(mg)
  /\ trust = "names" => Sound(Reindex(mg))

\* What the graph shows by name is what it shows through an exact index.
LEMMA SoundNames ==
  ASSUME Inv
  PROVE  /\ trust = "index" => ByName(mg) = View(mg)
         /\ trust = "names" => ByName(mg) = View(Reindex(mg))
BY ByNameIsView, NamesIgnoreIndex DEF Inv, Sound

LEMMA EmptySound == Sound(Empty)
BY EmptyGood, EmptyGraphAcyclic DEF Sound, Complete, EmptyGraph

\* The node is there before anybody refers to it.
LEMMA IncRefComplete ==
  ASSUME NEW g, \A p \in DOMAIN g : g[p] \subseteq DOMAIN g,
         NEW r \in Paths, NEW t \in Paths
  PROVE  LET h == IncRef(AddNode(g, t), r, t)
         IN  \A p \in DOMAIN h : h[p] \subseteq DOMAIN h
BY DEF IncRef, AddNode, AddEdge, Parents

LEMMA SoundReference ==
  ASSUME NEW g, Sound(g), NEW p \in Paths, NEW t \in Paths
  PROVE  LET h == AddRef(AddNodeIfNone(g, t), p, t)
         IN  Sound(h) /\ View(h) = IncRef(AddNode(View(g), t), p, t)
<1> DEFINE k == AddNodeIfNone(g, t)
           h == AddRef(k, p, t)
<1>1. Good(k) /\ View(k) = AddNode(View(g), t)
  BY AddNodeGood DEF Sound
<1>2. Good(h) /\ View(h) = IncRef(AddNode(View(g), t), p, t)
  BY <1>1, AddRefGood
<1>3. Complete(h)
  BY <1>2, IncRefComplete DEF Sound, Complete
<1>4. Acyclic(View(h))
  BY <1>1, <1>2, GoodFacts, AddNodeAcyclic, IncRefAcyclic DEF Sound
<1> QED
  BY <1>2, <1>3, <1>4 DEF Sound

LEMMA SoundRemove ==
  ASSUME NEW g, Sound(g), NEW p \in Paths
  PROVE  LET h == Remove(g, p)
         IN  /\ Sound(h)
             /\ View(h) = IF p \in DOMAIN View(g) THEN RemoveNode(View(g), p) ELSE View(g)
<1> DEFINE h == Remove(g, p)
<1>1. /\ Good(h)
      /\ View(h) = IF p \in DOMAIN View(g) THEN RemoveNode(View(g), p) ELSE View(g)
  BY RemoveGood DEF Sound
<1>2. Complete(h)
  BY <1>1 DEF Sound, Complete, RemoveNode
<1>3. Acyclic(View(h))
  BY <1>1, GoodFacts, RemoveNodeAcyclic DEF Sound
<1> QED
  BY <1>1, <1>2, <1>3 DEF Sound

LEMMA SoundSort ==
  ASSUME NEW g, Sound(g), NEW h \in Sorted(g)
  PROVE  Sortable(g) /\ Sound(h) /\ View(h) = View(g)
<1>1. ByName(g) = View(g)
  BY ByNameIsView DEF Sound
<1>2. Sortable(g)
  BY <1>1 DEF Sortable, Sound, Complete
<1>3. Good(h) /\ View(h) = View(g)
  BY <1>2, SortedGood DEF Sound
<1> QED
  BY <1>2, <1>3 DEF Sound, Complete

LEMMA SoundRename ==
  ASSUME NEW g, Sound(g), NEW old \in Paths, NEW new \in Paths, Positions(g, new) = {}
  PROVE  LET h == Reindex(RenamePath(g, old, new))
         IN  /\ Sound(h)
             /\ View(h) = RenameNode(View(g), old, new)
             /\ new \notin DOMAIN View(g)
             /\ old \notin DOMAIN View(g) => View(h) = View(g)
<1> DEFINE h == Reindex(RenamePath(g, old, new))
<1>1. Good(h) /\ View(h) = RenameNode(View(g), old, new)
  BY RenameGood DEF Sound
<1>2. new \notin DOMAIN View(g)
  BY GoodFacts DEF Positions, Sound, Good, Exact
<1>3. /\ Acyclic(View(h))
      /\ \A q \in DOMAIN View(h) : View(h)[q] \subseteq DOMAIN View(h)
  <2>1. WithinPaths(View(g)) /\ \A q \in DOMAIN View(g) : View(g)[q] \subseteq DOMAIN View(g)
    BY GoodFacts DEF Sound, Complete
  <2> QED
    BY <1>1, <1>2, <2>1, RenameNodeAcyclic DEF Sound
<1>4. ASSUME old \notin DOMAIN View(g) PROVE View(h) = View(g)
  <2> DEFINE v == View(g)
  <2>1. \A q \in DOMAIN v : v[q] \subseteq DOMAIN v
    BY DEF Sound, Complete
  <2>2. v = [q \in DOMAIN v |-> v[q]]
    BY DEF View
  <2> HIDE DEF v
  <2>3. {NewName(old, new, p) : p \in DOMAIN v} = DOMAIN v
    BY <1>4 DEF NewName, v
  <2>4. ASSUME NEW q \in DOMAIN v
        PROVE  {NewName(old, new, d) : d \in v[OldName(old, new, q)]} = v[q]
    <3>1. OldName(old, new, q) = q
      BY <1>2 DEF OldName, v
    <3>2. \A d \in v[q] : NewName(old, new, d) = d
      BY <1>4, <2>1 DEF NewName, v
    <3> QED
      BY <3>1, <3>2
  <2>5. RenameNode(v, old, new) = v
    BY <2>2, <2>3, <2>4 DEF RenameNode
  <2> QED
    BY <1>1, <2>5 DEF v
<1> QED
  BY <1>1, <1>2, <1>3, <1>4 DEF Sound, Complete

-----------------------------------------------------------------------------
(* Each action keeps the invariant, and does to the graph, seen by name,   *)
(* what the action of the dependency map of the same name does.            *)

LEMMA InvInit == Init => Inv
BY EmptySafe, EmptySound DEF Init, Inv

LEMMA ReferenceInv ==
  ASSUME Inv, NEW p \in Paths, NEW t \in Paths, Reference(p, t)
  PROVE  /\ Inv'
         /\ trust' = IF trust = "index" THEN "index" ELSE "nothing"
         /\ trust = "index" =>
              ByName(mg)' = IncRef(AddNode(ByName(mg), t), p, t)
<1> DEFINE h == AddRef(AddNodeIfNone(mg, t), p, t)
<1>1. mg' = h /\ trust' = IF trust = "index" THEN "index" ELSE "nothing"
  BY DEF Reference, AfterUpdate
<1>2. TypedSafe(h)
  BY AddNodeSafe, AddRefSafe DEF Inv
<1>3. trust = "index" => Sound(h) /\ View(h) = IncRef(AddNode(View(mg), t), p, t)
  BY SoundReference DEF Inv
<1> HIDE DEF h
<1>4. Inv'
  BY <1>1, <1>2, <1>3 DEF Inv
<1>5. trust = "index" => ByName(h) = View(h) /\ ByName(mg) = View(mg)
  BY <1>3, ByNameIsView DEF Inv, Sound
<1> QED
  BY <1>1, <1>3, <1>4, <1>5

LEMMA RemovePathInv ==
  ASSUME Inv, NEW p \in Paths, RemovePath(p)
  PROVE  /\ Inv'
         /\ trust' = IF trust = "index" THEN "index" ELSE "nothing"
         /\ trust = "index" =>
              ByName(mg)' = IF p \in DOMAIN ByName(mg) THEN RemoveNode(ByName(mg), p)
                            ELSE ByName(mg)
<1> DEFINE h == Remove(mg, p)
<1>1. mg' = h /\ trust' = IF trust = "index" THEN "index" ELSE "nothing"
  BY DEF RemovePath, AfterUpdate
<1>2. TypedSafe(h)
  BY RemoveSafe DEF Inv
<1>3. trust = "index" =>
        /\ Sound(h)
        /\ View(h) = IF p \in DOMAIN View(mg) THEN RemoveNode(View(mg), p) ELSE View(mg)
  BY SoundRemove DEF Inv
<1> HIDE DEF h
<1>4. Inv'
  BY <1>1, <1>2, <1>3 DEF Inv
<1>5. trust = "index" => ByName(h) = View(h) /\ ByName(mg) = View(mg)
  BY <1>3, ByNameIsView DEF Inv, Sound
<1> QED
  BY <1>1, <1>3, <1>4, <1>5

LEMMA RenameInv ==
  ASSUME Inv, NEW old \in Paths, NEW new \in Paths, Rename(old, new)
  PROVE  /\ Inv'
         /\ trust' = "nothing" <=> trust = "nothing"
         /\ trust # "nothing" =>
              /\ new \notin DOMAIN ByName(mg)
              /\ ByName(mg)' = IF old \in DOMAIN ByName(mg)
                               THEN RenameNode(ByName(mg), old, new)
                               ELSE ByName(mg)
<1> DEFINE h == RenamePath(mg, old, new)
<1>1. /\ mg' = h
      /\ trust' = IF trust = "index" /\ mg' # mg THEN "names" ELSE trust
      /\ Positions(mg, new) = {}
  BY DEF Rename
<1>2. TypedSafe(h)
  BY RenameSafe DEF Inv
<1>3. Reindex(h) = Reindex(RenamePath(Reindex(mg), old, new))
  BY NamesIgnoreIndex DEF Reindex
<1>4. ASSUME NEW g, g = mg \/ g = Reindex(mg), Sound(g)
      PROVE  /\ Sound(Reindex(h))
             /\ new \notin DOMAIN ByName(mg)
             /\ ByName(h) = IF old \in DOMAIN ByName(mg) THEN RenameNode(ByName(mg), old, new)
                            ELSE ByName(mg)
  <2>1. Positions(g, new) = {}
    BY <1>1, <1>4, NamesIgnoreIndex
  <2>2. Reindex(h) = Reindex(RenamePath(g, old, new))
    BY <1>3, <1>4
  <2>3. /\ Sound(Reindex(h))
        /\ View(Reindex(h)) = RenameNode(View(g), old, new)
        /\ new \notin DOMAIN View(g)
        /\ old \notin DOMAIN View(g) => View(Reindex(h)) = View(g)
    BY <1>4, <2>1, <2>2, SoundRename
  <2>4. ByName(mg) = View(g)
    BY <1>4, ByNameIsView, NamesIgnoreIndex DEF Sound
  <2>5. ByName(h) = View(Reindex(h))
    BY <2>3, ByNameIsView, NamesIgnoreIndex DEF Sound
  <2> QED
    BY <2>3, <2>4, <2>5
<1> HIDE DEF h
<1>5. trust # "nothing" =>
        /\ Sound(Reindex(h))
        /\ new \notin DOMAIN ByName(mg)
        /\ ByName(h) = IF old \in DOMAIN ByName(mg) THEN RenameNode(ByName(mg), old, new)
                       ELSE ByName(mg)
  <2>1. CASE trust = "index"
    BY <1>4, <2>1 DEF Inv
  <2>2. CASE trust = "names"
    BY <1>4, <2>2 DEF Inv
  <2> QED
    BY <2>1, <2>2 DEF Inv
<1>6. Inv'
  BY <1>1, <1>2, <1>5 DEF Inv
<1> QED
  BY <1>1, <1>5, <1>6

LEMMA EmptyInv ==
  ASSUME mg' = Empty, trust' = "index"
  PROVE  Inv' /\ ByName(mg)' = EmptyGraph
<1>1. ByName(Empty) = EmptyGraph
  BY EmptyGood, ByNameIsView
<1> QED
  BY <1>1, EmptySafe, EmptySound DEF Inv

LEMMA SortInv ==
  ASSUME Inv, Sort
  PROVE  /\ Inv'
         /\ trust # "nothing" => trust' = "index" /\ ByName(mg)' = ByName(mg)
         /\ trust = "nothing" => trust' = "nothing" \/ ByName(mg)' = EmptyGraph
<1>1. mg' \in Sorted(mg) /\ TypedSafe(mg')
  BY SortedSafe DEF Sort, Inv
<1>2. CASE trust = "nothing"
  <2>1. CASE Sortable(mg)
    BY <1>1, <1>2, <2>1 DEF Sort, Inv
  <2>2. CASE ~Sortable(mg)
    BY <1>1, <1>2, <2>2, EmptyInv DEF Sort, Sorted
  <2> QED
    BY <2>1, <2>2
<1>3. CASE trust # "nothing"
  <2> DEFINE g == IF trust = "index" THEN mg ELSE Reindex(mg)
  <2>1. Sound(g) /\ ByName(mg) = View(g)
    BY <1>3, SoundNames DEF Inv
  <2>2. mg' \in Sorted(g)
    BY <1>1, NamesIgnoreIndex
  <2>3. Sound(mg') /\ View(mg') = View(g)
    BY <2>1, <2>2, SoundSort
  <2>4. trust' = "index"
    BY <1>3 DEF Sort
  <2>5. ByName(mg') = View(mg')
    BY <2>3, ByNameIsView DEF Sound
  <2> QED
    BY <1>1, <1>3, <2>1, <2>3, <2>4, <2>5 DEF Inv
<1> QED
  BY <1>2, <1>3

LEMMA InvNext ==
  ASSUME Inv, [Next]_vars
  PROVE  Inv'
<1>1. ASSUME NEW p \in Paths, NEW t \in Paths, Reference(p, t) PROVE Inv'
  BY <1>1, ReferenceInv
<1>2. ASSUME NEW p \in Paths, RemovePath(p) PROVE Inv'
  BY <1>2, RemovePathInv
<1>3. ASSUME NEW r \in Renames, Rename(r[1], r[2]) PROVE Inv'
  BY <1>3, RenameInv, RenamesAssumption
<1>4. CASE Sort
  BY <1>4, SortInv
<1>5. CASE Initialize
  BY <1>5, EmptyInv DEF Initialize
<1>6. CASE UNCHANGED vars
  BY <1>6 DEF Inv, vars
<1> QED
  BY <1>1, <1>2, <1>3, <1>4, <1>5, <1>6 DEF Next

LEMMA Invariance == Spec => []Inv
<1>1. Inv /\ [Next]_vars => Inv'
  BY InvNext
<1> QED
  BY <1>1, InvInit, PTL DEF Spec

(* Whatever is renamed, `get_node' never indexes past the vector, and no   *)
(* two paths share a slot ...                                              *)
THEOREM GraphTypeCorrect == Spec => []TypeOK
<1>1. Inv => TypeOK
  BY DEF Inv, TypedSafe, Typed, Safe, TypeOK
<1> QED
  BY <1>1, Invariance, PTL

(* ... and `index' finds every node of `graph' under its own path, however *)
(* many modules there are, when a rename is followed by a sort.            *)
THEOREM IndexAlwaysExact == Spec => []IndexExact
<1>1. Inv => IndexExact
  BY DEF Inv, Sound, Good, Exact, IndexExact
<1> QED
  BY <1>1, Invariance, PTL

(* inc_ref's check on one edge at a time keeps the whole graph acyclic.    *)
THEOREM GraphNeverCyclic == Spec => []NoCycle
<1>1. Inv => NoCycle
  BY SoundNames DEF Inv, Sound, NoCycle
<1> QED
  BY <1>1, Invariance, PTL

(* Every dependency listed by a node has a node, through any removal and   *)
(* any renaming.                                                           *)
THEOREM DependenciesKept == Spec => []DepsHaveNodes
<1>1. ASSUME NEW g, Sound(g), NEW i \in DOMAIN g.nodes, NEW t \in g.nodes[i].depends_on
      PROVE  \E j \in DOMAIN g.nodes : g.nodes[j].id = t
  <2>1. Good(g) /\ g.nodes[i].id \in DOMAIN View(g)
        /\ t \in View(g)[g.nodes[i].id] /\ DOMAIN View(g) = DOMAIN g.index
    BY <1>1, GoodFacts DEF Sound, Good, Exact
  <2>2. t \in DOMAIN g.index
    BY <1>1, <2>1 DEF Sound, Complete
  <2> QED
    BY <2>1, <2>2 DEF Good, Exact
<1>2. Inv => DepsHaveNodes
  <2> SUFFICES ASSUME Inv, trust # "nothing",
                      NEW i \in DOMAIN mg.nodes, NEW t \in mg.nodes[i].depends_on
               PROVE  \E j \in DOMAIN mg.nodes : mg.nodes[j].id = t
    BY DEF DepsHaveNodes
  <2> DEFINE g == IF trust = "index" THEN mg ELSE Reindex(mg)
  <2>1. Sound(g) /\ g.nodes = mg.nodes
    BY DEF Inv, Reindex
  <2> HIDE DEF g
  <2> QED
    BY <1>1, <2>1
<1> QED
  BY <1>2, Invariance, PTL

(* `sort', which leaves an empty graph behind when it fails, never fails.  *)
THEOREM SortNeverFails == Spec => SortLosesNothing
<1>1. Inv => [trust # "nothing" /\ Sort => ByName(mg)' = ByName(mg)]_vars
  BY SortInv
<1> QED
  BY <1>1, Invariance, PTL DEF SortLosesNothing

-----------------------------------------------------------------------------
(* Refinement *)

LEMMA SameIncRef ==
  ASSUME NEW g, NEW r, NEW t
  PROVE  Abstract!IncRef(g, r, t) = IncRef(g, r, t)
BY DEF Abstract!IncRef, Abstract!Refused, Abstract!DeepDependsOn, Abstract!Ancestors,
       Abstract!Closed, Abstract!Parents, Abstract!AddNode, Abstract!AddEdge,
       IncRef, Refused, DeepDependsOn, Ancestors, Closed, Parents, AddNode, AddEdge

LEMMA SameRename ==
  ASSUME NEW g, NEW p, NEW q
  PROVE  Abstract!RenameNode(g, p, q) = RenameNode(g, p, q)
BY DEF Abstract!RenameNode, Abstract!NewName, Abstract!OldName, RenameNode, NewName, OldName

(* The vector of nodes implements the dependency map: every operation is   *)
(* one of the map's or changes nothing, except that an update of a graph   *)
(* that was renamed and not sorted loses the map.                          *)
THEOREM GraphImplementsMap == Spec => ImplementsDependencyGraph
<1> DEFINE map == IF trust = "nothing" THEN EmptyGraph ELSE ByName(mg)
<1>1. Init => Abstract!Init
  BY EmptyGood, ByNameIsView DEF Init, Abstract!Init, Abstract!EmptyGraph, EmptyGraph
<1>2. Inv /\ [Next]_vars => [Abstract!Next]_map
  <2> SUFFICES ASSUME Inv, [Next]_vars
               PROVE  Abstract!Next \/ map' = map
    OBVIOUS
  <2>1. ASSUME NEW p \in Paths, NEW t \in Paths, Reference(p, t)
        PROVE  Abstract!Reference(p, t) \/ Abstract!Clear \/ map' = map
    <3>1. CASE trust = "index"
      BY <2>1, <3>1, ReferenceInv, SameIncRef
      DEF Abstract!Reference, Abstract!AddNode, Abstract!Parents, AddNode, Parents
    <3>2. CASE trust # "index"
      BY <2>1, <3>2, ReferenceInv DEF Abstract!Clear, Abstract!EmptyGraph, EmptyGraph
    <3> QED
      BY <3>1, <3>2
  <2>2. ASSUME NEW p \in Paths, RemovePath(p)
        PROVE  Abstract!Drop(p) \/ Abstract!Clear \/ map' = map
    <3>1. CASE trust = "index"
      BY <2>2, <3>1, RemovePathInv DEF Abstract!Drop, Abstract!RemoveNode, RemoveNode
    <3>2. CASE trust # "index"
      BY <2>2, <3>2, RemovePathInv DEF Abstract!Clear, Abstract!EmptyGraph, EmptyGraph
    <3> QED
      BY <3>1, <3>2
  <2>3. ASSUME NEW r \in Renames, Rename(r[1], r[2])
        PROVE  Abstract!Rename(r[1], r[2]) \/ map' = map
    <3>1. r[1] \in Paths /\ r[2] \in Paths
      BY RenamesAssumption
    <3>2. CASE trust = "nothing"
      BY <2>3, <3>1, <3>2, RenameInv
    <3>3. CASE trust # "nothing"
      <4>1. map = ByName(mg) /\ map' = ByName(mg)'
        BY <2>3, <3>1, <3>3, RenameInv
      <4>2. /\ r[2] \notin DOMAIN ByName(mg)
            /\ ByName(mg)' = IF r[1] \in DOMAIN ByName(mg)
                             THEN RenameNode(ByName(mg), r[1], r[2]) ELSE ByName(mg)
        BY <2>3, <3>1, <3>3, RenameInv
      <4>3. CASE r[1] \in DOMAIN ByName(mg)
        <5>1. map' = Abstract!RenameNode(map, r[1], r[2])
          BY <4>1, <4>2, <4>3, SameRename
        <5> QED
          BY <4>1, <4>2, <4>3, <5>1 DEF Abstract!Rename
      <4> QED
        BY <4>1, <4>2, <4>3
    <3> QED
      BY <3>2, <3>3
  <2>4. ASSUME Sort
        PROVE  map' = map
    BY <2>4, SortInv DEF Inv
  <2>5. ASSUME Initialize
        PROVE  Abstract!Clear
    BY <2>5, EmptyInv DEF Initialize, Abstract!Clear, Abstract!EmptyGraph, EmptyGraph
  <2>6. CASE UNCHANGED vars
    BY <2>6 DEF vars, ByName, First, Positions
  <2>7. \A r \in Renames : r[1] \in Paths /\ r[2] \in Paths
    BY RenamesAssumption
  <2> QED
    BY <2>1, <2>2, <2>3, <2>4, <2>5, <2>6, <2>7 DEF Next, Abstract!Next
<1> QED
  BY <1>1, <1>2, Invariance, PTL DEF Spec, ImplementsDependencyGraph, Abstract!Spec

=============================================================================
