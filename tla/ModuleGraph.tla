---------------------------- MODULE ModuleGraph -----------------------------
(***************************************************************************)
(* The module graph of the compiler, crates/erg_compiler/module/graph.rs.  *)
(*                                                                         *)
(* The graph is a vector of nodes with an index from a path to its         *)
(* position in the vector.  Every query and most updates go through the    *)
(* index, so the graph its users see (View) is only as good as the index.  *)
(* The shared graph sits behind one lock and each operation below runs     *)
(* under it, which is why each is one action.                              *)
(***************************************************************************)
EXTENDS Integers, Sequences, DepGraph

CONSTANTS
  Renames,    \* the pairs <<old, new>> of paths the editor may rename
  MaxNodes,   \* bounds on the length of the vector (model checking only), as
  MaxLost     \* long as it implements a map of dependencies and afterwards

ASSUME RenamesAssumption == Renames \subseteq Paths \X Paths
ASSUME MaxNodesAssumption == MaxNodes \in Nat /\ MaxLost \in Nat

VARIABLES
  mg,     \* [nodes, index], the two fields of `ModuleGraph'
  trust   \* history: "index" as long as the index is that of the vector, "names"
          \* between a rename and the next sort, "nothing" once the graph has
          \* been updated in between, until it is empty again

vars == <<mg, trust>>

Node == [id : Paths, depends_on : SUBSET Paths]

WithDeps(node, D) == [id |-> node.id, depends_on |-> D]

-----------------------------------------------------------------------------
(* Queries *)

\* The graph that get_node, and every query built on it, shows.
View(g) == [p \in DOMAIN g.index |-> g.nodes[g.index[p]].depends_on]

\* The first node of a path in the vector: how the topological sort, which is
\* handed the vector without the index, finds a node.
Positions(g, p) == {i \in DOMAIN g.nodes : g.nodes[i].id = p}
First(g, p) == CHOOSE i \in Positions(g, p) : \A j \in Positions(g, p) : i <= j
ByName(g) ==
  [p \in {g.nodes[i].id : i \in DOMAIN g.nodes} |-> g.nodes[First(g, p)].depends_on]

-----------------------------------------------------------------------------
(* Updates, as functions from a graph to a graph *)

Empty == [nodes |-> <<>>, index |-> [p \in {} |-> 0]]

AddNodeIfNone(g, p) ==
  IF p \in DOMAIN g.index THEN g
  ELSE [nodes |-> Append(g.nodes, [id |-> p, depends_on |-> {}]),
        index |-> [q \in DOMAIN g.index \cup {p} |->
                     IF q = p THEN Len(g.nodes) + 1 ELSE g.index[q]]]

\* Mutant: the last dependency replaces the others.
PushOnlyDep(g, referrer, t) ==
  [nodes |-> [g.nodes EXCEPT ![g.index[referrer]] = WithDeps(@, {t})],
   index |-> g.index]

PushDep(g, referrer, t) ==
  [nodes |-> [g.nodes EXCEPT ![g.index[referrer]] = WithDeps(@, @.depends_on \cup {t})],
   index |-> g.index]

\* Mutant: an edge is refused only if t refers to `referrer' directly.
AddRefDirect(g, referrer, t) ==
  LET h == AddNodeIfNone(g, referrer)
  IN  IF referrer = t \/ DependsOn(View(h), t, referrer) THEN h
      ELSE PushDep(h, referrer, t)

AddRef(g, referrer, t) ==
  LET h == AddNodeIfNone(g, referrer)
  IN  IF referrer = t \/ DeepDependsOn(View(h), t, referrer) THEN h
      ELSE PushDep(h, referrer, t)

\* The vector without position i, and the index after the shift.
WithoutPosition(nodes, i) ==
  [j \in 1 .. Len(nodes) - 1 |-> IF j < i THEN nodes[j] ELSE nodes[j + 1]]

\* Mutants: no position is shifted; every position is.
UnshiftedIndex(index, p) == [q \in DOMAIN index \ {p} |-> index[q]]

AllShiftedIndex(index, p) == [q \in DOMAIN index \ {p} |-> index[q] - 1]

ShiftedIndex(index, p) ==
  [q \in DOMAIN index \ {p} |->
     IF index[q] > index[p] THEN index[q] - 1 ELSE index[q]]

\* Mutant: only the removed node is forgotten.
ForgetNothing(nodes, p) == nodes

\* Every node forgets p.
Forget(nodes, p) ==
  [i \in DOMAIN nodes |-> WithDeps(nodes[i], nodes[i].depends_on \ {p})]

Remove(g, p) ==
  IF p \in DOMAIN g.index
  THEN [nodes |-> Forget(WithoutPosition(g.nodes, g.index[p]), p),
        index |-> ShiftedIndex(g.index, p)]
  ELSE [nodes |-> Forget(g.nodes, p), index |-> g.index]

\* Nodes and edges are renamed; the index is not touched.
RenamePath(g, old, new) ==
  LET renamed(n) ==
        [id |-> IF n.id = old THEN new ELSE n.id,
         depends_on |-> IF old \in n.depends_on
                        THEN (n.depends_on \cup {new}) \ {old}
                        ELSE n.depends_on]
  IN  [g EXCEPT !.nodes = [i \in DOMAIN g.nodes |-> renamed(g.nodes[i])]]

\* Mutant: a sort that never looks ahead in the vector.
SortableInPlace(g) ==
  \A i \in DOMAIN g.nodes :
    g.nodes[i].depends_on \subseteq {g.nodes[j].id : j \in 1 .. i}

\* tsort fails on a dependency without a node and on a cycle.
Sortable(g) ==
  /\ \A p \in DOMAIN ByName(g) : ByName(g)[p] \subseteq DOMAIN ByName(g)
  /\ Acyclic(ByName(g))

\* The orders of the vector in which a node comes after its dependencies.
\* Nodes of one name sort together; which order of independent nodes is found
\* depends on hash order.
SortedOrders(g) ==
  LET Dom == DOMAIN g.nodes
      Before(i, j) ==    \* node i must precede node j
        \/ g.nodes[i].id \in ByName(g)[g.nodes[j].id]
        \/ i < j /\ g.nodes[i].id = g.nodes[j].id
  IN  {o \in [Dom -> Dom] :
         /\ \A i \in Dom : \E k \in Dom : o[k] = i
         /\ \A k, l \in Dom : k < l => o[k] # o[l] /\ ~Before(o[l], o[k])}

\* The index a sort rebuilds; of two nodes with one name the later one wins.
Last(nodes, p) ==
  CHOOSE i \in DOMAIN nodes :
    nodes[i].id = p /\ \A j \in DOMAIN nodes : nodes[j].id = p => j <= i
Reindexed(nodes) ==
  [p \in {nodes[i].id : i \in DOMAIN nodes} |-> Last(nodes, p)]

\* `sort' takes the graph out of its place before sorting it: an error leaves
\* an empty graph behind.
Sorted(g) ==
  IF Sortable(g)
  THEN {LET nodes == [k \in DOMAIN o |-> g.nodes[o[k]]]
        IN  [nodes |-> nodes, index |-> Reindexed(nodes)] : o \in SortedOrders(g)}
  ELSE {Empty}

-----------------------------------------------------------------------------
(* The operations the compiler and the language server perform *)

Init == mg = Empty /\ trust = "index"

AfterUpdate == IF trust = "index" THEN "index" ELSE "nothing"

\* register() enters the imported module, then refers to it.
Reference(referrer, t) ==
  /\ mg' = AddRef(AddNodeIfNone(mg, t), referrer, t)
  /\ trust' = AfterUpdate
  /\ Len(mg'.nodes) <= IF trust' = "nothing" THEN MaxLost ELSE MaxNodes

\* build_deps_and_module() takes a module that has been started.
RemovePath(p) ==
  /\ mg' = Remove(mg, p)
  /\ trust' = AfterUpdate

\* The language server renames a file, to a name no module has, ...
Rename(old, new) ==
  /\ Positions(mg, new) = {}
  /\ mg' = RenamePath(mg, old, new)
  /\ trust' = IF trust = "index" /\ mg' # mg THEN "names" ELSE trust

\* ... lists the files that depend on one (dependencies_of) ...
Sort ==
  /\ mg' \in Sorted(mg)
  /\ trust' = IF Sortable(mg) /\ trust = "nothing" THEN trust ELSE "index"

\* ... and clears everything.
Initialize == mg' = Empty /\ trust' = "index"

Next ==
  \/ \E p, t \in Paths : Reference(p, t)
  \/ \E p \in Paths : RemovePath(p)
  \/ \E r \in Renames : Rename(r[1], r[2])
  \/ Sort
  \/ Initialize

Spec == Init /\ [][Next]_vars

-----------------------------------------------------------------------------
(* Properties *)

(* Type invariant: a vector of nodes and a one-to-one map into its         *)
(* positions, so that `&self.graph[i]' in get_node never panics, whatever  *)
(* is added, removed, renamed or sorted.                                   *)
TypeOK ==
  /\ mg = [nodes |-> mg.nodes, index |-> mg.index]
  /\ mg.nodes \in Seq(Node)
  /\ DOMAIN mg.index \subseteq Paths
  /\ mg.index \in [DOMAIN mg.index -> DOMAIN mg.nodes]
  /\ \A p, q \in DOMAIN mg.index : mg.index[p] = mg.index[q] => p = q
  /\ trust \in {"index", "names", "nothing"}

(* The index finds exactly the nodes of the vector, each under its own     *)
(* path, after any sequence of additions, removals (which shift every      *)
(* later position) and sorts.  A rename leaves it behind: until the next   *)
(* sort it answers for the old path with the renamed node, and an update   *)
(* before that sort may leave two nodes of one name.                       *)
IndexExact ==
  trust = "index" =>
    /\ \A p \in DOMAIN mg.index :
         mg.index[p] \in DOMAIN mg.nodes /\ mg.nodes[mg.index[p]].id = p
    /\ \A i \in DOMAIN mg.nodes :
         mg.nodes[i].id \in DOMAIN mg.index /\ mg.index[mg.nodes[i].id] = i

(* No sequence of references and renames leaves a cycle among the modules: *)
(* inc_ref refuses the edge that would close one.  It may not see it in a  *)
(* graph that has been renamed and not sorted; only then is there a cycle. *)
NoCycle == trust # "nothing" => Acyclic(ByName(mg))

(* Every dependency has a node, renamed with it, so a sort can only fail   *)
(* on a cycle; again unless there was an update between rename and sort.   *)
DepsHaveNodes ==
  trust # "nothing" =>
    \A i \in DOMAIN mg.nodes :
      mg.nodes[i].depends_on \subseteq {mg.nodes[j].id : j \in DOMAIN mg.nodes}

(* Listing the dependents of a file never empties the shared graph, though *)
(* `sort' moves the graph out before it knows whether the sort succeeds,   *)
(* unless there was an update between a rename and the sort.               *)
SortLosesNothing ==
  [][trust # "nothing" /\ Sort => ByName(mg)' = ByName(mg)]_vars

(* The vector with its index implements the dependency map, renames        *)
(* included; an update between a rename and the next sort loses the map.   *)
Abstract == INSTANCE DependencyGraph WITH
  deps <- IF trust = "nothing" THEN EmptyGraph ELSE ByName(mg)
ImplementsDependencyGraph == Abstract!Spec

=============================================================================
