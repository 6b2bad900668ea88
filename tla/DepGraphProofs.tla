--------------------------- MODULE DepGraphProofs ----------------------------
(***************************************************************************)
(* Facts about reachability in a dependency graph and about the updates    *)
(* that the package builder makes, for graphs of any size.                 *)
(***************************************************************************)
EXTENDS DepGraph, TLAPS

\* Every listed dependency is a path of the build.
WithinPaths(g) ==
  /\ DOMAIN g \subseteq Paths
  /\ \A p \in DOMAIN g : g[p] \subseteq Paths

(* The parents of a path are paths.                                        *)
LEMMA ParentsType ==
  ASSUME NEW g, WithinPaths(g), NEW p
  PROVE  Parents(g, p) \subseteq Paths
BY DEF WithinPaths, Parents

(* `ancestors' computes the least closed set around the parents: it is     *)
(* inside every such set, ...                                              *)
LEMMA AncestorsLeast ==
  ASSUME NEW g, NEW p, NEW S \in SUBSET Paths,
         Parents(g, p) \subseteq S, Closed(g, S)
  PROVE  Ancestors(g, p) \subseteq S
BY DEF Ancestors

(* ... contains the parents ...                                            *)
LEMMA AncestorsHaveParents ==
  ASSUME NEW g, WithinPaths(g), NEW p
  PROVE  Parents(g, p) \subseteq Ancestors(g, p)
BY ParentsType DEF Ancestors

(* ... and is closed.                                                      *)
LEMMA AncestorsClosed ==
  ASSUME NEW g, WithinPaths(g), NEW p
  PROVE  Closed(g, Ancestors(g, p))
<1> SUFFICES ASSUME NEW q \in Ancestors(g, p), NEW t \in Parents(g, q)
             PROVE  t \in Ancestors(g, p)
  BY DEF Closed
<1>1. t \in Paths
  BY ParentsType
<1>2. ASSUME NEW S \in SUBSET Paths, Parents(g, p) \subseteq S, Closed(g, S)
      PROVE  t \in S
  <2>1. q \in S
    BY <1>2 DEF Ancestors
  <2> QED
    BY <1>2, <2>1 DEF Closed
<1> QED
  BY <1>1, <1>2 DEF Ancestors

LEMMA AncestorsType ==
  ASSUME NEW g, NEW p
  PROVE  Ancestors(g, p) \subseteq Paths
BY DEF Ancestors

(* `deep_depends_on' is transitive.                                        *)
LEMMA AncestorsTransitive ==
  ASSUME NEW g, WithinPaths(g), NEW p, NEW q \in Ancestors(g, p)
  PROVE  Ancestors(g, q) \subseteq Ancestors(g, p)
<1>1. Closed(g, Ancestors(g, p))
  BY AncestorsClosed
<1>2. Parents(g, q) \subseteq Ancestors(g, p)
  BY <1>1 DEF Closed
<1> QED
  BY <1>1, <1>2, AncestorsType, AncestorsLeast

(* A graph with fewer edges reaches less.                                  *)
LEMMA AncestorsMonotone ==
  ASSUME NEW g, WithinPaths(g), NEW h,
         \A q \in Paths : Parents(h, q) \subseteq Parents(g, q),
         NEW p \in Paths
  PROVE  Ancestors(h, p) \subseteq Ancestors(g, p)
<1>1. Parents(h, p) \subseteq Ancestors(g, p)
  BY AncestorsHaveParents
<1>2. Closed(h, Ancestors(g, p))
  <2>1. Closed(g, Ancestors(g, p))
    BY AncestorsClosed
  <2> QED
    BY <2>1, AncestorsType DEF Closed
<1> QED
  BY <1>1, <1>2, AncestorsType, AncestorsLeast

LEMMA FewerEdgesAcyclic ==
  ASSUME NEW g, WithinPaths(g), Acyclic(g), NEW h,
         \A q \in Paths : Parents(h, q) \subseteq Parents(g, q)
  PROVE  Acyclic(h)
BY AncestorsMonotone DEF Acyclic, DeepDependsOn

-----------------------------------------------------------------------------
(* The empty graph, and a node without edges.                              *)
LEMMA EmptyGraphAcyclic ==
  WithinPaths(EmptyGraph) /\ Acyclic(EmptyGraph)
<1>1. WithinPaths(EmptyGraph)
  BY DEF WithinPaths, EmptyGraph
<1>2. ASSUME NEW p \in Paths PROVE p \notin Ancestors(EmptyGraph, p)
  <2>1. Parents(EmptyGraph, p) \subseteq {} /\ Closed(EmptyGraph, {})
    BY DEF Parents, EmptyGraph, Closed
  <2> QED
    BY <2>1, AncestorsLeast
<1> QED
  BY <1>1, <1>2 DEF Acyclic, DeepDependsOn

LEMMA AddNodeParents ==
  ASSUME NEW g, NEW p, NEW q
  PROVE  Parents(AddNode(g, p), q) = Parents(g, q)
BY DEF Parents, AddNode

LEMMA AddNodeAcyclic ==
  ASSUME NEW g, WithinPaths(g), Acyclic(g), NEW p \in Paths
  PROVE  WithinPaths(AddNode(g, p)) /\ Acyclic(AddNode(g, p))
<1>1. WithinPaths(AddNode(g, p))
  BY DEF WithinPaths, AddNode, Parents
<1> QED
  BY <1>1, AddNodeParents, FewerEdgesAcyclic

LEMMA RemoveNodeAcyclic ==
  ASSUME NEW g, WithinPaths(g), Acyclic(g), NEW p \in Paths
  PROVE  WithinPaths(RemoveNode(g, p)) /\ Acyclic(RemoveNode(g, p))
<1>1. WithinPaths(RemoveNode(g, p))
  BY DEF WithinPaths, RemoveNode
<1>2. \A q \in Paths : Parents(RemoveNode(g, p), q) \subseteq Parents(g, q)
  BY DEF Parents, RemoveNode
<1> QED
  BY <1>1, <1>2, FewerEdgesAcyclic

(* A graph in which every dependency has a node, renamed to a name no node *)
(* has: the same graph under other names, so still without a cycle.        *)
LEMMA RenameNodeAcyclic ==
  ASSUME NEW g, WithinPaths(g), Acyclic(g),
         \A p \in DOMAIN g : g[p] \subseteq DOMAIN g,
         NEW old \in Paths, NEW new \in Paths, new \notin DOMAIN g
  PROVE  LET h == RenameNode(g, old, new)
         IN  /\ WithinPaths(h) /\ Acyclic(h)
             /\ \A q \in DOMAIN h : h[q] \subseteq DOMAIN h
<1> DEFINE h == RenameNode(g, old, new)
           Name(p) == NewName(old, new, p)
           Old(q) == OldName(old, new, q)
<1>1. /\ DOMAIN h = {Name(p) : p \in DOMAIN g}
      /\ \A q \in DOMAIN h : h[q] = {Name(d) : d \in g[Old(q)]}
  BY DEF RenameNode
<1>2. \A p \in DOMAIN g : Old(Name(p)) = p /\ Name(p) \in Paths
  BY DEF NewName, OldName, WithinPaths
<1>3. \A q \in DOMAIN h : Old(q) \in DOMAIN g /\ Name(Old(q)) = q
  BY <1>1, <1>2
<1> HIDE DEF h, Name, Old
<1>4. \A q \in DOMAIN h : h[q] \subseteq DOMAIN h
  BY <1>1, <1>3
<1>5. WithinPaths(h)
  <2>1. DOMAIN h \subseteq Paths
    BY <1>1, <1>2
  <2> QED
    BY <1>4, <2>1 DEF WithinPaths
<1>6. ASSUME NEW p \in Paths, p \in Ancestors(h, p)
      PROVE  FALSE
  <2>1. Ancestors(h, p) \subseteq DOMAIN h
    <3>1. Parents(h, p) \subseteq DOMAIN h /\ Closed(h, DOMAIN h)
      BY <1>4 DEF Parents, Closed
    <3> QED
      BY <1>5, <3>1, AncestorsLeast DEF WithinPaths
  <2>2. p \in DOMAIN h
    BY <1>6, <2>1
  <2> DEFINE o == Old(p)
             S == {Name(x) : x \in Ancestors(g, o)}
  <2>3. o \in DOMAIN g /\ o \in Paths
    BY <1>3, <2>2 DEF WithinPaths
  <2>4. Ancestors(g, o) \subseteq DOMAIN g
    <3>1. Parents(g, o) \subseteq DOMAIN g /\ Closed(g, DOMAIN g)
      BY DEF Parents, Closed
    <3> QED
      BY <3>1, AncestorsLeast DEF WithinPaths
  <2>5. S \in SUBSET Paths
    BY <1>2, <2>4
  <2>6. Parents(h, p) \subseteq S
    <3>1. Parents(h, p) = {Name(d) : d \in Parents(g, o)}
      BY <1>1, <2>2, <2>3 DEF Parents
    <3> QED
      BY <3>1, AncestorsHaveParents
  <2>7. Closed(h, S)
    <3> SUFFICES ASSUME NEW x \in Ancestors(g, o), NEW t \in Parents(h, Name(x))
                 PROVE  t \in S
      BY DEF Closed
    <3>1. x \in DOMAIN g /\ Name(x) \in DOMAIN h /\ Old(Name(x)) = x
      BY <1>1, <1>2, <2>4
    <3>2. PICK d \in g[x] : t = Name(d)
      BY <1>1, <3>1 DEF Parents
    <3>3. d \in Ancestors(g, o)
      BY <3>1, <3>2, AncestorsClosed DEF Closed, Parents
    <3> QED
      BY <3>2, <3>3
  <2>8. PICK x \in Ancestors(g, o) : p = Name(x)
    BY <1>6, <2>5, <2>6, <2>7, AncestorsLeast
  <2>9. x = o
    BY <1>2, <2>4, <2>8
  <2> QED
    BY <2>3, <2>8, <2>9 DEF Acyclic, DeepDependsOn
<1>7. Acyclic(h)
  BY <1>6 DEF Acyclic, DeepDependsOn
<1> QED
  BY <1>4, <1>5, <1>7 DEF h

(* An edge from r to t closes a cycle only if t already needs r: otherwise *)
(* what a path p reaches afterwards is what it reached before and, if it   *)
(* reached r, t with what t reaches.                                       *)
LEMMA AddEdgeAcyclic ==
  ASSUME NEW g, WithinPaths(g), Acyclic(g),
         NEW r \in DOMAIN g, NEW t \in Paths,
         r # t, ~DeepDependsOn(g, t, r)
  PROVE  WithinPaths(AddEdge(g, r, t)) /\ Acyclic(AddEdge(g, r, t))
<1> DEFINE h == AddEdge(g, r, t)
           Beyond == Ancestors(g, t) \cup {t}
<1>1. WithinPaths(h)
  BY DEF WithinPaths, AddEdge
<1>2. \A q : Parents(h, q) = IF q = r THEN Parents(g, q) \cup {t} ELSE Parents(g, q)
  BY DEF Parents, AddEdge
<1>3. r \notin Beyond
  BY DEF DeepDependsOn
<1>4. Closed(g, Beyond)
  BY AncestorsClosed, AncestorsHaveParents DEF Closed
<1>5. ASSUME NEW p \in Paths, p \in Ancestors(h, p)
      PROVE  FALSE
  <2> DEFINE Around == Ancestors(g, p) \cup {p}
             S == Ancestors(g, p) \cup (IF r \in Around THEN Beyond ELSE {})
  <2>1. Closed(g, Ancestors(g, p)) /\ Parents(g, p) \subseteq Ancestors(g, p)
    BY AncestorsClosed, AncestorsHaveParents
  <2>2. S \in SUBSET Paths
    BY AncestorsType
  <2>3. Parents(h, p) \subseteq S
    BY <1>2, <2>1
  <2>4. Closed(h, S)
    BY <1>2, <1>3, <1>4, <2>1 DEF Closed
  <2>5. p \in S
    BY <1>5, <2>2, <2>3, <2>4, AncestorsLeast
  <2>6. r \in Around /\ p \in Beyond
    BY <2>5 DEF Acyclic, DeepDependsOn
  <2>7. Ancestors(g, p) \subseteq Beyond
    BY <2>6, AncestorsTransitive
  <2> QED
    BY <1>3, <2>6, <2>7
<1> QED
  BY <1>1, <1>5 DEF Acyclic, DeepDependsOn

(* `inc_ref' leaves no cycle whatever it is asked to add: "returns Err if  *)
(* this operation makes a cycle".                                          *)
THEOREM IncRefAcyclic ==
  ASSUME NEW g, WithinPaths(g), Acyclic(g), NEW r \in Paths, NEW t \in Paths
  PROVE  WithinPaths(IncRef(g, r, t)) /\ Acyclic(IncRef(g, r, t))
<1> DEFINE h == AddNode(g, r)
<1>1. WithinPaths(h) /\ Acyclic(h)
  BY AddNodeAcyclic
<1>2. r \in DOMAIN h
  BY DEF AddNode
<1>3. CASE r = t \/ Refused(g, r, t)
  BY <1>1, <1>3 DEF IncRef
<1>4. CASE ~(r = t \/ Refused(g, r, t))
  <2>1. ~DeepDependsOn(h, t, r)
    BY <1>4 DEF Refused
  <2>2. WithinPaths(AddEdge(h, r, t)) /\ Acyclic(AddEdge(h, r, t))
    BY <1>1, <1>2, <1>4, <2>1, AddEdgeAcyclic
  <2> QED
    BY <1>4, <2>2 DEF IncRef
<1> QED
  BY <1>3, <1>4

=============================================================================
