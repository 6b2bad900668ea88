------------------------------ MODULE DepGraph ------------------------------
(***************************************************************************)
(* Dependency graphs between modules, as the package builder reads them: a *)
(* function from the paths that have a node to the set of paths each of    *)
(* them directly depends on.  ModuleGraph (crates/erg_compiler/module/     *)
(* graph.rs) answers every query of this kind from its vector of nodes;    *)
(* the traversals `deep_depends_on_' and `ancestors_' are depth-first      *)
(* searches with a visited set, and what they compute is reachability,     *)
(* stated here as a least fixed point rather than by recursion.            *)
(*                                                                         *)
(* "Parent" and "ancestor" are used in the sense of the source: if a.er    *)
(* imports b.er then b is a parent of a.                                   *)
(***************************************************************************)
CONSTANT Paths   \* the normalized paths of the modules of a build

\* What a node lists; a path without a node lists nothing.
Parents(g, p) == IF p \in DOMAIN g THEN g[p] ELSE {}

DependsOn(g, p, t) == t \in Parents(g, p)

\* The nodes that import p directly.
Children(g, p) == {c \in DOMAIN g : DependsOn(g, c, p)}

\* S contains whatever its members depend on.
Closed(g, S) == \A q \in S : Parents(g, q) \subseteq S

\* The paths every dependency-closed set around the parents of p contains.
Ancestors(g, p) ==
  LET around == {S \in SUBSET Paths : Parents(g, p) \subseteq S /\ Closed(g, S)}
  IN  {q \in Paths : \A S \in around : q \in S}

DeepDependsOn(g, p, t) == t \in Ancestors(g, p)

Acyclic(g) == \A p \in Paths : ~DeepDependsOn(g, p, p)

-----------------------------------------------------------------------------
(* The updates, each returning the new graph. *)

EmptyGraph == [p \in {} |-> {}]

AddNode(g, p) ==
  [q \in DOMAIN g \cup {p} |-> Parents(g, q)]

AddEdge(g, p, t) ==
  [q \in DOMAIN g |-> IF q = p THEN g[q] \cup {t} ELSE g[q]]

\* Mutant: only the direct dependencies are examined.
RefusedIfDirect(g, referrer, t) ==
  referrer # t /\ DependsOn(AddNode(g, referrer), t, referrer)

\* An edge that would close a cycle is refused.
Refused(g, referrer, t) ==
  referrer # t /\ DeepDependsOn(AddNode(g, referrer), t, referrer)

IncRef(g, referrer, t) ==
  LET h == AddNode(g, referrer)
  IN  IF referrer = t \/ Refused(g, referrer, t) THEN h ELSE AddEdge(h, referrer, t)

\* The node and every edge to it.
RemoveNode(g, p) ==
  [q \in DOMAIN g \ {p} |-> g[q] \ {p}]

\* The node and every edge to it get another name, which no node has.
NewName(old, new, p) == IF p = old THEN new ELSE p
OldName(old, new, q) == IF q = new THEN old ELSE q
RenameNode(g, old, new) ==
  [q \in {NewName(old, new, p) : p \in DOMAIN g} |->
     {NewName(old, new, d) : d \in g[OldName(old, new, q)]}]

=============================================================================
