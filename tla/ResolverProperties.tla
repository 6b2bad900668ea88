------------------------- MODULE ResolverProperties --------------------------
(***************************************************************************)
(* What dependency resolution guarantees to the execution phase.           *)
(***************************************************************************)
EXTENDS Resolver

\* Who is inlined where, as a graph: inlined module -> its inliner.
InlineGraph == [p \in DOMAIN inlines |-> {inlines[p]}]

\* The modules p's AST ends up nested in.
Enclosing(p) == Ancestors(InlineGraph, p)

ImportSet(m) == {Body(m)[i] : i \in DOMAIN Body(m)}

\* The frames of resolve().
Frames == [mod : Paths, via : {"root", "import", "package"},
           next : Nat \ {0}, packageDone : BOOLEAN, errs : SUBSET Paths]

(* The projects whose packages are apart, for which the strongest results   *)
(* are stated: a package a module drags in has an entry module, and does    *)
(* not need, directly or through others, the module that drags it in.       *)
(* A project of one package is such a project whatever it imports.          *)

Imported(q, m) ==
  IF m \in q.unparsed THEN {} ELSE {q.imports[m][i] : i \in DOMAIN q.imports[m]}

Dragged(q, m) ==
  {q.package[p] : p \in {x \in Imported(q, m) :
                           q.package[x] \notin {q.package[m], x, NoPath}}}

Needs(q) == [m \in Paths |-> (Imported(q, m) \cup Dragged(q, m)) \ {m}]

PackagesApart(q) ==
  \A m \in Paths : \A k \in Dragged(q, m) :
    /\ k # m /\ k \notin q.unparsed
    /\ ~DeepDependsOn(Needs(q), k, m)

(* The projects without circular imports: no module needs itself, there is no *)
(* other package, and a module that yields no AST imports nothing.            *)
Straight(q) ==
  /\ Acyclic(Needs(q))
  /\ \A m \in Paths : Dragged(q, m) = {}
  /\ \A m \in q.unparsed : q.imports[m] = <<>>

(* Type invariant of resolution. *)
ResolverTypeOK ==
  /\ project \in Layout
  /\ DOMAIN graph \subseteq Paths
  /\ \A p \in DOMAIN graph : graph[p] \subseteq Paths
  /\ asts \subseteq Paths
  /\ DOMAIN inlines \subseteq Paths
  /\ \A p \in DOMAIN inlines : inlines[p] \in Paths
  /\ inlinedAt \subseteq Paths \X (Nat \ {0})
  /\ cyclic \subseteq Paths
  /\ resolveErrs \subseteq Paths
  /\ stack \in Seq(Frames)

(* The graph the execution phase schedules from never has a cycle: its     *)
(* work list would rotate forever.                                         *)
GraphAcyclic == Acyclic(graph)

(* build_root's debug_assert: every error raised by a refused import is    *)
(* consumed by the module it names before it reaches the root's caller.    *)
RootResolves == Resolved => resolveErrs = {}

(* "If circular dependencies are found, inline submodules to eliminate the *)
(* circularity": an import that got no edge in the graph is one from a     *)
(* module that is inlined, directly or through others, into the module it  *)
(* imports, which is therefore in scope when it is analysed.               *)
CircularityEliminated ==
  Resolved =>
    \A m \in asts \cup DOMAIN inlines \cup {Root} :
      \A p \in ImportSet(m) \ {m} :
        DependsOn(graph, m, p) \/ p \in Enclosing(m)

(* Every module the graph knows is either waiting to be analysed or inlined *)
(* somewhere, never both and never neither: build_inlined_module's          *)
(* `unreachable!' is unreachable.                                           *)
EveryModuleAccounted ==
  Resolved =>
    /\ asts \cap DOMAIN inlines = {}
    /\ DOMAIN graph \ {Root} = asts \cup DOMAIN inlines

(* Inlining is well founded: following inliners from an inlined module ends *)
(* in a module that is analysed on its own, so its code is analysed.        *)
InliningGrounded ==
  Resolved =>
    /\ Acyclic(InlineGraph)
    /\ \A p \in DOMAIN inlines : Enclosing(p) \cap (asts \cup {Root}) # {}

(* No module is resolved while its own resolution is still in progress: the *)
(* recursion is bounded by the number of modules, and the debug_asserts on  *)
(* `asts.insert' hold.                                                      *)
NoReentry ==
  \A i, j \in DOMAIN stack : stack[i].mod = stack[j].mod => i = j

=============================================================================
