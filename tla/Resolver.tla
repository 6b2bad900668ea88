------------------------------ MODULE Resolver ------------------------------
(***************************************************************************)
(* Dependency resolution of a package: GenericPackageBuilder::resolve,     *)
(* check_import and register (crates/erg_compiler/build_package.rs).       *)
(*                                                                         *)
(* The builder walks the import expressions of the root depth-first, in    *)
(* the order of the text, parsing each module the first time it is met.    *)
(* An import the module graph refuses (it would close a cycle) is an error *)
(* that travels up the recursion to the module it names; every module it   *)
(* passes is not analysed on its own but inlined into its importer: the    *)
(* import expression is replaced by the module's AST.                      *)
(*                                                                         *)
(* The recursion is an explicit stack of frames, innermost first.          *)
(***************************************************************************)
EXTENDS Integers, Sequences, DepGraph

CONSTANTS
  Root,          \* the module being built
  Projects,      \* the projects considered, see ASSUME
  NoPath

ASSUME RootAssumption == Root \in Paths
ASSUME NoPathAssumption == NoPath \notin Paths

\* What each module imports, in the order of its text; the package it is in, under
\* the name of its entry module (foo/__init__.er for foo/bar.er), NoPath being the
\* package under construction; and the modules `parse' returns no AST for.
Layout == [imports : [Paths -> Seq(Paths)],
           package : [Paths -> Paths \cup {NoPath}],
           unparsed : SUBSET Paths]

ASSUME ProjectsAssumption == Projects \subseteq Layout

VARIABLES
  project,      \* the project being built: resolution never changes it
  graph,        \* shared.graph, as its users see it
  asts,         \* the modules parsed and waiting to be analysed
  inlines,      \* inlined module -> the module it is inlined into
  inlinedAt,    \* <<m, i>>: import i of m was replaced by the module's AST
  cyclic,       \* modules that broke a cycle
  stack,        \* the frames of resolve(), innermost first
  resolveErrs   \* what resolve() of the root returned

resolveVars ==
  <<project, graph, asts, inlines, inlinedAt, cyclic, stack, resolveErrs>>

-----------------------------------------------------------------------------
(* A module that has no AST is given an empty one. *)
Body(m) == IF m \in project.unparsed THEN <<>> ELSE project.imports[m]

\* The package an import of p by `from' drags in: `foo' for "foo/bar" when
\* `from' is not in foo itself.
PackageRoot(from, p) ==
  IF project.package[p] \in {project.package[from], p} THEN NoPath
  ELSE project.package[p]

Frame(m, via) ==
  [mod |-> m, via |-> via, next |-> 1, packageDone |-> FALSE, errs |-> {}]

Top == Head(stack)
Pushed(frame, below) == <<frame, below>> \o Tail(stack)

NextImport(frame) == [frame EXCEPT !.next = @ + 1, !.packageDone = FALSE]

Importing == stack # <<>> /\ Top.next <= Len(Body(Top.mod))
Exhausted == stack # <<>> /\ Top.next > Len(Body(Top.mod))

From == Top.mod
Import == Body(From)[Top.next]
Package == PackageRoot(From, Import)

\* Mutant: the package is registered whether there is one or not.
AlwaysPending == ~Top.packageDone

PackagePending == Package # NoPath /\ ~Top.packageDone

\* Mutants: an import of the module by itself is like any other; a module that
\* was inlined is taken for a new one.
KnownToOthers(p) == p \in DOMAIN inlines \/ p \in asts
KnownByAst(p) == p = From \/ p \in asts

\* The module has been parsed, or is being imported by itself.
Known(p) == p = From \/ p \in DOMAIN inlines \/ p \in asts

Init ==
  /\ project \in Projects
  /\ graph = EmptyGraph
  /\ asts = {}
  /\ inlines = [p \in {} |-> Root]
  /\ inlinedAt = {}
  /\ cyclic = {}
  /\ stack = <<Frame(Root, "root")>>
  /\ resolveErrs = {}

-----------------------------------------------------------------------------
(* register(), first half: "If we import `foo/bar`, we also need to import   *)
(* `foo`".  A refused edge and the errors of resolving foo are dropped.      *)

RegisterPackage ==
  /\ Importing
  /\ PackagePending
  /\ graph' = IncRef(AddNode(AddNode(graph, Import), Package), From, Package)
  /\ LET below == [Top EXCEPT !.packageDone = TRUE]
     IN  stack' = IF Known(Package) \/ Package \in project.unparsed
                  THEN <<below>> \o Tail(stack)
                  ELSE Pushed(Frame(Package, "package"), below)
  /\ UNCHANGED <<project, asts, inlines, inlinedAt, cyclic, resolveErrs>>

(* register(), second half: the import itself. *)

RegisterImport ==
  /\ Importing
  /\ ~PackagePending
  /\ UNCHANGED <<project, asts, inlines, inlinedAt, cyclic, resolveErrs>>

\* The graph refuses the edge: the error names the imported module.
RefuseImport ==
  /\ RegisterImport
  /\ Refused(AddNode(graph, Import), From, Import)
  /\ graph' = IncRef(AddNode(graph, Import), From, Import)
  /\ stack' = <<NextImport([Top EXCEPT !.errs = @ \cup {Import}])>> \o Tail(stack)

AcceptImport ==
  /\ RegisterImport
  /\ ~Refused(AddNode(graph, Import), From, Import)
  /\ graph' = IncRef(AddNode(graph, Import), From, Import)

ImportKnown ==
  /\ AcceptImport
  /\ Known(Import)
  /\ stack' = <<NextImport(Top)>> \o Tail(stack)

\* The module is parsed and its imports are resolved first.
Descend ==
  /\ AcceptImport
  /\ ~Known(Import)
  /\ stack' = Pushed(Frame(Import, "import"), Top)

(* resolve() of an imported module returns to register(). *)

ReturnTo(frame) == stack' = <<frame>> \o Tail(Tail(stack))

ReturnPackage ==
  /\ Exhausted
  /\ Top.via = "package"
  /\ asts' = asts \cup {Top.mod}
  /\ ReturnTo(stack[2])
  /\ UNCHANGED <<project, graph, inlines, inlinedAt, cyclic, resolveErrs>>

ReturnImport ==
  /\ Exhausted
  /\ Top.via = "import"
  /\ Top.errs = {}
  /\ asts' = asts \cup {Top.mod}
  /\ ReturnTo(NextImport(stack[2]))
  /\ UNCHANGED <<project, graph, inlines, inlinedAt, cyclic, resolveErrs>>

\* Mutants: the errors are dropped at the first importer; they are never
\* dropped.
ErrsDropped == {}
ErrsKept == Top.errs

\* The errors that name another module than the importer travel on.
ErrsLeft == Top.errs \ {stack[2].mod}

\* Mutants: the inliner is not recorded; the module itself is.
InlineForgotten(p, importer) == inlines
InlineIntoItself(p, importer) ==
  [q \in DOMAIN inlines \cup {p} |-> IF q = p THEN p ELSE inlines[q]]

Inline(p, importer) ==
  [q \in DOMAIN inlines \cup {p} |-> IF q = p THEN importer ELSE inlines[q]]

\* A module whose resolution failed is inlined into its importer.
ReturnCyclic ==
  /\ Exhausted
  /\ Top.via = "import"
  /\ Top.errs # {}
  /\ LET importer == stack[2].mod
     IN  /\ inlines' = Inline(Top.mod, importer)
         /\ inlinedAt' = inlinedAt \cup {<<importer, stack[2].next>>}
         /\ cyclic' = IF ErrsLeft = {} THEN cyclic \cup {importer} ELSE cyclic
         /\ ReturnTo(NextImport([stack[2] EXCEPT !.errs = @ \cup ErrsLeft]))
  /\ UNCHANGED <<project, graph, asts, resolveErrs>>

\* resolve() of the root returns to build_root().
ReturnRoot ==
  /\ Exhausted
  /\ Top.via = "root"
  /\ stack' = <<>>
  /\ resolveErrs' = Top.errs
  /\ UNCHANGED <<project, graph, asts, inlines, inlinedAt, cyclic>>

Resolve ==
  \/ RegisterPackage
  \/ RefuseImport
  \/ ImportKnown
  \/ Descend
  \/ ReturnPackage
  \/ ReturnImport
  \/ ReturnCyclic
  \/ ReturnRoot

Resolved == stack = <<>>

\* resolve() has returned: nothing is left of this phase.
Idle == Resolved /\ UNCHANGED resolveVars

Next == Resolve \/ Idle

Spec == Init /\ [][Next]_resolveVars /\ WF_resolveVars(Resolve)

=============================================================================
