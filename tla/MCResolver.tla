----------------------------- MODULE MCResolver -----------------------------
(* Instances of Resolver for TLC. *)
EXTENDS ResolverProperties, TLC

CONSTANTS r, a, b, c

\* All modules of a package but the root are alike.
Symmetry == Permutations(Paths \ {Root})

-----------------------------------------------------------------------------
(* Every import structure with lists of at most two modules, in every order; *)
(* one may be the module itself.  Modules the root cannot reach import       *)
(* nothing.                                                                  *)

Lists == {<<>>} \cup {<<p>> : p \in Paths}
         \cup {<<p, q>> : p \in Paths, q \in Paths}

Distinct(l) == \A j, k \in DOMAIN l : l[j] = l[k] => j = k

Edges(i) == [p \in Paths |-> {i[p][k] : k \in DOMAIN i[p]}]

Reached(i) == Ancestors(Edges(i), Root) \cup {Root}

Tidy(i) == \A p \in Paths \ Reached(i) : i[p] = <<>>

AllImports == {i \in [Paths -> {l \in Lists : Distinct(l)}] : Tidy(i)}

-----------------------------------------------------------------------------
(* One package. *)

OnePackage(i) ==
  [imports |-> i, package |-> [p \in Paths |-> NoPath], unparsed |-> {}]

AllProjects == {OnePackage(i) : i \in AllImports}

\* The same, the modules being named in the order in which the root imports them.
NamedProjects ==
  {q \in AllProjects :
     q.imports[r] \in {<<>>, <<r>>, <<a>>, <<a, b>>, <<a, r>>, <<r, a>>}}

\* Those without a cycle, up to the names of the modules: a module imports
\* only later ones.
Later == (r :> {a, b, c}) @@ (a :> {b, c}) @@ (b :> {c}) @@ (c :> {})

AcyclicProjects ==
  {q \in AllProjects : \A p \in Paths : Edges(q.imports)[p] \subseteq Later[p]}

-----------------------------------------------------------------------------
(* Two packages: b is the entry of the other one and c a module of it, which *)
(* may have no AST.                                                          *)

TwoPackages(i, unparsed) ==
  [imports |-> i,
   package |-> (b :> b) @@ (c :> b) @@ [p \in Paths |-> NoPath],
   unparsed |-> unparsed]

\* The other package knows nothing of the one being built.
OneWay ==
  {i \in AllImports : \A p \in {b, c} : \A k \in DOMAIN i[p] : i[p][k] \in {b, c}}

OneOrTwoPackages ==
  NamedProjects \cup {TwoPackages(i, u) : i \in OneWay, u \in {{}, {c}}}

\* They are all projects the theorems of ResolverProofs speak of.
ASSUME ApartAssumption == \A q \in Projects : PackagesApart(q)

=============================================================================
