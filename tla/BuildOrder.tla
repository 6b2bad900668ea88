----------------------------- MODULE BuildOrder ------------------------------
(***************************************************************************)
(* What building a package without circular imports promises: the modules  *)
(* the root needs are analysed, each once, a module after all it imports,  *)
(* and nothing else is.  PackageBuilder, with its work list, threads and   *)
(* promises, is shown to implement it.                                     *)
(***************************************************************************)
EXTENDS Sequences, DepGraph

CONSTANTS Root, ImportChoices

VARIABLES
  imports,   \* the import lists of the project
  checked    \* the modules analysed so far

ImportGraph == [m \in Paths |-> {imports[m][i] : i \in DOMAIN imports[m]} \ {m}]

Needed == Ancestors(ImportGraph, Root) \cup {Root}

Init == imports \in ImportChoices /\ checked = {}

Check(m) ==
  /\ m \in Needed \ checked
  /\ ImportGraph[m] \subseteq checked
  /\ checked' = checked \cup {m}
  /\ UNCHANGED imports

Next == \E m \in Paths : Check(m)

Spec == Init /\ [][Next]_<<imports, checked>> /\ WF_<<imports, checked>>(Next)
=============================================================================
