--------------------------- MODULE MCModuleGraph ----------------------------
(* Instances of ModuleGraph for TLC. *)
EXTENDS ModuleGraph, TLC

CONSTANTS a, b, c, d

\* Any file may be renamed to any name.
AnyRename == {r \in Paths \X Paths : r[1] # r[2]}

Symmetry == Permutations(Paths)
=============================================================================
