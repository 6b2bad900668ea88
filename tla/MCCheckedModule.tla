--------------------------- MODULE MCCheckedModule ----------------------------
(* An instance of CheckedModule for TLC. *)
EXTENDS CheckedModule, TLC

Symmetry == Permutations(Names)
=============================================================================
