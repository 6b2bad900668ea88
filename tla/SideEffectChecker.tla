-------------------------- MODULE SideEffectChecker ---------------------------
(***************************************************************************)
(* The blocks the side effect checker is in and what it allows there,      *)
(* crates/erg_compiler/effectcheck.rs.                                     *)
(***************************************************************************)
EXTENDS Sequences, Integers

BlockKind == {"Func", "ConstFunc", "ConstInstant", "Proc", "Instant", "Module"}

(* The block check_def and check_expr push for a definition, a lambda and  *)
(* an attribute of a record, which is a definition in an instant block.    *)
DefBlocks == {<<"Proc">>, <<"Instant">>, <<"ConstFunc">>, <<"Func">>, <<"ConstInstant">>}
LambdaBlocks == {<<"Proc">>, <<"Func">>}
AttrBlocks == {<<"Instant", "Instant">>, <<"Instant", "ConstInstant">>, <<"Instant", "Func">>,
               <<"Instant", "Proc">>}

\* Mutant: the block around an instant block is not looked at.
LastAllows(blocks) == blocks[Len(blocks)] \in {"Proc", "Instant", "Module"}

InContextEffectsAllowed(blocks) ==
  LET n == Len(blocks) IN
  \/ n = 1
  \/ blocks[n] = "Proc"
  \/ blocks[n] = "Instant" /\ blocks[n - 1] \in {"Proc", "Module", "Instant"}
=============================================================================
