--------------------------- MODULE OwnershipChecker ---------------------------
(***************************************************************************)
(* The state of the ownership checker, crates/erg_compiler/ownercheck.rs:  *)
(*   scopes    path_stack, each path with its entry of `dict'; the entry   *)
(*             of a path that was left is not read before it is reset      *)
(*   errs      the names reported in this input                            *)
(*   missing   the name for which `drop' found no variable, and panicked   *)
(***************************************************************************)
EXTENDS Integers, Sequences, FiniteSetsExt

LocalVars == [alive |-> {}, dropped |-> {}]

NewChecker == [scopes |-> <<LocalVars>>, errs |-> {}, missing |-> {}]

(* What is passed to check_expr for an access: in a block of several       *)
(* chunks it is a chunk of its own and moves nothing, even in the end.     *)
Places ==
  {[ownership |-> "Owned", chunk |-> TRUE], [ownership |-> "Owned", chunk |-> FALSE],
   [ownership |-> "Ref", chunk |-> FALSE]}

LiveIn(local, names) == [local EXCEPT !.alive = @ \union names]

Define(c, name) ==
  [c EXCEPT !.scopes[Len(c.scopes)] = LiveIn(@, {name})]

EnterScope(c) == [c EXCEPT !.scopes = Append(@, LocalVars)]

\* Mutant: the parameters are left out, as those of a lambda are.
NoParams(c, params) == c

DefineParams(c, params) ==
  [c EXCEPT !.scopes[Len(c.scopes)] = LiveIn(@, params)]

LeaveScope(c) == [c EXCEPT !.scopes = SubSeq(@, 1, Len(@) - 1)]

(* check_if_dropped looks for the name in every scope.                     *)
IsDropped(c, name) == \E n \in 1 .. Len(c.scopes) : name \in c.scopes[n].dropped

Alive(c, name) == {n \in 1 .. Len(c.scopes) : name \in c.scopes[n].alive}

\* Mutant: the move is noted where it happens, not where the variable is.
DropHere(c, name) ==
  IF Alive(c, name) = {} THEN [c EXCEPT !.missing = @ \union {name}]
  ELSE [c EXCEPT !.scopes[Max(Alive(c, name))].alive = @ \ {name},
                 !.scopes[Len(c.scopes)].dropped = @ \union {name}]

Drop(c, name) ==
  IF Alive(c, name) = {} THEN [c EXCEPT !.missing = @ \union {name}]
  ELSE [c EXCEPT !.scopes[Max(Alive(c, name))] =
          [alive |-> @.alive \ {name}, dropped |-> @.dropped \union {name}]]

Moves(place, isMut) == isMut /\ place.ownership = "Owned" /\ ~place.chunk

CheckAcc(c, name, place, isMut) ==
  IF IsDropped(c, name) THEN [c EXCEPT !.errs = @ \union {name}]
  ELSE IF Moves(place, isMut) THEN Drop(c, name)
  ELSE c
=============================================================================
