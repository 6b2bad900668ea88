---------------------------- MODULE CheckedModule -----------------------------
(***************************************************************************)
(* The checks of a lowered module, GenericHIRBuilder::check: side effects  *)
(* first and, when none is out of place, ownership.  A compiler checks one *)
(* module; the shell checks one input after the other, with the ownership  *)
(* checker it had before.                                                  *)
(*                                                                         *)
(* Each checker walks over the module.  The module is not remembered: what *)
(* the walk meets next may be anything that can stand there.  Next to the  *)
(* checkers' own state is what the language means by the program: `env',   *)
(* the variables every scope binds, and `met', the effects in functions.   *)
(*                                                                         *)
(* The checkers are wrong about some programs.  Those stay in, and are     *)
(* told apart: an effect in an instant block on an instant block is        *)
(* "nested" in `met', and `mistaken' has the names of the variables that   *)
(* were moved while the checker knew no such variable, or another one.     *)
(***************************************************************************)
EXTENDS OwnershipChecker, SideEffectChecker

CONSTANTS
  Names,        \* the names variables have
  MaxBlocks,    \* bound on the nesting of blocks, for the side effects
  MaxDepth,     \* bound on the nesting of scopes, for the ownership
  MaxInputs     \* bound on the inputs of the shell

ASSUME BlocksAssumption == MaxBlocks \in Nat \ {0}
ASSUME DepthAssumption == MaxDepth \in Nat \ {0}
ASSUME InputsAssumption == MaxInputs \in Nat

VARIABLES
  phase,        \* "effects" or "ownership": the checker at work
  inputs,       \* how many inputs were checked
  blocks,       \* block_stack of the side effect checker
  effect_errs,  \* has it reported something in this input?
  met,          \* the places of the effects in functions of this input
  owner,        \* the ownership checker
  env,          \* for each of its scopes: the state of the variables bound there
  mistaken      \* the names of which another variable was moved than was meant

effects == <<blocks, effect_errs, met>>
ownership == <<owner, env, mistaken>>
vars == <<phase, inputs, effects, ownership>>

Init ==
  /\ phase = "effects"
  /\ inputs = 0
  /\ blocks = <<"Module">>
  /\ effect_errs = FALSE
  /\ met = {}
  /\ owner = NewChecker
  /\ env = <<[n \in {} |-> "live"]>>
  /\ mistaken = {}

-----------------------------------------------------------------------------
(* Side effects.                                                           *)

Effects == phase = "effects"

EnterBlock ==
  /\ Effects
  /\ \E entered \in DefBlocks \union LambdaBlocks \union AttrBlocks :
       /\ Len(blocks \o entered) <= MaxBlocks
       /\ blocks' = blocks \o entered
  /\ UNCHANGED <<phase, inputs, effect_errs, met, ownership>>

LeaveBlock ==
  /\ Effects
  /\ Len(blocks) > 1
  /\ blocks' = SubSeq(blocks, 1, Len(blocks) - 1)
  /\ UNCHANGED <<phase, inputs, effect_errs, met, ownership>>

(* The subroutine or constant a place belongs to.                          *)
Surrounding == blocks[Max({i \in 1 .. Len(blocks) : blocks[i] # "Instant"})]
InFunction == Surrounding \in {"Func", "ConstFunc", "ConstInstant"}
InstantInInstant ==
  Len(blocks) > 1 /\ blocks[Len(blocks)] = "Instant" /\ blocks[Len(blocks) - 1] = "Instant"
Place == IF InstantInInstant THEN "nested" ELSE "plain"

(* A procedure is called, a mutable object outside touched.                *)
MeetEffect ==
  /\ Effects
  /\ effect_errs' = (effect_errs \/ ~InContextEffectsAllowed(blocks))
  /\ met' = IF InFunction THEN met \union {Place} ELSE met
  /\ UNCHANGED <<phase, inputs, blocks, ownership>>

(* Only an input without errors goes to the ownership checker.             *)
EndEffects ==
  /\ Effects
  /\ Len(blocks) = 1
  /\ \/ /\ ~effect_errs
        /\ phase' = "ownership"
        /\ UNCHANGED <<inputs, effect_errs, met>>
     \/ /\ effect_errs
        /\ inputs < MaxInputs
        /\ inputs' = inputs + 1
        /\ effect_errs' = FALSE
        /\ met' = {}
        /\ UNCHANGED phase
  /\ UNCHANGED <<blocks, ownership>>

-----------------------------------------------------------------------------
(* Ownership.  A variable is "pending" while its definition is checked,    *)
(* then "live" until it is "moved".  The parameters of a lambda and the    *)
(* attributes of a record are bound, but the checker does not define them: *)
(* "unknown" and "attribute".                                              *)

Checking == phase = "ownership" /\ owner.missing = {}

Depth == Len(env)
With(scope, name, state) ==
  [n \in DOMAIN scope \union {name} |-> IF n = name THEN state ELSE scope[n]]
Bind(name, state) == [env EXCEPT ![Depth] = With(@, name, state)]
Fresh(names) == [n \in names |-> "live"]

InRecord == \E name \in DOMAIN env[Depth] : env[Depth][name] = "attribute"

(* The definition of a subroutine, known in its own body.                  *)
EnterSubr ==
  /\ Checking
  /\ Depth < MaxDepth
  /\ ~InRecord
  /\ \E name \in Names \ DOMAIN env[Depth], params \in SUBSET Names :
       /\ owner' = DefineParams(EnterScope(Define(owner, name)), params)
       /\ env' = Append(Bind(name, "live"), Fresh(params))
  /\ UNCHANGED <<phase, inputs, effects, mistaken>>

(* The definition of a variable: the checker defines it before it checks   *)
(* the body, which does not see it.                                        *)
EnterVar ==
  /\ Checking
  /\ Depth < MaxDepth
  /\ ~InRecord
  /\ \E name \in Names \ DOMAIN env[Depth] :
       /\ owner' = EnterScope(Define(owner, name))
       /\ env' = Append(Bind(name, "pending"), Fresh({}))
  /\ UNCHANGED <<phase, inputs, effects, mistaken>>

EnterLambda ==
  /\ Checking
  /\ Depth < MaxDepth
  /\ \E params \in SUBSET Names :
       env' = Append(env, [n \in params |-> "unknown"])
  /\ owner' = EnterScope(owner)
  /\ UNCHANGED <<phase, inputs, effects, mistaken>>

(* An attribute of the record that ends a body: what follows sees it.      *)
Attribute ==
  /\ Checking
  /\ Depth > 1
  /\ \E name \in Names \ DOMAIN env[Depth] : env' = Bind(name, "attribute")
  /\ UNCHANGED <<phase, inputs, effects, owner, mistaken>>

Bound(scope) == [n \in DOMAIN scope |-> IF scope[n] = "pending" THEN "live" ELSE scope[n]]

Leave ==
  /\ Checking
  /\ Depth > 1
  /\ owner' = LeaveScope(owner)
  /\ env' = [SubSeq(env, 1, Depth - 1) EXCEPT ![Depth - 1] = Bound(@)]
  /\ UNCHANGED <<phase, inputs, effects, mistaken>>

(* The scope a name belongs to: a definition does not see itself.          *)
Visible(name) == {i \in 1 .. Depth : name \in DOMAIN env[i] /\ env[i][name] # "pending"}
Home(name) == Max(Visible(name))
State(name) == env[Home(name)][name]

(* The checker does not know the variable that is meant, or knows another  *)
(* one further in, the one that is being defined.                          *)
Mistakes(name) ==
  \/ State(name) \in {"unknown", "attribute"}
  \/ \E i \in Home(name) + 1 .. Depth : name \in DOMAIN env[i]

(* A variable is used.                                                     *)
Use ==
  /\ Checking
  /\ \E name \in Names, place \in Places, isMut \in BOOLEAN :
       /\ Visible(name) # {}
       /\ owner' = CheckAcc(owner, name, place, isMut)
       /\ env' = IF Moves(place, isMut) /\ State(name) = "live"
                 THEN [env EXCEPT ![Home(name)][name] = "moved"] ELSE env
       /\ mistaken' = IF Moves(place, isMut) /\ ~IsDropped(owner, name) /\ Mistakes(name)
                      THEN mistaken \union {name} ELSE mistaken
  /\ UNCHANGED <<phase, inputs, effects>>

(* The errors are taken, the scope of the module stays.                    *)
EndOwnership ==
  /\ Checking
  /\ Depth = 1
  /\ inputs < MaxInputs
  /\ inputs' = inputs + 1
  /\ phase' = "effects"
  /\ owner' = [owner EXCEPT !.errs = {}]
  /\ effect_errs' = FALSE
  /\ met' = {}
  /\ UNCHANGED <<blocks, env, mistaken>>

Next ==
  \/ EnterBlock \/ LeaveBlock \/ MeetEffect \/ EndEffects
  \/ EnterSubr \/ EnterVar \/ EnterLambda \/ Attribute \/ Leave \/ Use \/ EndOwnership

Spec == Init /\ [][Next]_vars

-----------------------------------------------------------------------------
(* An input is rejected for a side effect if and only if a function causes *)
(* one, however deep the blocks are nested, although only two are looked   *)
(* at; except that it is let through, against the note on                  *)
(* in_context_effects_allowed (effectcheck.rs), when every such effect is  *)
(* in an instant block on an instant block.                                *)
EffectsReported ==
  IF met = {"nested"} THEN ~effect_errs ELSE effect_errs <=> met # {}

(* As long as a variable that was moved exists, every use of its name is   *)
(* reported, wherever it was moved and wherever it is used, and also in    *)
(* later inputs, and no other name is (ownercheck.rs, drop and             *)
(* check_if_dropped): until the checker takes a variable of that name for  *)
(* another one.                                                            *)
MovesRemembered ==
  \A name \in Names \ mistaken :
    IsDropped(owner, name) <=> \E i \in Visible(name) : env[i][name] = "moved"

(* The checker panics, having looked for a variable in vain                *)
(* (ownercheck.rs, drop), only over a name of which the program moves a    *)
(* variable the checker did not define, a parameter of a lambda or an      *)
(* attribute of a record, or one that is hidden by its own definition.     *)
MovedIsFound == owner.missing \subseteq mistaken
=============================================================================
