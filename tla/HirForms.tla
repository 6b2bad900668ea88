------------------------------ MODULE HirForms -------------------------------
(***************************************************************************)
(* The HIR that reaches the generator (crates/erg_compiler/hir.rs): the    *)
(* parts an expression has, and which expressions the generator is known   *)
(* to get wrong.  The parts are expressions of the same set, `hir', nested *)
(* to any depth.  Dummy stands where lowering failed, and is not there.    *)
(***************************************************************************)
EXTENDS Integers, SequencesExt

DefinitionKinds == {"subr", "var", "redef", "class", "trait", "import"}
IsValue(hir, e) == e \in hir /\ e.k \notin DefinitionKinds
AreValues(hir, es) == es \in Seq(hir) /\ \A i \in 1 .. Len(es) : IsValue(hir, es[i])
AreDefinitions(hir, es) == es \in Seq(hir) /\ \A i \in 1 .. Len(es) : ~IsValue(hir, es[i])

(* A block is not empty and does not end with a definition (try_reduce_    *)
(* block).  It may end with a type ascription.                             *)
IsBody(hir, b) == b \in Seq(hir) /\ b # <<>> /\ IsValue(hir, Last(b))

IsLambda(hir, e, params) == e \in hir /\ e.k = "lambda" /\ e.params = params

FormedArgs(hir, args) ==
  /\ \A part \in {args.pos, args.var, args.kw, args.kwVar} : AreValues(hir, part)
  /\ Len(args.kwVar) <= 1

FormedFunction(hir, e) ==
  /\ AreValues(hir, e.defaults)
  /\ e.varParams \in BOOLEAN
  /\ e.captured \in Nat
  /\ AreDefinitions(hir, e.guards)     \* the variables of a parameter's pattern
  /\ IsBody(hir, e.body)

(* A guard on an illegal variable is skipped.                              *)
FormedGuard(hir, guard) ==
  CASE guard.k = "bind" -> guard.def \in hir /\ ~IsValue(hir, guard.def)
    [] guard.k = "condition" -> IsValue(hir, guard.cond)
    [] OTHER -> guard.k = "skipped"

FormedArm(hir, arm) ==
  /\ Len(arm.guards) \in Nat
  /\ \A i \in 1 .. Len(arm.guards) : FormedGuard(hir, arm.guards[i])
  /\ IsBody(hir, arm.body)

FormedOperation(hir, e) ==
  CASE e.k \in {"lit", "name", "import"} -> TRUE
    [] e.k = "attr" -> IsValue(hir, e.obj)
    [] e.k \in {"unary", "not", "mutate", "return", "yield", "typeasc"} -> IsValue(hir, e.expr)
    [] e.k = "binop" ->
         IsValue(hir, e.lhs) /\ IsValue(hir, e.rhs) /\ e.op \in {"BINARY_OP", "COMPARE_OP"}
    [] e.k \in {"contains", "andor"} -> IsValue(hir, e.lhs) /\ IsValue(hir, e.rhs)
    [] e.k = "call" -> IsValue(hir, e.obj) /\ FormedArgs(hir, e.args)
    [] e.k = "method" -> IsValue(hir, e.obj) /\ FormedArgs(hir, e.args)
    [] e.k = "index" -> IsValue(hir, e.obj) /\ AreValues(hir, e.args.pos)
    [] e.k = "discard" -> AreValues(hir, e.args)
    [] e.k \in {"list", "tuple", "set", "dict"} -> AreValues(hir, e.elems)
    [] e.k = "listlen" -> IsValue(hir, e.elem) /\ IsValue(hir, e.length)
    [] e.k = "record" -> /\ Len(e.attrs) \in Nat
                         /\ \A i \in 1 .. Len(e.attrs) : IsBody(hir, e.attrs[i])
    [] OTHER -> FALSE

FormedBlocks(hir, e) ==
  CASE e.k = "compound" -> IsBody(hir, e.chunks)
    [] e.k = "lambda" -> FormedFunction(hir, e)
    [] e.k = "subr" -> FormedFunction(hir, e) /\ AreValues(hir, e.decorators)
    [] e.k = "var" -> IsBody(hir, e.body)
    [] e.k = "redef" -> IsBody(hir, e.body) /\ IsValue(hir, e.obj)
    [] e.k = "class" -> AreValues(hir, e.base) /\ e.methods \in Seq(hir)
    [] e.k = "trait" -> e.requires \in Nat
    [] e.k = "if" -> IsValue(hir, e.cond) /\ IsValue(hir, e.then) /\ AreValues(hir, e.else)
    [] e.k = "for" -> IsValue(hir, e.iter) /\ IsLambda(hir, e.body, 1)
    [] e.k = "while" -> IsValue(hir, e.cond) /\ IsLambda(hir, e.body, 0)
    [] e.k = "with" -> IsValue(hir, e.expr) /\ IsLambda(hir, e.body, 1)
    [] e.k = "match" -> /\ IsValue(hir, e.expr)
                        /\ Len(e.arms) \in Nat \ {0}
                        /\ \A i \in 1 .. Len(e.arms) : FormedArm(hir, e.arms[i])
    [] e.k = "assert" -> IsValue(hir, e.cond) /\ AreValues(hir, e.msg) /\ Len(e.msg) <= 1
    [] OTHER -> FALSE

WellFormed(hir) ==
  \A e \in hir : e.wrap \in BOOLEAN /\ (FormedOperation(hir, e) \/ FormedBlocks(hir, e))

Modules(programs, hir) == \A m \in programs : m \in Seq(hir)

-----------------------------------------------------------------------------
(* What the generator gets wrong.  For a type ascription that is a chunk   *)
(* nothing is emitted (emit_chunk); the value of its block is then that of *)
(* the chunk before, if that has one.                                      *)

Mute(b) == \A i \in 1 .. Len(b) : b[i].k = "typeasc"

Leaves(b) ==
  \E i \in 1 .. Len(b) :
    /\ b[i].k \notin DefinitionKinds \union {"typeasc"}
    /\ \A j \in i + 1 .. Len(b) : b[j].k = "typeasc"

(* The blocks whose value is used; emit_if_instr does not count that of a  *)
(* branch.  The blocks of functions and loops.                             *)
ValueBlocks(e) ==
  CASE e.k = "var" -> IF Len(e.body) = 1 THEN {} ELSE {e.body}
    [] e.k = "redef" -> {e.body}
    [] e.k = "record" -> {e.attrs[i] : i \in 1 .. Len(e.attrs)}
    [] e.k = "match" -> {e.arms[i].body : i \in 1 .. Len(e.arms)}
    [] e.k = "with" -> {e.body.body}
    [] OTHER -> {}

BranchBlocks(e) ==
  IF e.k # "if" THEN {}
  ELSE {b.body : b \in {c \in {e.then} \union {e.else[i] : i \in 1 .. Len(e.else)} : c.k = "lambda"}}

Bodies(e) ==
  CASE e.k \in {"lambda", "subr"} -> {e.body}
    [] e.k \in {"for", "while"} -> {e.body.body}
    [] e.k = "class" -> {e.methods}
    [] OTHER -> {}

(* An arm whose last guard does not test leaves the object it matched on   *)
(* the stack (emit_match_pattern), unless it is the last arm.              *)
KeepsObject(arm) == arm.guards = <<>> \/ Last(arm.guards).k # "condition"

(* The count is wrong, and an assertion fails or the generator crashes: a  *)
(* value is missing; a lambda has defaults and a * parameter; ** comes     *)
(* after a keyword or two positional arguments.                            *)
Miscounted(e) ==
  \/ \E b \in ValueBlocks(e) : ~Leaves(b) /\ ~Mute(b)
  \/ e.k = "lambda" /\ e.varParams /\ e.defaults # <<>>
  \/ /\ e.k \in {"call", "method"} /\ e.args.kwVar # <<>>
     /\ IF e.args.kw = <<>> THEN Len(e.args.pos) > 1 ELSE Len(e.args.pos) # 2

(* It depends on what is around: a compound without a value is only wrong  *)
(* as an operand, a block of nothing but ascriptions may cancel the        *)
(* POP_TOP in front of it, and two errors may make up for each other.      *)
Unsure(e) ==
  \/ e.k = "compound" /\ ~Leaves(e.chunks)
  \/ \E b \in ValueBlocks(e) \union BranchBlocks(e) \union Bodies(e) : b # <<>> /\ Mute(b)
  \/ /\ e.k \in {"call", "method"} /\ e.args.kwVar # <<>>
     /\ e.args.kw # <<>> /\ Len(e.args.pos) = 2

(* The count is right, but the machine finds something else on its stack:  *)
(* no value of a branch; the object of an arm; the decorators of a         *)
(* function above its defaults or its closure; * arguments among others    *)
(* they are not merged with.                                               *)
Misplaced(e) ==
  \/ \E b \in BranchBlocks(e) : ~Leaves(b)
  \/ e.k = "match" /\ \E i \in 1 .. Len(e.arms) - 1 : KeepsObject(e.arms[i])
  \/ e.k = "subr" /\ e.decorators # <<>> /\ (e.defaults # <<>> \/ e.captured # 0)
  \/ e.k = "call" /\ e.args.var # <<>> /\ (e.args.kw # <<>> \/ e.args.kwVar # <<>>)
  \/ e.k = "method" /\ (e.args.var # <<>> \/ e.args.kwVar # <<>>)

Flaws(e) ==
  {flaw \in {"miscounted", "unsure", "misplaced"} :
     \/ flaw = "miscounted" /\ Miscounted(e)
     \/ flaw = "unsure" /\ Unsure(e)
     \/ flaw = "misplaced" /\ Misplaced(e)}
=============================================================================
