---------------------------- MODULE GeneratedCode -----------------------------
(***************************************************************************)
(* The code CodeGenerator makes of a module, on the machine it is for: a   *)
(* program is compiled for one of the versions of Python, and one of its   *)
(* blocks (the module, a function, a class) runs, taking any branch and    *)
(* going round any loop as often as it likes.  A function that is called   *)
(* returns an object; its own code is another block.                       *)
(***************************************************************************)
EXTENDS CodeGenerator, HirForms

CONSTANTS
  Hir,          \* the expressions of which programs are made
  Programs,     \* modules: sequences of chunks
  PyVersions,   \* the versions compiled for
  NoUnit        \* nothing has been compiled yet

ASSUME VersionAssumption == PyVersions \subseteq Versions

ASSUME HirAssumption == WellFormed(Hir) /\ Modules(Programs, Hir)

-----------------------------------------------------------------------------
VARIABLES
  program,      \* the module to be compiled; <<>> when it has been
  repl,         \* is it an input of the shell?
  py,           \* the version of Python
  gen,          \* the state of the generator; Fresh before and after
  agenda,       \* the steps it has still to do
  flaws,        \* the flaws of the expressions it has met (history)
  unit,         \* the block that runs: its code and its stacksize
  pc,           \* the place of the next instruction in it
  stack,        \* the kinds of the objects on the stack, the top last
  status        \* "hir", "generating", "running", "returned", "raised"

generator == <<program, repl, gen, agenda, flaws>>
machine == <<unit, pc, stack>>
vars == <<generator, py, machine, status>>

Init ==
  /\ program \in Programs
  /\ repl \in BOOLEAN
  /\ py \in PyVersions
  /\ gen = Fresh(py)
  /\ agenda = <<>>
  /\ flaws = {}
  /\ unit = NoUnit
  /\ pc = 1
  /\ stack = <<>>
  /\ status = "hir"

(* CodeGenerator::emit                                                     *)
Begin ==
  /\ status = "hir"
  /\ status' = "generating"
  /\ agenda' = ModuleSteps(program, py, repl)
  /\ program' = <<>>
  /\ UNCHANGED <<repl, py, gen, flaws, machine>>

(* A step that writes an instruction, counts, or fills a jump in.          *)
Emit ==
  /\ status = "generating"
  /\ gen.ok
  /\ agenda # <<>>
  /\ Head(agenda).do \notin Calling
  /\ gen' = Step(gen, Head(agenda))
  /\ agenda' = Tail(agenda)
  /\ UNCHANGED <<program, repl, py, flaws, machine, status>>

(* A call of a handler: its steps come before what is left.                *)
AtCall(kind, steps, found) ==
  /\ status = "generating"
  /\ gen.ok
  /\ agenda # <<>>
  /\ Head(agenda).do = kind
  /\ agenda' = steps \o Tail(agenda)
  /\ flaws' = flaws \union found
  /\ UNCHANGED <<program, repl, py, gen, machine, status>>

EmitExpr == AtCall("expr", ExprSteps(Head(agenda).e), {})
EmitChunk == AtCall("chunk", ChunkSteps(py, Head(agenda).e), Flaws(Head(agenda).e))
EmitSimpleBlock == AtCall("block", BlockSteps(Head(agenda).b), {})
EmitArm == AtCall("arm", ArmSteps(Head(agenda).arm, Head(agenda).isLast), {})
EmitGuard ==
  AtCall("guard", GuardSteps(Head(agenda).arm, Head(agenda).i, Head(agenda).isLast), {})
EmitRequirement == AtCall("requirement", AbstractMethodSteps(py), {})

(* The module is finished; one of its blocks runs.                         *)
Start ==
  /\ status = "generating"
  /\ gen.ok
  /\ agenda = <<>>
  /\ status' = "running"
  /\ \E i \in 1 .. Len(gen.done) : unit' = gen.done[i]
  /\ gen' = Fresh(py)
  /\ repl' = FALSE
  /\ UNCHANGED <<program, py, agenda, flaws, pc, stack>>

-----------------------------------------------------------------------------
(* The machine.                                                            *)

Current == unit.code[pc]

Ready ==
  /\ pc \in 1 .. Len(unit.code)
  /\ Executable(Current)
  /\ HasOperands(stack, Effect(Current, py).needs)

At(ops) == status = "running" /\ Ready /\ Current.op \in ops

Next1 == pc + 1 + InlineCacheEntries(Current.op, py)

Execute ==
  /\ At({Current.op}
        \ (Conditional \union Jumps \union {"FOR_ITER", "RETURN_VALUE", "RAISE_VARARGS"}))
  /\ stack' = After(stack, Effect(Current, py))
  /\ pc' = Next1
  /\ UNCHANGED <<generator, py, unit, status>>

GoOn ==
  /\ At(Conditional)
  /\ stack' = After(stack, Effect(Current, py))
  /\ pc' = pc + 1
  /\ UNCHANGED <<generator, py, unit, status>>

Branch1 ==
  /\ At(Conditional)
  /\ stack' = IF Current.op = "JUMP_IF_OR_POP" THEN stack ELSE After(stack, Effect(Current, py))
  /\ pc' = Target(Current, pc, py)
  /\ UNCHANGED <<generator, py, unit, status>>

JumpTo ==
  /\ At(Jumps)
  /\ pc' = Target(Current, pc, py)
  /\ UNCHANGED <<generator, py, unit, stack, status>>

Iterate ==
  /\ At({"FOR_ITER"})
  /\ \/ /\ stack' = After(stack, Effect(Current, py))
        /\ pc' = pc + 1
     \/ /\ stack' = Front(stack)
        /\ pc' = Target(Current, pc, py)
  /\ UNCHANGED <<generator, py, unit, status>>

Return ==
  /\ At({"RETURN_VALUE"})
  /\ status' = "returned"
  /\ UNCHANGED <<generator, py, machine>>

Raise ==
  /\ At({"RAISE_VARARGS"})
  /\ status' = "raised"
  /\ UNCHANGED <<generator, py, machine>>

Next ==
  \/ Begin \/ Emit \/ EmitExpr \/ EmitChunk \/ EmitSimpleBlock
  \/ EmitArm \/ EmitGuard \/ EmitRequirement \/ Start
  \/ Execute \/ GoOn \/ Branch1 \/ JumpTo \/ Iterate \/ Return \/ Raise

Spec == Init /\ [][Next]_vars

-----------------------------------------------------------------------------
(* Compilation and the run are in step, and a jump never leaves the code   *)
(* of its block (calc_edit_jump, fill_jump).                               *)
CodeTypeOK ==
  /\ status # "hir" => program = <<>>
  /\ status # "generating" => gen = Fresh(py) /\ agenda = <<>>
  /\ repl \in BOOLEAN
  /\ py \in PyVersions
  /\ status \in {"hir", "generating", "running", "returned", "raised"}
  /\ status \in {"hir", "generating"} <=> unit = NoUnit
  /\ unit # NoUnit => pc \in 1 .. Len(unit.code)
  /\ flaws \subseteq {"miscounted", "unsure", "misplaced"}
  /\ \A i \in 1 .. Len(stack) : stack[i] \in Kinds

(* The generator does not end in crash(), and the count it keeps of the    *)
(* stack is one higher after every expression, as its assertions say,      *)
(* unless it met an expression HirForms says it miscounts.                 *)
GenerationSucceeds == flaws \subseteq {"misplaced"} => gen.ok

(* One it miscounts never gets through: some assertion notices it before   *)
(* the code is handed over, wherever in a module the expression is.  An    *)
(* input of the shell is excepted, where the count is reset (emit).        *)
MiscountsNoticed ==
  (status = "generating" /\ agenda = <<>> /\ gen.ok /\ ~repl) => "miscounted" \notin flaws

(* Whatever way it took, the next instruction is one (and not in the midst *)
(* of another's caches) and finds operands of the right kind: the jumps    *)
(* computed for this version of Python lead where the same stack is.  Only *)
(* expressions whose operands HirForms says are misplaced are excepted.    *)
OperandsReady == status = "running" /\ flaws = {} => Ready

(* When a block comes to its end, the value it returns is alone on the     *)
(* stack: nothing was left behind by a branch, a loop or a call.           *)
ResultAlone ==
  (status = "running" /\ pc = Len(unit.code) /\ flaws = {}) => Len(stack) = 1

(* The stack is never higher than the co_stacksize the generator declared, *)
(* but for what enclose_vars does not count: captured variables on their   *)
(* way into a closure, and the closure.                                    *)
Uncounted == {i \in 1 .. Len(stack) : stack[i] \in {"cell", "closure"}}

StackSizeSuffices ==
  (unit # NoUnit /\ flaws = {}) => Len(stack) - Cardinality(Uncounted) <= unit.size
=============================================================================
