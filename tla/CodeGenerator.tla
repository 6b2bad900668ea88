---------------------------- MODULE CodeGenerator -----------------------------
(***************************************************************************)
(* The generator of Python bytecode (crates/erg_compiler/codegen.rs): from *)
(* HIR to the code of every block, with the bookkeeping it does on the way *)
(* of how high the stack of the Python machine will be.                    *)
(*                                                                         *)
(* An expression is a record of its kind `k', the parts it is made of, and *)
(* `wrap': whether emit_expr passes its value to the constructor of an Erg *)
(* type.  Names, constants and types are left out; so are line numbers.    *)
(* What a handler does is a sequence of steps; the steps still to be done  *)
(* are on an agenda, and a handler it calls puts its own in front.         *)
(*                                                                         *)
(* The state of the generator is a record:                                 *)
(*   py      the Python version                                            *)
(*   code    the code units of the current block                           *)
(*   len     stack_len, size  stacksize                                    *)
(*   outer   the blocks it is in, with the three of each                   *)
(*   frames  the locals of the handlers at work: `len' is init_stack_len,  *)
(*           `base' the one of a loop, `marks' and `ends' places in code   *)
(*   done    the finished blocks                                           *)
(*   ok      it has not crashed and no debug assertion has failed          *)
(***************************************************************************)
EXTENDS Bytecode, SequencesExt

(* Steps that write an instruction or change the count ...                 *)
Put(op, arg) == [do |-> "put", op |-> op, arg |-> arg]   \* write_instr, write_arg, caches
Inc(n)       == [do |-> "inc", n |-> n]                  \* stack_inc_n
Dec(n)       == [do |-> "dec", n |-> n]                  \* stack_dec_n
Const(kind)  == [do |-> "const", kind |-> kind]          \* emit_load_const
Name         == [do |-> "name"]                          \* emit_load_name_instr
PushNull     == [do |-> "null"]                          \* emit_push_null
Store        == [do |-> "store"]                         \* emit_store_instr of a name
PopTop       == [do |-> "pop"]                           \* emit_pop_top
CallInstr(n, op) == [do |-> "call", n |-> n, op |-> op]  \* emit_call_instr
(* ... of a frame: its begin and end, the length it asserts at the end,    *)
(* what a chunk leaves popped, and the last of these POP_TOPs cancelled ...*)
Push         == [do |-> "push"]
Pop          == [do |-> "drop"]
AssertOne    == [do |-> "assert"]                        \* len = init_stack_len + 1
Balance      == [do |-> "balance"]                       \* len := init_stack_len + 1
PopAbove     == [do |-> "popAbove"]                      \* after a chunk
PopOne       == [do |-> "popOne"]                        \* after one of a module
Shell        == [do |-> "shell"]                         \* the value is printed
CancelPopTop == [do |-> "cancel"]                        \* cancel_if_pop_top
Base         == [do |-> "base"]                          \* the body of a loop begins
PopLoop(n)   == [do |-> "popLoop", n |-> n]              \* ... and has ended
(* ... that write a jump and mark its place; and fill it in later ...      *)
Jump(op)     == [do |-> "jump", op |-> op]
JumpToEnd    == [do |-> "jumpToEnd"]
FillTest(i, n)    == [do |-> "fillTest", i |-> i, n |-> n]
FillForward(i, n) == [do |-> "fillForward", i |-> i, n |-> n]
FillBack     == [do |-> "fillBack"]
FillBackTest == [do |-> "fillBackTest"]
FillArm      == [do |-> "fillArm"]
FillEnds     == [do |-> "fillEnds"]
Mark         == [do |-> "mark"]
EditSetup    == [do |-> "editSetup"]
EditForward  == [do |-> "editForward"]
(* ... and those that call a handler, or are a pass of one of its loops.   *)
Expr(e)      == [do |-> "expr", e |-> e]                 \* emit_expr
Chunk(e)     == [do |-> "chunk", e |-> e]                \* emit_chunk
Block(b)     == [do |-> "block", b |-> b]                \* emit_simple_block
Arm(arm, isLast) == [do |-> "arm", arm |-> arm, isLast |-> isLast]
Guard(arm, i, isLast) == [do |-> "guard", arm |-> arm, i |-> i, isLast |-> isLast]
Requirement  == [do |-> "requirement"]
EnterBlock   == [do |-> "enter"]                         \* units.push
LeaveBlock   == [do |-> "leave"]                         \* units.pop

Calling == {"expr", "chunk", "block", "arm", "guard", "requirement"}

-----------------------------------------------------------------------------
(* The block being written.                                                *)

Lasti(g) == 2 * Len(g.code)

\* Mutant: one cache too few after a comparison.
CacheUnitsShort(op, py) ==
  IF py < 11 THEN 0
  ELSE CASE op \in {"BINARY_OP", "PRECALL", "COMPARE_OP"} -> 1
         [] op \in {"CALL", "BINARY_SUBSCR", "LOAD_ATTR", "STORE_ATTR"} -> 4
         [] op = "LOAD_METHOD" -> 10
         [] OTHER -> 0

CacheUnits(op, py) ==
  IF py < 11 THEN 0
  ELSE CASE op \in {"BINARY_OP", "PRECALL"} -> 1
         [] op = "COMPARE_OP" -> 2
         [] op \in {"CALL", "BINARY_SUBSCR", "LOAD_ATTR", "STORE_ATTR"} -> 4
         [] op = "LOAD_METHOD" -> 10
         [] OTHER -> 0

Write(g, op, arg) ==
  [g EXCEPT !.code = @ \o <<[op |-> op, arg |-> arg]>>
     \o [i \in 1 .. CacheUnits(op, g.py) |-> [op |-> "CACHE", arg |-> 0]]]

StackInc(g, n) ==
  [g EXCEPT !.len = @ + n, !.size = IF g.len + n > @ THEN g.len + n ELSE @]

StackDec(g, n) ==
  IF n > g.len THEN [g EXCEPT !.ok = FALSE, !.len = 0] ELSE [g EXCEPT !.len = @ - n]

\* Mutant: a build without debug assertions.
CheckNoLen(g, len) == g

CheckLen(g, len) == [g EXCEPT !.ok = @ /\ g.len = len]

\* Mutant: no room is made for what is not counted.
LoadNameOnly(g) == StackInc(Write(g, "LOAD_NAME", 0), 1)

(* emit_load_name_instr: two more than the stack needs, as a reserve.      *)
LoadName(g) == [StackInc(Write(g, "LOAD_NAME", 0), 1) EXCEPT !.size = @ + 2]

EmitPopTop(g) == StackDec(Write(g, "POP_TOP", 0), 1)

PrecallAndCall(g, argc) ==
  StackDec(Write(Write(g, "PRECALL", argc), "CALL", argc), 1)

EmitCallInstr(g, argc, op) ==
  IF g.py >= 11 THEN PrecallAndCall(g, argc) ELSE Write(g, op, argc)

CancelIfPopTop(g) ==
  IF g.code # <<>> /\ Last(g.code).op = "POP_TOP"
  THEN StackInc([g EXCEPT !.code = Front(@)], 1)
  ELSE g

(* units.push and units.pop in emit_block, emit_class_block and emit.      *)
PushUnit(g) ==
  [g EXCEPT !.outer = Append(@, [code |-> g.code, len |-> g.len, size |-> g.size]),
            !.code = <<>>, !.len = 0, !.size = 2]

PopUnit(g) ==
  LET h == CASE g.len = 0 -> StackInc(Write(g, "LOAD_CONST", "obj"), 1)
             [] g.len = 1 -> g
             [] OTHER -> [g EXCEPT !.ok = FALSE]
      r == Write(h, "RETURN_VALUE", 0)
      up == Last(g.outer)
  IN  [r EXCEPT !.done = Append(@, [code |-> r.code, size |-> r.size]), !.outer = Front(@),
                !.code = up.code, !.len = up.len, !.size = up.size]

-----------------------------------------------------------------------------
(* Jumps.  They are written with an EXTENDED_ARG in front, whose argument  *)
(* is taken with the jump's here; their place is that of the EXTENDED_ARG. *)

Frame(g) == Last(g.frames)
Marked(g, i) == Frame(g).marks[i]

MarkHere(g) == [g EXCEPT !.frames[Len(g.frames)].marks = Append(@, Lasti(g))]

EndHere(g) == [g EXCEPT !.frames[Len(g.frames)].ends = Append(@, Lasti(g))]

WriteJump(g, op) == Write(Write(g, "EXTENDED_ARG", 0), op, 0)

\* Mutant: the argument counts bytes in every version.
JumpArgBytes(g, to) == to

JumpArg(g, to) == IF g.py >= 10 THEN to \div 2 ELSE to

(* fill_jump(idx + 1, to)                                                  *)
FillJump(g, idx, to) == [g EXCEPT !.code[idx \div 2 + 2].arg = JumpArg(g, to)]

(* edit_code(idx + 1, arg): the instruction at idx itself.                 *)
EditCode(g, idx, arg) == [g EXCEPT !.code[idx \div 2 + 1].arg = arg]

(* The target of a test is absolute before 3.11, the end of the code now.  *)
TestTarget(g, idx, n) == Lasti(g) - (IF g.py >= 11 THEN idx + n ELSE 0)

(* Where the arms of a match that did not hold go: behind the jump to the  *)
(* end that follows.                                                       *)
ArmTarget(g, idx) == IF g.py >= 11 THEN Lasti(g) - idx ELSE Lasti(g) + 4

EndTarget(g, idx) == Lasti(g) - idx - 2 - 2

FillAll(g, places, To(_)) ==
  [g EXCEPT !.code = [i \in 1 .. Len(g.code) |->
     IF \E k \in DOMAIN places : i = places[k] \div 2 + 2
     THEN [g.code[i] EXCEPT !.arg = JumpArg(g, To(2 * (i - 2)))]
     ELSE g.code[i]]]

FillMarked(g) ==
  [FillAll(g, Frame(g).marks, LAMBDA idx : ArmTarget(g, idx))
     EXCEPT !.frames[Len(g.frames)].marks = <<>>]

FillToEnd(g) == FillAll(g, Frame(g).ends, LAMBDA idx : EndTarget(g, idx))

JumpStep(g, s) ==
  CASE s.do = "jump" -> WriteJump(MarkHere(g), s.op)
    [] s.do = "mark" -> MarkHere(g)
    [] s.do = "jumpToEnd" -> WriteJump(EndHere(g), "JUMP_FORWARD")
    [] s.do = "fillTest" -> FillJump(g, Marked(g, s.i), TestTarget(g, Marked(g, s.i), s.n))
    [] s.do = "fillForward" -> FillJump(g, Marked(g, s.i), Lasti(g) - Marked(g, s.i) - s.n)
    [] s.do = "fillBack" ->
         FillJump(g, Marked(g, 2),
                  IF g.py >= 11 THEN Lasti(g) - Marked(g, 1) ELSE Marked(g, 1))
    [] s.do = "fillBackTest" ->
         FillJump(g, Marked(g, 2),
                  IF g.py >= 11 THEN Marked(g, 2) + 2 - (Marked(g, 1) + 2) ELSE Marked(g, 1) + 4)
    [] s.do = "fillArm" -> FillMarked(g)
    [] s.do = "fillEnds" -> FillToEnd(g)
    [] s.do = "editSetup" ->
         EditCode(g, Marked(g, 1), (Lasti(g) - Marked(g, 1) - 2) \div 2)
    [] s.do = "editForward" ->
         LET by == Lasti(g) - Marked(g, 2) - 2
         IN  EditCode(g, Marked(g, 2), IF g.py >= 10 THEN by \div 2 ELSE by)

-----------------------------------------------------------------------------
(* One step.                                                               *)

NewFrame(g) == [len |-> g.len, base |-> g.len, marks |-> <<>>, ends |-> <<>>]

FrameStep(g, s) ==
  CASE s.do = "push" -> [g EXCEPT !.frames = Append(@, NewFrame(g))]
    [] s.do = "drop" -> [g EXCEPT !.frames = Front(@)]
    [] s.do = "assert" -> CheckLen(g, Frame(g).len + 1)
    [] s.do = "balance" ->
         IF g.len > Frame(g).len THEN [g EXCEPT !.len = Frame(g).len + 1]
         ELSE [g EXCEPT !.ok = FALSE]
    [] s.do = "popAbove" -> IF g.len > Frame(g).len THEN EmitPopTop(g) ELSE g
    [] s.do = "popOne" -> IF g.len = 1 THEN EmitPopTop(g) ELSE g
    [] s.do = "shell" ->
         [IF g.len = 1 THEN Write(g, "PRINT_EXPR", 0) ELSE g EXCEPT !.len = 0]
    [] s.do = "cancel" -> CancelIfPopTop(g)
    [] s.do = "base" -> [g EXCEPT !.frames[Len(g.frames)].base = g.len]
    [] s.do = "popLoop" ->
         CheckLen(IF g.len > Frame(g).base - s.n THEN EmitPopTop(g) ELSE g, Frame(g).base - s.n)
    [] s.do = "enter" -> PushUnit(g)
    [] s.do = "leave" -> PopUnit(g)

WriteStep(g, s) ==
  CASE s.do = "put"   -> Write(g, s.op, s.arg)
    [] s.do = "inc"   -> StackInc(g, s.n)
    [] s.do = "dec"   -> StackDec(g, s.n)
    [] s.do = "const" -> StackInc(Write(g, "LOAD_CONST", s.kind), 1)
    [] s.do = "name"  -> LoadName(g)
    [] s.do = "null"  -> IF g.py >= 11 THEN StackInc(Write(g, "PUSH_NULL", 0), 1) ELSE g
    [] s.do = "store" -> StackDec(Write(g, "STORE_NAME", 0), 1)
    [] s.do = "pop"   -> EmitPopTop(g)
    [] s.do = "call"  -> EmitCallInstr(g, s.n, s.op)

Writing == {"put", "inc", "dec", "const", "name", "null", "store", "pop", "call"}
Framing == {"push", "drop", "assert", "balance", "popAbove", "cancel", "base", "popLoop",
            "popOne", "shell", "enter", "leave"}

Step(g, s) ==
  IF ~g.ok THEN g
  ELSE CASE s.do \in Writing -> WriteStep(g, s)
         [] s.do \in Framing -> FrameStep(g, s)
         [] OTHER -> JumpStep(g, s)

-----------------------------------------------------------------------------
(* The steps of the handlers.                                              *)

Exprs(es) == [i \in 1 .. Len(es) |-> Expr(es[i])]
Repeat(n, s) == [i \in 1 .. n |-> s]
Each(steps, after) ==
  [i \in 1 .. 2 * Len(steps) |-> IF i % 2 = 1 THEN steps[(i + 1) \div 2] ELSE after]
When(condition, steps) == IF condition THEN steps ELSE <<>>
MaxOf(a, b) == IF a > b THEN a ELSE b
Is311(py) == py >= 11

(* emit_expr: a value of an Erg type is wrapped by a call.  Only the       *)
(* expression of a type ascription is emitted.                             *)
ExprSteps(e) ==
  <<Push>> \o When(e.wrap, <<PushNull, Name>>)
    \o <<IF e.k = "typeasc" THEN Expr(e.expr) ELSE Chunk(e)>>
    \o When(e.wrap, <<CallInstr(1, "CALL_FUNCTION"), Dec(1)>>) \o <<AssertOne, Pop>>

(* emit_simple_block, and the loops of emit_block, emit_control_block,     *)
(* emit_with_block and emit_compound: what a chunk leaves is popped,       *)
(* except by the last one.                                                 *)
Chunks(block, pop) == Each([i \in 1 .. Len(block) |-> Chunk(block[i])], pop)

BlockSteps(block) ==
  When(block # <<>>, <<Push>> \o Chunks(block, PopAbove) \o <<CancelPopTop, Pop>>)

-----------------------------------------------------------------------------
(* Function objects.  A block is written to a unit of its own.             *)

(* emit_block                                                              *)
Nested(start, block) == <<EnterBlock>> \o start \o <<Block(block), LeaveBlock>>

BlockStart(py, cells) ==
  When(Is311(py), <<Put("COPY_FREE_VARS", 0), Put("RESUME", 0)>>
                    \o Repeat(cells, Put("MAKE_CELL", 0)))

(* The variables of the patterns in the parameters are defined first.      *)
GuardDefinitions(e) == [i \in 1 .. Len(e.guards) |-> Chunk(e.guards[i])]

FunctionStart(py, e) == BlockStart(py, e.captured) \o GuardDefinitions(e)

(* emit_params                                                             *)
ParamSteps(defaults, varParams) ==
  When(defaults # <<>>,
    Exprs(defaults)
      \o (IF varParams
          THEN <<Const("obj"), Dec(1), Put("BUILD_CONST_KEY_MAP", Len(defaults))>>
          ELSE <<Put("BUILD_TUPLE", Len(defaults))>>)
      \o <<Dec(Len(defaults) - 1)>>)

(* enclose_vars: the closure is not counted.                               *)
EncloseSteps(captured) ==
  When(captured > 0, Repeat(captured, Put("LOAD_CLOSURE", 0)) \o <<Put("BUILD_CLOSURE", captured)>>)

Flags(e) ==
  (IF e.defaults = <<>> THEN {} ELSE IF e.varParams THEN {"kwdefaults"} ELSE {"defaults"})
    \union (IF e.captured = 0 THEN {} ELSE {"closure"})

MakeFunctionSteps(py, flags) ==
  <<Const("code"), IF Is311(py) THEN Inc(1) ELSE Const("obj"), Put("MAKE_FUNCTION", flags)>>

(* emit_lambda                                                             *)
LambdaSteps(py, e) ==
  ParamSteps(e.defaults, e.varParams) \o Nested(FunctionStart(py, e), e.body)
    \o EncloseSteps(e.captured) \o MakeFunctionSteps(py, Flags(e)) \o <<Dec(1)>>
    \o When("defaults" \in Flags(e), <<Dec(1)>>)

(* emit_subr_def                                                           *)
SubrDefSteps(py, e) ==
  LET n == Len(e.decorators)
      decorate == IF Is311(py) THEN Repeat(n, CallInstr(0, "CALL_FUNCTION"))
                  ELSE Each(Repeat(n, Dec(1)), CallInstr(1, "CALL_FUNCTION"))
  IN  ParamSteps(e.defaults, e.varParams) \o Nested(FunctionStart(py, e), e.body)
        \o EncloseSteps(e.captured) \o Exprs(e.decorators) \o MakeFunctionSteps(py, Flags(e))
        \o decorate \o <<Dec(1)>>
        \o When(e.defaults # <<>>, <<Dec(1)>>) \o <<Store>>

(* emit_var_def                                                            *)
VarDefSteps(e) == <<IF Len(e.body) = 1 THEN Expr(e.body[1]) ELSE Block(e.body), Store>>

(* emit_redef with store_acc                                               *)
ReDefSteps(e) == <<Block(e.body), Expr(e.obj), Put("STORE_ATTR", 0), Dec(1), Dec(1)>>

-----------------------------------------------------------------------------
(* Calls.                                                                  *)

(* emit_var_args_311, emit_var_args_308                                    *)
VarArgSteps(py, n, arg) ==
  When(n # 0, <<Put(IF py >= 9 THEN "BUILD_LIST" ELSE "BUILD_TUPLE", n)>>)
    \o <<Expr(arg)>>
    \o When(n # 0, IF py >= 9 THEN <<Put("LIST_EXTEND", 1), Put("LIST_TO_TUPLE", 0)>>
                   ELSE <<Put("BUILD_TUPLE_UNPACK_WITH_CALL", 2)>>)
    \o <<Dec(1)>>

(* emit_kw_var_args_311, emit_kw_var_args_308                              *)
KwVarArgSteps(py, n, arg) ==
  LET fewer == <<Dec(MaxOf(n - 1, 0))>>
  IN  <<Put("BUILD_TUPLE", n)>>
        \o (IF py >= 9
            THEN fewer \o <<Put("BUILD_MAP", 0), Expr(arg), Put("DICT_MERGE", 1)>>
            ELSE <<Expr(arg)>> \o fewer)

(* emit_args_311: the arguments and the call.                              *)
ArgSteps(py, args, op) ==
  LET n     == Len(args.pos)
      argc  == n + Len(args.kw)
      extra == IF args.kw # <<>> THEN (IF py >= 11 THEN 0 ELSE 1) ELSE Len(args.kwVar)
  IN  Exprs(args.pos)
        \o When(args.var # <<>>, VarArgSteps(py, n, args.var[1]))
        \o Exprs(args.kw)
        \o When(args.kwVar # <<>>, KwVarArgSteps(py, n, args.kwVar[1]))
        \o (IF args.kw # <<>>
            THEN IF py >= 11 THEN <<Put("KW_NAMES", 0), CallInstr(argc, op)>>
                 ELSE <<Const("obj"), Put("CALL_FUNCTION_KW", argc)>>
            ELSE IF args.var # <<>> \/ args.kwVar # <<>>
            THEN <<Put("CALL_FUNCTION_EX", Len(args.kwVar))>> \o When(py >= 11, <<Dec(1)>>)
            ELSE <<CallInstr(argc, op)>>)
        \o <<Dec(argc + extra)>>

(* emit_index_args                                                         *)
IndexSteps(args) ==
  LET n == Len(args.pos) IN
  Exprs(args.pos) \o (IF n > 1 THEN <<Put("BUILD_TUPLE", n)>> ELSE <<>>)
    \o <<Put("BINARY_SUBSCR", 0), Dec(n)>>

(* emit_call_method: what it does to call a method, return, or yield       *)
MethodSteps(py, e) ==
  LET bound == py >= 11 \/ (e.isMethod /\ e.args.kw = <<>>)
  IN  <<Expr(e.obj)>>
        \o <<Put(IF bound THEN "LOAD_METHOD" ELSE "LOAD_ATTR", 0)>>
        \o When(py >= 11, <<Inc(1)>>)
        \o ArgSteps(py, e.args, IF bound THEN "CALL_METHOD" ELSE "CALL_FUNCTION")

-----------------------------------------------------------------------------
(* Control flow, inlined from calls of if, for!, while!, match, with!      *)
(* and assert.  A branch that is a lambda becomes a simple block.          *)

Branch(e) == IF e.k = "lambda" THEN Block(e.body) ELSE Expr(e)

(* `and' and `or' in emit_binop: the right operand is skipped.             *)
ShortCircuitSteps(e) ==
  <<Expr(e.lhs), Jump("JUMP_IF_OR_POP"), Expr(e.rhs), FillTest(1, 4), Dec(1)>>

(* emit_if_instr: POP_JUMP_IF_FALSE is not counted until the end.          *)
IfSteps(py, e) ==
  <<Expr(e.cond), Jump("POP_JUMP_IF_FALSE"), Branch(e.then)>>
    \o (IF e.else = <<>>
        THEN <<Put("JUMP_FORWARD", IF py >= 10 THEN 1 ELSE 2), FillTest(1, 3), Const("obj")>>
        ELSE <<Jump("JUMP_FORWARD"), FillTest(1, 4), Branch(e.else[1]), FillForward(2, 2 + 1)>>)
    \o <<Balance, AssertOne>>

(* emit_with_block, emit_control_block: the parameters are stored first.   *)
WithBlockSteps(lambda) == Repeat(lambda.params, Store) \o <<Block(lambda.body)>>

ControlBlockSteps(lambda) ==
  Repeat(lambda.params, Store) \o GuardDefinitions(lambda) \o <<Block(lambda.body)>>

(* emit_for_instr                                                          *)
ForSteps(py, e) ==
  <<Expr(e.iter), Put("GET_ITER", 0), Jump("FOR_ITER"), Inc(1), Base>>
    \o ControlBlockSteps(e.body)
    \o <<PopLoop(1), Jump(IF Is311(py) THEN "JUMP_BACKWARD" ELSE "JUMP_ABSOLUTE"), FillBack,
         FillForward(1, 2 + 2), Dec(1), Const("obj"), AssertOne>>

(* emit_while_instr: the condition is evaluated again after the body.      *)
WhileSteps(py, e) ==
  <<Expr(e.cond), Jump("POP_JUMP_IF_FALSE"), Dec(1), Base>>
    \o ControlBlockSteps(e.body)
    \o <<PopLoop(0), Expr(e.cond),
         Jump(IF Is311(py) THEN "POP_JUMP_BACKWARD_IF_TRUE" ELSE "POP_JUMP_IF_TRUE"),
         FillBackTest, Dec(1), FillTest(1, 3), Const("obj"), AssertOne>>

\* Mutant: the matched object is left where it is.
GuardHeldDec(arm, i) == Dec(1)

(* After a guard that held: if it was the last one, the object is popped;  *)
(* otherwise only the count is put right for the jump.                     *)
GuardHeld(arm, i) == IF i = Len(arm.guards) THEN PopTop ELSE Dec(1)

(* emit_match_pattern                                                      *)
GuardSteps(arm, i, isLast) ==
  LET guard == arm.guards[i]
      tested == IF isLast THEN <<PopTop>> ELSE <<Jump("POP_JUMP_IF_FALSE"), GuardHeld(arm, i)>>
  IN  CASE guard.k = "bind" -> <<Chunk(guard.def)>>
        [] guard.k = "condition" -> <<Expr(guard.cond)>> \o tested
        [] guard.k = "skipped" -> <<>>

PatternSteps(arm, isLast) ==
  <<IF arm.named THEN Store ELSE PopTop>>
    \o [i \in 1 .. Len(arm.guards) |-> Guard(arm, i, isLast)]

(* emit_match_instr: every arm but the last works on a copy.               *)
ArmSteps(arm, isLast) ==
  When(~isLast, <<Put("DUP_TOP", 0), Inc(1)>>) \o PatternSteps(arm, isLast)
    \o <<Block(arm.body), Dec(1), FillArm, JumpToEnd>>

MatchSteps(e) ==
  <<Expr(e.expr)>> \o [i \in 1 .. Len(e.arms) |-> Arm(e.arms[i], i = Len(e.arms))]
    \o <<FillEnds, Inc(1), AssertOne>>

(* emit_assert_instr                                                       *)
AssertSteps(py, e) ==
  <<Expr(e.cond), Jump("POP_JUMP_IF_TRUE"), Dec(1),
    Put(IF py >= 10 THEN "LOAD_ASSERTION_ERROR" ELSE "LOAD_GLOBAL", 0), Inc(1)>>
    \o When(e.msg # <<>>,
            Exprs(e.msg) \o (IF Is311(py) THEN <<CallInstr(0, "CALL")>>
                             ELSE <<CallInstr(1, "CALL_FUNCTION"), Dec(1)>>))
    \o <<Put("RAISE_VARARGS", 1), Dec(1), FillTest(1, 4), Const("obj"), AssertOne>>

(* emit_with_instr_311, _310, _309, _308 and _307.  The value of the block *)
(* is stashed while __exit__ is called.  The handler that follows in 3.9   *)
(* and later is jumped over; only its POP_TOPs are counted.                *)
HandlerSteps(py) ==
  IF Is311(py)
  THEN <<Put("PUSH_EXC_INFO", 0), Put("WITH_EXCEPT_START", 0), Put("POP_JUMP_IF_TRUE", 4),
         Put("RERAISE", 0), Put("COPY", 3), Put("POP_EXCEPT", 0), Put("RERAISE", 1), PopTop,
         Put("POP_EXCEPT", 0), PopTop, PopTop>>
  ELSE <<Put("WITH_EXCEPT_START", 0), Put("POP_JUMP_IF_TRUE", 0), Put("RERAISE", 1), PopTop,
         Put("POP_EXCEPT", 0)>>

ExitSteps(py) ==
  CASE py = 7  -> <<Put("POP_BLOCK", 0), Const("obj"), Dec(1), Put("WITH_CLEANUP_START", 0)>>
    [] py = 8  -> <<Put("POP_BLOCK", 0), Put("BEGIN_FINALLY", 0), Put("WITH_CLEANUP_START", 0)>>
    [] py \in {9, 10} -> <<Put("POP_BLOCK", 0), Const("obj"), Put("DUP_TOP", 0), Inc(1),
                           Put("DUP_TOP", 0), Inc(1), Put("CALL_FUNCTION", 3), Dec(3), PopTop>>
    [] OTHER   -> <<Const("obj"), Const("obj"), Const("obj"), CallInstr(2, "CALL"), PopTop>>

WithSteps(py, e) ==
  <<Expr(e.expr), Mark, Put(IF Is311(py) THEN "BEFORE_WITH" ELSE "SETUP_WITH", 0)>>
    \o When(py >= 9, <<Inc(2)>>) \o WithBlockSteps(e.body) \o <<Store>> \o ExitSteps(py)
    \o (IF py <= 8
        THEN <<EditSetup, Put("WITH_CLEANUP_FINISH", 0), Put("END_FINALLY", 0)>>
        ELSE <<Mark, Put("JUMP_FORWARD", 0)>> \o HandlerSteps(py) \o <<EditForward>>)
    \o <<Name, AssertOne>>

-----------------------------------------------------------------------------
(* Containers and classes.                                                 *)

\* Mutant: an empty literal adds nothing to the count.
GatherUncounted(op, n, elems) == Exprs(elems) \o <<Put(op, n), Dec(MaxOf(Len(elems) - 1, 0))>>

(* emit_list, emit_dict: the literal is passed to the constructor; an      *)
(* empty one adds to the stack, any other takes its elements from it.      *)
Gather(op, n, elems) ==
  Exprs(elems) \o <<Put(op, n), IF elems = <<>> THEN Inc(1) ELSE Dec(Len(elems) - 1)>>

Constructed(steps) ==
  <<PushNull, Name>> \o steps \o <<CallInstr(1, "CALL_FUNCTION"), Dec(1)>>

ListWithLengthSteps(e) ==
  Constructed(<<Expr(e.elem), Put("BUILD_LIST", 1)>>)
    \o <<Expr(e.length), Put("BINARY_OP", 0), Dec(1)>>

(* emit_record: the type is made first, then the instance.                 *)
RecordSteps(attrs) ==
  LET n == Len(attrs) IN
  <<PushNull, Name, Const("obj")>> \o [i \in 1 .. n |-> Const("obj")]
    \o <<Put("BUILD_LIST", n), IF n = 0 THEN Inc(1) ELSE Dec(n - 1),
         CallInstr(2, "CALL_FUNCTION"), Dec(2), Store, PushNull, Name>>
    \o [i \in 1 .. n |-> Block(attrs[i])]
    \o <<CallInstr(n, "CALL_FUNCTION"), Dec(n)>>

(* emit_class_def with emit_class_block; the methods include __init__ and  *)
(* `new', which are generated.  `base' is what emit_require_type emits.    *)
ClassHeader == <<Const("obj"), Store, Const("obj"), Store>>

ClassDefSteps(py, e) ==
  <<PushNull, Put("LOAD_BUILD_CLASS", 0), Inc(1)>> \o Nested(ClassHeader, e.methods)
    \o MakeFunctionSteps(py, {}) \o <<Const("obj")>> \o Exprs(e.base)
    \o <<CallInstr(2 + Len(e.base), "CALL_FUNCTION"), Dec(2 + Len(e.base)), Store, Dec(1)>>

(* emit_trait_def with emit_trait_block and emit_empty_func: a requirement *)
(* becomes an abstract method.                                             *)
AbstractMethodSteps(py) ==
  <<PushNull, Name>> \o Nested(<<Const("obj")>>, <<>>) \o MakeFunctionSteps(py, {})
    \o <<CallInstr(1, "CALL_FUNCTION"), Dec(1), Dec(1), Store>>

TraitDefSteps(py, e) ==
  <<PushNull, Put("LOAD_BUILD_CLASS", 0), Inc(1)>>
    \o Nested(ClassHeader \o Repeat(e.requires, Requirement), <<>>)
    \o MakeFunctionSteps(py, {}) \o <<Const("obj"), Name>>
    \o (IF Is311(py) THEN <<Put("KW_NAMES", 0), CallInstr(3, "CALL"), Dec(3)>>
        ELSE <<Const("obj"), Put("CALL_FUNCTION_KW", 3), Dec(4)>>)
    \o <<Store, Dec(1)>>

-----------------------------------------------------------------------------
(* emit_chunk, and the match of emit_expr, with emit_call, emit_call_local *)
(* and the handlers that are a line or two.                                *)

OperatorSteps(e) ==
  CASE e.k \in {"unary", "not"} -> <<Expr(e.expr), Put("UNARY_OP", 0)>>
    [] e.k = "mutate" -> <<PushNull, Name, Expr(e.expr), CallInstr(1, "CALL_FUNCTION"), Dec(1)>>
    [] e.k = "binop" -> <<Expr(e.lhs), Expr(e.rhs), Put(e.op, 0), Dec(1)>>
    [] e.k = "contains" ->
         <<PushNull, Name, Expr(e.lhs), Expr(e.rhs), CallInstr(2, "CALL_FUNCTION"), Dec(1),
           Dec(1)>>
    [] e.k = "andor" -> ShortCircuitSteps(e)

CallSteps(py, e) ==
  CASE e.k = "call" ->
         <<PushNull, IF e.obj.k = "name" THEN Name ELSE Expr(e.obj)>>
           \o ArgSteps(py, e.args, "CALL_FUNCTION")
    [] e.k = "index" -> <<Expr(e.obj)>> \o IndexSteps(e.args)
    [] e.k = "method" -> MethodSteps(py, e)
    [] e.k = "return" -> <<Expr(e.expr), Put("RETURN_VALUE", 0)>>
    [] e.k = "yield" -> <<Expr(e.expr), Put("YIELD_VALUE", 0)>>
    [] e.k = "discard" ->
         Each(Exprs(e.args), PopTop) \o <<Const("obj")>>

ControlSteps(py, e) ==
  CASE e.k = "if"     -> IfSteps(py, e)
    [] e.k = "for"    -> ForSteps(py, e)
    [] e.k = "while"  -> WhileSteps(py, e)
    [] e.k = "match"  -> MatchSteps(e)
    [] e.k = "with"   -> WithSteps(py, e)
    [] e.k = "assert" -> AssertSteps(py, e)

ContainerSteps(e) ==
  CASE e.k = "list"    -> Constructed(Gather("BUILD_LIST", Len(e.elems), e.elems))
    [] e.k = "listlen" -> ListWithLengthSteps(e)
    [] e.k = "tuple"   -> Gather("BUILD_TUPLE", Len(e.elems), e.elems)
    [] e.k = "set"     -> Gather("BUILD_SET", Len(e.elems), e.elems)
    [] e.k = "dict"    -> Constructed(Gather("BUILD_MAP", Len(e.elems) \div 2, e.elems))
    [] e.k = "record"  -> RecordSteps(e.attrs)

DefinitionSteps(py, e) ==
  CASE e.k = "lambda" -> LambdaSteps(py, e)
    [] e.k = "subr"   -> SubrDefSteps(py, e)
    [] e.k = "var"    -> VarDefSteps(e)
    [] e.k = "redef"  -> ReDefSteps(e)
    [] e.k = "class"  -> ClassDefSteps(py, e)
    [] e.k = "trait"  -> TraitDefSteps(py, e)
    [] e.k = "import" -> <<Const("obj"), Const("obj"), Put("IMPORT_NAME", 0), Store, Dec(1)>>

Operators == {"unary", "not", "mutate", "binop", "contains", "andor"}
CallKinds == {"call", "index", "method", "return", "yield", "discard"}
Controls == {"if", "for", "while", "match", "with", "assert"}
Containers == {"list", "listlen", "tuple", "set", "dict", "record"}

HandlerOf(py, e) ==
  CASE e.k = "lit"  -> <<Const("obj")>>
    [] e.k = "name" -> <<Name>>
    [] e.k = "attr" -> <<Expr(e.obj), Put("LOAD_ATTR", 0), AssertOne>>
    [] e.k = "compound" -> <<Block(e.chunks)>>
    [] e.k = "typeasc" -> <<>>
    [] e.k \in Operators -> OperatorSteps(e) \o <<AssertOne>>
    [] e.k \in CallKinds -> CallSteps(py, e) \o <<AssertOne>>
    [] e.k \in Controls -> ControlSteps(py, e)
    [] e.k \in Containers -> ContainerSteps(e) \o <<AssertOne>>
    [] OTHER -> DefinitionSteps(py, e)

ChunkSteps(py, e) == <<Push>> \o HandlerOf(py, e) \o <<Pop>>

-----------------------------------------------------------------------------
(* emit: a module.                                                         *)
Fresh(py) ==
  [py |-> py, code |-> <<>>, len |-> 0, size |-> 2, outer |-> <<>>, frames |-> <<>>,
   done |-> <<>>, ok |-> TRUE]

ModuleSteps(module, py, repl) ==
  <<EnterBlock>> \o When(Is311(py), <<Put("RESUME", 0)>>) \o Chunks(module, PopOne)
    \o <<CancelPopTop>> \o When(repl, <<Shell>>) \o <<LeaveBlock>>
=============================================================================
