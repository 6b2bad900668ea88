------------------------------ MODULE Bytecode -------------------------------
(***************************************************************************)
(* The virtual machine the generated code is for (external): CPython 3.7   *)
(* to 3.11, as far as the stack and the control flow go.                   *)
(*                                                                         *)
(* Code is a sequence of code units, records of an opcode and an argument; *)
(* inline caches (3.11) are units of their own.  A stack holds the kinds   *)
(* of its objects:                                                         *)
(*   "obj", "tuple", "code"  an object, a tuple, a code object             *)
(*   "iter", "exit"          an iterator, the __exit__ of a `with'         *)
(*   "null"                  the NULL of PUSH_NULL and BEGIN_FINALLY       *)
(*   "slot"                  what LOAD_METHOD puts below: NULL or a method *)
(*   "cell", "closure"       a variable that is captured, a tuple of them  *)
(* Opcodes that were renamed with the same number have one name here; the  *)
(* BUILD_TUPLE that makes a closure has one of its own.                    *)
(* Exceptions are not modelled: RAISE_VARARGS ends a run.                  *)
(***************************************************************************)
EXTENDS Integers, Sequences

Versions == 7 .. 11     \* the minor version of Python 3
Kinds == {"obj", "tuple", "code", "iter", "exit", "null", "slot", "cell", "closure"}

Objs(n) == [i \in 1 .. n |-> "obj"]

(* What may stand where a kind of operand is needed.                       *)
Fits(kind, need) ==
  CASE need = "obj"  -> kind \in {"obj", "tuple"}
    [] need = "any"  -> kind \notin {"null", "slot", "cell", "closure"}
    [] need = "fun"  -> kind \in {"obj", "exit"}
    [] need = "slot" -> kind \in {"obj", "exit", "null", "slot"}
    [] OTHER         -> kind = need

(* The units after an instruction that it skips.                           *)
InlineCacheEntries(op, py) ==
  IF py < 11 THEN 0
  ELSE CASE op \in {"BINARY_OP", "PRECALL"} -> 1
         [] op = "COMPARE_OP" -> 2
         [] op \in {"CALL", "BINARY_SUBSCR", "LOAD_ATTR", "STORE_ATTR"} -> 4
         [] op = "LOAD_METHOD" -> 10
         [] OTHER -> 0

Relative == {"JUMP_FORWARD", "FOR_ITER", "SETUP_WITH"}
Backward == {"JUMP_BACKWARD", "POP_JUMP_BACKWARD_IF_TRUE"}
Conditional == {"POP_JUMP_IF_FALSE", "POP_JUMP_IF_TRUE", "POP_JUMP_BACKWARD_IF_TRUE",
                "JUMP_IF_OR_POP"}
Jumps == {"JUMP_FORWARD", "JUMP_BACKWARD", "JUMP_ABSOLUTE"}

(* Where the jump at pc goes: its argument counts units since 3.10 and     *)
(* bytes before; since 3.11 every jump is relative.                        *)
Target(u, pc, py) ==
  LET units == IF py >= 10 THEN u.arg ELSE u.arg \div 2
  IN  IF u.op \in Backward THEN pc + 1 - units
      ELSE IF u.op \in Relative \/ py >= 11 THEN pc + 1 + units
      ELSE units + 1

(* The operands an instruction needs, the top of the stack last, and what  *)
(* it leaves in their place.  For a jump this is the case without jumping. *)
Call(n, py) == IF py >= 11 THEN <<"slot", "fun">> \o Objs(n) ELSE <<"fun">> \o Objs(n)

Makes(flags, py) ==
  (IF "defaults" \in flags THEN <<"tuple">> ELSE <<>>)
    \o (IF "kwdefaults" \in flags THEN <<"obj">> ELSE <<>>)
    \o (IF "closure" \in flags THEN <<"closure">> ELSE <<>>)
    \o (IF py >= 11 THEN <<"code">> ELSE <<"code", "obj">>)

Effect(u, py) ==
  LET n == u.arg IN
  CASE u.op \in {"NOP", "RESUME", "COPY_FREE_VARS", "MAKE_CELL", "EXTENDED_ARG", "PRECALL",
                 "KW_NAMES", "POP_BLOCK"} ->
         [needs |-> <<>>, leaves |-> <<>>]
    [] u.op = "LOAD_CONST" -> [needs |-> <<>>, leaves |-> <<n>>]
    [] u.op \in {"LOAD_NAME", "LOAD_GLOBAL", "LOAD_ASSERTION_ERROR", "LOAD_BUILD_CLASS"} ->
         [needs |-> <<>>, leaves |-> <<"obj">>]
    [] u.op = "LOAD_CLOSURE" -> [needs |-> <<>>, leaves |-> <<"cell">>]
    [] u.op = "BUILD_CLOSURE" ->
         [needs |-> [i \in 1 .. n |-> "cell"], leaves |-> <<"closure">>]
    [] u.op = "PUSH_NULL" -> [needs |-> <<>>, leaves |-> <<"null">>]
    [] u.op = "BEGIN_FINALLY" -> [needs |-> <<>>, leaves |-> <<"null">>]
    [] u.op \in {"STORE_NAME", "POP_TOP", "PRINT_EXPR"} -> [needs |-> <<"any">>, leaves |-> <<>>]
    [] u.op = "DUP_TOP" -> [needs |-> <<"obj">>, leaves |-> <<"obj", "obj">>]
    [] u.op = "STORE_ATTR" -> [needs |-> <<"obj", "obj">>, leaves |-> <<>>]
    [] u.op \in {"LOAD_ATTR", "UNARY_OP", "LIST_TO_TUPLE", "YIELD_VALUE"} ->
         [needs |-> <<"obj">>, leaves |-> <<"obj">>]
    [] u.op = "LOAD_METHOD" -> [needs |-> <<"obj">>, leaves |-> <<"slot", "obj">>]
    [] u.op \in {"BINARY_OP", "COMPARE_OP", "BINARY_SUBSCR", "IMPORT_NAME",
                 "LIST_EXTEND", "DICT_MERGE"} ->
         [needs |-> <<"obj", "obj">>, leaves |-> <<"obj">>]
    [] u.op = "BUILD_TUPLE" -> [needs |-> Objs(n), leaves |-> <<"tuple">>]
    [] u.op \in {"BUILD_LIST", "BUILD_SET"} -> [needs |-> Objs(n), leaves |-> <<"obj">>]
    [] u.op = "BUILD_MAP" -> [needs |-> Objs(2 * n), leaves |-> <<"obj">>]
    [] u.op = "BUILD_CONST_KEY_MAP" -> [needs |-> Objs(n) \o <<"obj">>, leaves |-> <<"obj">>]
    [] u.op = "BUILD_TUPLE_UNPACK_WITH_CALL" -> [needs |-> Objs(n), leaves |-> <<"tuple">>]
    [] u.op \in {"CALL", "CALL_FUNCTION"} -> [needs |-> Call(n, py), leaves |-> <<"obj">>]
    [] u.op = "CALL_METHOD" -> [needs |-> <<"slot", "obj">> \o Objs(n), leaves |-> <<"obj">>]
    [] u.op = "CALL_FUNCTION_KW" -> [needs |-> <<"fun">> \o Objs(n + 1), leaves |-> <<"obj">>]
    [] u.op = "CALL_FUNCTION_EX" ->
         [needs |-> (IF py >= 11 THEN <<"null">> ELSE <<>>) \o <<"fun">> \o Objs(n + 1),
          leaves |-> <<"obj">>]
    [] u.op = "MAKE_FUNCTION" -> [needs |-> Makes(n, py), leaves |-> <<"obj">>]
    [] u.op = "GET_ITER" -> [needs |-> <<"obj">>, leaves |-> <<"iter">>]
    [] u.op = "FOR_ITER" -> [needs |-> <<"iter">>, leaves |-> <<"iter", "obj">>]
    [] u.op \in {"SETUP_WITH", "BEFORE_WITH"} ->
         [needs |-> <<"obj">>, leaves |-> <<"exit", "obj">>]
    [] u.op = "WITH_CLEANUP_START" ->
         [needs |-> <<"exit", IF py = 7 THEN "obj" ELSE "null">>,
          leaves |-> <<IF py = 7 THEN "obj" ELSE "null", "obj", "obj">>]
    [] u.op = "WITH_CLEANUP_FINISH" -> [needs |-> <<"obj", "obj">>, leaves |-> <<>>]
    [] u.op = "END_FINALLY" ->
         [needs |-> <<IF py = 7 THEN "obj" ELSE "null">>, leaves |-> <<>>]
    [] u.op \in Conditional -> [needs |-> <<"obj">>, leaves |-> <<>>]
    [] u.op \in Jumps -> [needs |-> <<>>, leaves |-> <<>>]
    [] u.op \in {"RETURN_VALUE", "RAISE_VARARGS"} -> [needs |-> <<"obj">>, leaves |-> <<>>]

(* Caches are not executed, nor the handler of a `with' without an         *)
(* exception: whoever gets there has lost his way.                         *)
Executable(u) ==
  u.op \notin {"CACHE", "PUSH_EXC_INFO", "WITH_EXCEPT_START", "RERAISE", "COPY", "POP_EXCEPT"}

HasOperands(stack, needs) ==
  /\ Len(stack) >= Len(needs)
  /\ \A i \in 1 .. Len(needs) : Fits(stack[Len(stack) - Len(needs) + i], needs[i])

After(stack, effect) ==
  SubSeq(stack, 1, Len(stack) - Len(effect.needs)) \o effect.leaves
=============================================================================
