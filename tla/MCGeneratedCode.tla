--------------------------- MODULE MCGeneratedCode ----------------------------
(***************************************************************************)
(* Programs for TLC: every construct with simple operands; every control   *)
(* construct with bodies of one and two chunks, in every other one, as an  *)
(* operand and in a function; and the constructs in sequence.              *)
(***************************************************************************)
EXTENDS GeneratedCode

E(k) == [k |-> k, wrap |-> FALSE]
Wrapped(e) == [e EXCEPT !.wrap = TRUE]

x == E("name")
one == Wrapped(E("lit"))
none == E("lit")

Args(pos, var, kw, kwVar) == [pos |-> pos, var |-> var, kw |-> kw, kwVar |-> kwVar]
Pos(args) == Args(args, <<>>, <<>>, <<>>)

CallOf(obj, args) == [k |-> "call", wrap |-> FALSE, obj |-> obj, args |-> args]
MethodOf(obj, args, is) ==
  [k |-> "method", wrap |-> FALSE, obj |-> obj, args |-> args, isMethod |-> is]
Unary(k, e) == [k |-> k, wrap |-> FALSE, expr |-> e]
Binary(k, l, r) == [k |-> k, wrap |-> FALSE, lhs |-> l, rhs |-> r]
Bin(op, l, r) == [k |-> "binop", wrap |-> FALSE, op |-> op, lhs |-> l, rhs |-> r]
Elems(k, es) == [k |-> k, wrap |-> FALSE, elems |-> es]
Lambda(params, body) ==
  [k |-> "lambda", wrap |-> FALSE, params |-> params, defaults |-> <<>>, varParams |-> FALSE,
   captured |-> 0, guards |-> <<>>, body |-> body]
Subr(defaults, varParams, captured, decorators, body) ==
  [k |-> "subr", wrap |-> FALSE, defaults |-> defaults, varParams |-> varParams,
   captured |-> captured, decorators |-> decorators, guards |-> <<>>, body |-> body]
Var(body) == [k |-> "var", wrap |-> FALSE, body |-> body]
Attr(obj) == [k |-> "attr", wrap |-> FALSE, obj |-> obj]
Ascribed(e) == Unary("typeasc", e)

log == CallOf(x, Pos(<<one>>))

Calls ==
  {CallOf(o, Pos(a)) : o \in {x, Attr(x)}, a \in {<<>>, <<one>>, <<one, x>>}}
    \union {CallOf(x, Args(p, v, <<>>, <<>>)) : p \in {<<>>, <<one>>, <<one, x>>}, v \in {<<x>>}}
    \union {CallOf(x, Args(p, <<>>, k, <<>>)) : p \in {<<>>, <<one>>}, k \in {<<one>>, <<x, one>>}}
    \union {CallOf(x, Args(p, <<>>, <<>>, <<x>>)) : p \in {<<>>, <<one>>}}
    \union {MethodOf(o, Args(p, <<>>, k, <<>>), is) :
              o \in {x}, p \in {<<>>, <<one>>}, k \in {<<>>, <<x>>}, is \in BOOLEAN}
    \union {[CallOf(x, Pos(a)) EXCEPT !.k = "index"] : a \in {<<one>>, <<one, x>>}}

Expressions ==
  {x, one, none, Attr(x), Wrapped(Attr(x)), Unary("unary", x), Unary("mutate", one),
   Unary("not", x), Unary("yield", x), Unary("return", one),
   Bin("BINARY_OP", x, one), Bin("COMPARE_OP", one, one), Binary("andor", x, one),
   Binary("contains", x, x), Wrapped(Bin("BINARY_OP", one, x)),
   [k |-> "listlen", wrap |-> FALSE, elem |-> one, length |-> one],
   [k |-> "record", wrap |-> FALSE, attrs |-> <<>>],
   [k |-> "record", wrap |-> FALSE, attrs |-> <<<<one>>, <<Var(<<x>>), x>>>>],
   [k |-> "discard", wrap |-> FALSE, args |-> <<x, one>>],
   [k |-> "compound", wrap |-> FALSE, chunks |-> <<log, x>>],
   Wrapped(Ascribed(one)), Ascribed(Ascribed(x)),
   [Lambda(1, <<x>>) EXCEPT !.guards = <<Var(<<x>>)>>],
   [Lambda(1, <<x>>) EXCEPT !.defaults = <<one, x>>]}
    \union {[Lambda(1, <<x>>) EXCEPT !.captured = n] : n \in {0, 1, 6}}
    \union {Elems(k, es) : k \in {"list", "tuple", "set"}, es \in {<<>>, <<x>>, <<one, x>>}}
    \union {Elems("dict", es) : es \in {<<>>, <<one, x>>, <<one, x, x, one>>}}
    \union Calls

Definitions ==
  {Var(<<one>>), Var(<<log, x>>), E("import"),
   [k |-> "redef", wrap |-> FALSE, body |-> <<one>>, obj |-> x],
   [k |-> "trait", wrap |-> FALSE, requires |-> 2],
   [k |-> "class", wrap |-> FALSE, base |-> <<>>, methods |-> <<>>],
   [k |-> "class", wrap |-> FALSE, base |-> <<x>>,
    methods |-> <<Subr(<<>>, FALSE, 0, <<>>, <<none>>), Subr(<<>>, FALSE, 0, <<>>, <<log>>)>>],
   Subr(<<>>, FALSE, 0, <<x, x>>, <<x>>)}
    \union {Subr(d, v, c, <<>>, <<log, x>>) :
              d \in {<<>>, <<one>>, <<one, x>>}, v \in BOOLEAN, c \in {0, 1, 6}}

-----------------------------------------------------------------------------
(* Control: `then' and `else' may be something else than a lambda.         *)

If(b) == [k |-> "if", wrap |-> FALSE, cond |-> Wrapped(x), then |-> Lambda(0, b), else |-> <<>>]
IfElse(b, c) == [If(b) EXCEPT !.else = <<Lambda(0, c)>>]
For(b) == [k |-> "for", wrap |-> FALSE, iter |-> x, body |-> Lambda(1, b)]
While(b) == [k |-> "while", wrap |-> FALSE, cond |-> Wrapped(x), body |-> Lambda(0, b)]
With(b) == [k |-> "with", wrap |-> FALSE, expr |-> log, body |-> Lambda(1, b)]
AssertThat(msg) == [k |-> "assert", wrap |-> FALSE, cond |-> Wrapped(x), msg |-> msg]

Condition(e) == [k |-> "condition", cond |-> e]
Bind(def) == [k |-> "bind", def |-> def]
ArmOf(named, guards, body) == [named |-> named, guards |-> guards, body |-> body]
Match(arms) == [k |-> "match", wrap |-> FALSE, expr |-> x, arms |-> arms]

Typed(b) == ArmOf(TRUE, <<Condition(Binary("contains", x, x))>>, b)
Other(b) == ArmOf(FALSE, <<>>, b)
Destructured(b) ==
  ArmOf(TRUE, <<Condition(Binary("contains", x, x)), Bind(Var(<<x>>)), Bind(Var(<<x>>))>>, b)
Nested2(b) == ArmOf(TRUE, <<Bind(Var(<<x>>)), Condition(x), Condition(x)>>, b)

Control(b, c) ==
  {If(b), IfElse(b, c), For(b), While(b), With(b), Match(<<Other(b)>>),
   Match(<<Typed(b), Other(c)>>), Match(<<Typed(b), Nested2(c), Destructured(b)>>)}

Blocks == {<<e>> : e \in Expressions} \union {<<d, x>> : d \in Definitions}
Simple == Control(<<log>>, <<x>>)

Operands(c) ==
  {CallOf(x, Pos(<<one, c>>)), CallOf(x, Args(<<>>, <<>>, <<c>>, <<>>)), Bin("BINARY_OP", x, c),
   Binary("andor", c, x), Elems("list", <<x, c>>), Elems("dict", <<x, c>>), Unary("not", c),
   [k |-> "record", wrap |-> FALSE, attrs |-> <<<<c>>>>], MethodOf(c, Pos(<<x>>), TRUE),
   MethodOf(x, Pos(<<x, c>>), TRUE), Lambda(1, <<c>>), Wrapped(c), Var(<<c>>), Var(<<log, c>>),
   Subr(<<>>, FALSE, 0, <<>>, <<c>>), [If(<<x>>) EXCEPT !.then = c, !.else = <<c>>],
   [For(<<x>>) EXCEPT !.iter = c], [With(<<x>>) EXCEPT !.expr = c],
   [Match(<<Typed(<<x>>), Other(<<x>>)>>) EXCEPT !.expr = c],
   [AssertThat(<<>>) EXCEPT !.cond = c, !.msg = <<x>>]}

-----------------------------------------------------------------------------
(* Type ascriptions as chunks, where they do no harm and where they do;    *)
(* and the other flaws.                                                    *)

Told(b) == b \o <<Ascribed(x)>>
Tellings == {Told(<<x>>), Told(<<log, Var(<<x>>)>>), Told(Told(<<log>>))}

Telling ==
  {<<log>> \o Told(<<Var(<<Ascribed(x)>>), log>>), Told(<<>>), Told(Told(<<log>>))}
    \union {<<c, log>> : c \in UNION {Control(b, <<x>>) \union Control(<<x>>, b) : b \in Tellings}}
    \union {<<o, log>> : o \in UNION {
         {Var(b), [k |-> "redef", wrap |-> FALSE, body |-> b, obj |-> x], Lambda(0, b),
          [k |-> "compound", wrap |-> FALSE, chunks |-> b], Subr(<<>>, FALSE, 0, <<>>, b),
          [k |-> "record", wrap |-> FALSE, attrs |-> <<<<x>>, b>>]} : b \in Tellings}}

Skipped == [k |-> "skipped"]
Keeping == {<<>>, <<Skipped>>, <<Condition(x), Bind(Var(<<x>>))>>, <<Condition(x), Skipped>>}

Flawed ==
  {<<log, [Lambda(1, <<x>>) EXCEPT !.defaults = <<one>>, !.varParams = TRUE]>>}
    \union {<<CallOf(x, Args(p, v, k, <<x>>)), log>> :
              p \in {<<>>, <<one, x>>}, v \in {<<>>, <<x>>}, k \in {<<>>, <<x>>}}
    \union {<<MethodOf(x, Args(<<one>>, v, k, w), TRUE)>> :
              v \in {<<>>, <<x>>}, k \in {<<>>, <<x>>}, w \in {<<>>, <<x>>}}
    \union {<<Subr(d, FALSE, c, <<x>>, <<x>>)>> : d \in {<<>>, <<one>>}, c \in {0, 1}}
    \union {<<For(<<Match(<<ArmOf(n, g, <<x>>), ArmOf(TRUE, h, <<x>>)>>)>>), log>> :
              n \in BOOLEAN, g \in Keeping, h \in Keeping}

MCPrograms ==
  {b : b \in Blocks} \union Telling \union Flawed
    \union {<<c, log>> : c \in UNION {Control(b, <<log, x>>) : b \in Blocks}}
    \union {<<c>> : c \in UNION {Control(<<d>>, <<log, d>>) : d \in Simple}}
    \union {<<log, o, x>> : o \in UNION {Operands(c) : c \in Simple}}
    \union {<<AssertThat(m), log>> : m \in {<<>>, <<x>>, <<one>>}}
-----------------------------------------------------------------------------
(* What the programs are made of.                                          *)

Members(block) == {block[i] : i \in DOMAIN block}
OfArgs(args) == Members(args.pos \o args.var \o args.kw \o args.kwVar)
OfArm(arm) ==
  Members(arm.body)
    \union {IF g.k = "bind" THEN g.def ELSE g.cond :
              g \in {h \in Members(arm.guards) : h.k # "skipped"}}

Parts(e) ==
  CASE e.k \in {"lit", "name", "import", "trait"} -> {}
    [] e.k = "attr" -> {e.obj}
    [] e.k \in {"unary", "not", "mutate", "return", "yield", "typeasc"} -> {e.expr}
    [] e.k \in {"binop", "contains", "andor"} -> {e.lhs, e.rhs}
    [] e.k \in {"call", "method", "index"} -> {e.obj} \union OfArgs(e.args)
    [] e.k = "discard" -> Members(e.args)
    [] e.k \in {"list", "tuple", "set", "dict"} -> Members(e.elems)
    [] e.k = "listlen" -> {e.elem, e.length}
    [] e.k = "record" -> UNION {Members(b) : b \in Members(e.attrs)}
    [] e.k = "compound" -> Members(e.chunks)
    [] e.k = "lambda" -> Members(e.body \o e.defaults \o e.guards)
    [] e.k = "subr" -> Members(e.body \o e.defaults \o e.decorators \o e.guards)
    [] e.k = "var" -> Members(e.body)
    [] e.k = "redef" -> Members(e.body) \union {e.obj}
    [] e.k = "class" -> Members(e.base \o e.methods)
    [] e.k = "if" -> {e.cond, e.then} \union Members(e.else)
    [] e.k = "for" -> {e.iter, e.body}
    [] e.k = "while" -> {e.cond, e.body}
    [] e.k = "with" -> {e.expr, e.body}
    [] e.k = "match" -> {e.expr} \union UNION {OfArm(arm) : arm \in Members(e.arms)}
    [] e.k = "assert" -> {e.cond} \union Members(e.msg)

WithParts(es) == es \union UNION {Parts(e) : e \in es}
Level2 == WithParts(WithParts(UNION {Members(p) : p \in MCPrograms}))
Level5 == WithParts(WithParts(WithParts(Level2)))

\* Expressions and their parts, down to the eighth level of nesting.
MCHir == WithParts(WithParts(WithParts(Level5)))
=============================================================================
