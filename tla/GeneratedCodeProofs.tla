------------------------- MODULE GeneratedCodeProofs --------------------------
(***************************************************************************)
(* The generator's count of the stack, for every program and every version *)
(* of Python.                                                              *)
(***************************************************************************)
EXTENDS GeneratedCode, NaturalsInduction, SequenceTheorems, WellFoundedInduction, TLAPS

-----------------------------------------------------------------------------
(* The state of the generator, whatever the arguments U of its code units. *)

FrameRecord == [len : Nat, base : Nat, marks : Seq(Nat), ends : Seq(Nat)]

GenState(U) ==
  [py : Versions, code : Seq(U), len : Nat, size : Nat,
   outer : Seq([code : Seq(U), len : Nat, size : Nat]),
   frames : Seq(FrameRecord), done : Seq([code : Seq(U), size : Nat]), ok : BOOLEAN]

IsState(g) == \E U : g \in GenState(U)

(* What decides whether it goes on: the count, the counts in the frames    *)
(* and of the blocks around, and whether the last unit is a POP_TOP.       *)
HeightFrame == [len : Nat, base : Nat]
Height == [len : Nat, pop : {"yes", "no", "any"}, frames : Seq(HeightFrame), outer : Seq(Nat)]

IsPopTop(code) == code # <<>> /\ Last(code).op = "POP_TOP"

Stands(g, a) ==
  /\ g.ok /\ g.len = a.len
  /\ a.pop = "yes" => IsPopTop(g.code)
  /\ a.pop = "no" => ~IsPopTop(g.code)
  /\ Len(g.frames) = Len(a.frames)
  /\ \A i \in 1 .. Len(a.frames) :
       g.frames[i].len = a.frames[i].len /\ g.frames[i].base = a.frames[i].base
  /\ Len(g.outer) = Len(a.outer)
  /\ \A i \in 1 .. Len(a.outer) : g.outer[i].len = a.outer[i]

SameHeights(f, h) ==
  /\ Len(h) = Len(f)
  /\ \A i \in 1 .. Len(f) : h[i].len = f[i].len /\ h[i].base = f[i].base

(* n has been added to the count, and nothing else that matters changed.   *)
Counted(g, h, n) ==
  /\ IsState(h)
  /\ h.py = g.py /\ h.ok = g.ok
  /\ h.len = g.len + n
  /\ SameHeights(g.frames, h.frames)
  /\ h.outer = g.outer

-----------------------------------------------------------------------------
(* What a step, or a handler that is called, does to the height.           *)

Filling == {"fillTest", "fillForward", "fillBack", "fillBackTest", "fillArm", "fillEnds",
            "editSetup", "editForward"}
Placing == {"jump", "jumpToEnd", "mark"}

\* A chunk that leaves a value.
Valued(e) == e.k \notin DefinitionKinds \union {"typeasc"}

\* The steps that only count, with what they add.
Counting(s) ==
  \/ s.do \in {"const", "name", "null", "store", "pop", "call"} \union Filling \union Placing
  \/ s.do = "put" /\ s.op # "POP_TOP"
  \/ s.do \in {"inc", "dec"} /\ s.n \in Nat
  \/ s.do = "expr" /\ IsValue(Hir, s.e)
  \/ s.do = "chunk" /\ s.e \in Hir
  \/ s.do = "block" /\ s.b \in Seq(Hir) /\ (s.b = <<>> \/ ~Mute(s.b))
  \/ s.do = "arm" /\ FormedArm(Hir, s.arm) /\ Leaves(s.arm.body) /\ s.isLast \in BOOLEAN
  \/ /\ s.do = "guard" /\ FormedArm(Hir, s.arm) /\ s.isLast \in BOOLEAN
     /\ s.i \in 1 .. Len(s.arm.guards)
  \/ s.do = "requirement"

Gain(v, s) ==
  CASE s.do \in {"const", "name", "expr"} -> 1
    [] s.do = "chunk" -> IF Valued(s.e) THEN 1 ELSE 0
    [] s.do = "block" -> IF Leaves(s.b) THEN 1 ELSE 0
    [] s.do = "null" -> IF v >= 11 THEN 1 ELSE 0
    [] s.do = "call" -> IF v >= 11 THEN -1 ELSE 0
    [] s.do \in {"store", "pop"} -> -1
    [] s.do = "arm" -> IF s.isLast THEN -1 ELSE 0
    [] s.do = "inc" -> s.n
    [] s.do = "dec" -> -s.n
    [] OTHER -> 0

\* What is known of the last unit after it.
Flag(a, s) ==
  CASE s.do = "pop" -> "yes"
    [] s.do \in {"store", "put"} -> "no"
    [] s.do = "chunk" ->
         IF s.e.k = "typeasc" THEN a.pop ELSE IF Valued(s.e) THEN "any" ELSE "no"
    [] s.do \in {"inc", "dec"} -> a.pop
    [] OTHER -> "any"

Counts(v, a, s, b) ==
  /\ Counting(s)
  /\ b \in Height
  /\ b.len = a.len + Gain(v, s)
  /\ b.pop \in {Flag(a, s), "any"}
  /\ b.frames = a.frames /\ b.outer = a.outer
  /\ (s.do = "block" /\ s.b = <<>>) => b = a

Top(a) == Last(a.frames)
Level(a, l, pop) == [a EXCEPT !.len = l, !.pop = pop]
Based(a) == [a.frames EXCEPT ![Len(a.frames)] = [len |-> Top(a).len, base |-> a.len]]

Frames(a, s, b) ==
  /\ b \in Height
  /\ CASE s.do = "push" ->
            /\ b.frames = Append(a.frames, [len |-> a.len, base |-> a.len])
            /\ b.len = a.len /\ b.outer = a.outer /\ b.pop \in {a.pop, "any"}
       [] s.do = "drop" ->
            /\ a.frames # <<>> /\ b.frames = Front(a.frames)
            /\ b.len = a.len /\ b.outer = a.outer /\ b.pop \in {a.pop, "any"}
       [] s.do = "assert" -> a.frames # <<>> /\ a.len = Top(a).len + 1 /\ b = a
       [] s.do = "balance" ->
            a.frames # <<>> /\ a.len > Top(a).len /\ b = Level(a, Top(a).len + 1, a.pop)
       [] s.do = "popAbove" ->
            a.frames # <<>> /\ b = IF a.len > Top(a).len THEN Level(a, a.len - 1, "yes") ELSE a
       [] s.do = "popOne" -> b = IF a.len = 1 THEN Level(a, 0, "yes") ELSE a
       [] s.do = "shell" -> b = Level(a, 0, "any")
       [] s.do = "cancel" ->
            \/ a.pop = "yes" /\ b = Level(a, a.len + 1, "any")
            \/ a.pop = "no" /\ b = Level(a, a.len, "any")
       [] s.do = "base" ->
            /\ a.frames # <<>> /\ b.frames = Based(a)
            /\ b.len = a.len /\ b.pop = a.pop /\ b.outer = a.outer
       [] s.do = "popLoop" ->
            /\ a.frames # <<>> /\ s.n \in Nat /\ Top(a).base >= s.n
            /\ a.len \in {Top(a).base - s.n, Top(a).base - s.n + 1}
            /\ b = Level(a, Top(a).base - s.n, "any")
       [] s.do = "enter" ->
            /\ b.outer = Append(a.outer, a.len) /\ b.len = 0 /\ b.pop \in {"no", "any"}
            /\ b.frames = a.frames
       [] s.do = "leave" ->
            /\ a.outer # <<>> /\ a.len <= 1
            /\ b.outer = Front(a.outer) /\ b.len = Last(a.outer) /\ b.pop = "any"
            /\ b.frames = a.frames
       [] OTHER -> FALSE

Goes(v, a, s, b) == a \in Height /\ b \in Height /\ (Counts(v, a, s, b) \/ Frames(a, s, b))

\* The steps lead from the height a to the height b.
Leads(v, steps, a, b) ==
  \E p \in Seq(Height) :
    /\ \E T : steps \in Seq(T)
    /\ Len(p) = Len(steps) + 1 /\ p[1] = a /\ p[Len(steps) + 1] = b
    /\ \A i \in 1 .. Len(steps) : Goes(v, p[i], steps[i], p[i + 1])

-----------------------------------------------------------------------------
(* The heights in a handler, relative to the one at its start.             *)

Up(a, n) == Level(a, a.len + n, "any")
Kept(a, n) == Level(a, a.len + n, "no")     \* the last unit is no POP_TOP

(* The handler has begun: its frame is on top, and holds this height.      *)
Opened(a) ==
  /\ a \in Height /\ a.pop = "any"
  /\ a.frames # <<>> /\ Top(a) = [len |-> a.len, base |-> a.len]

(* A step that adds n.                                                     *)
Does(v, s, n) ==
  Counting(s) /\ Gain(v, s) = n /\ ~(s.do = "block" /\ s.b = <<>>)

(* A step that leads from m to n; there is room for n.                     *)
Takes(v, s, m, n) == Does(v, s, n - m)
Room(a, n) == n \in Int /\ a.len + n >= 0

Null(v) == IF v >= 11 THEN 1 ELSE 0

-----------------------------------------------------------------------------
(* Sequences.                                                              *)

\* What is not empty ends with its last element, and front has the others.
LEMMA LastOfSeq ==
  ASSUME NEW S, NEW s \in Seq(S), s # <<>>
  PROVE  /\ Len(s) \in Nat \ {0} /\ Last(s) = s[Len(s)] /\ Last(s) \in S
         /\ Front(s) \in Seq(S) /\ Len(Front(s)) = Len(s) - 1
         /\ \A i \in 1 .. Len(s) - 1 : Front(s)[i] = s[i]
<1>1. Len(s) \in Nat \ {0}
  OBVIOUS
<1>2. Last(s) = s[Len(s)] /\ Last(s) \in S
  BY <1>1 DEF Last
<1>3. Front(s) = [i \in 1 .. Len(s) - 1 |-> s[i]]
  BY <1>1 DEF Front
<1>4. Front(s) \in [1 .. Len(s) - 1 -> S]
  BY <1>3
<1>5. Front(s) \in Seq(S)
  BY <1>4, <1>1, SeqDef
<1> QED
  BY <1>1, <1>2, <1>3, <1>5

\* Putting an element in a sequence adds at most that element to its range, ...
LEMMA ElementReplaced ==
  ASSUME NEW S, NEW s \in Seq(S), NEW k, NEW x
  PROVE  /\ [s EXCEPT ![k] = x] \in Seq(S \union {x})
         /\ Len([s EXCEPT ![k] = x]) = Len(s)
<1> DEFINE t == [s EXCEPT ![k] = x]
<1>1. Len(s) \in Nat /\ DOMAIN t = 1 .. Len(s)
  OBVIOUS
<1>2. \A i \in 1 .. Len(s) : t[i] \in S \union {x}
  OBVIOUS
<1>3. t = [i \in 1 .. Len(s) |-> t[i]]
  OBVIOUS
<1> HIDE DEF t
<1>4. t \in [1 .. Len(s) -> S \union {x}]
  BY <1>2, <1>3
<1>5. t \in Seq(S \union {x})
  BY <1>1, <1>4, SeqDef
<1>6. Len(t) = Len(s)
  BY <1>1, <1>5, LenProperties
<1> QED
  BY <1>5, <1>6 DEF t

\* ... and nothing if it is of the range already.
LEMMA ElementKept ==
  ASSUME NEW S, NEW s \in Seq(S), NEW k, NEW x, k \in 1 .. Len(s) => x \in S
  PROVE  /\ [s EXCEPT ![k] = x] \in Seq(S)
         /\ Len([s EXCEPT ![k] = x]) = Len(s)
         /\ \A i \in 1 .. Len(s) : [s EXCEPT ![k] = x][i] = IF i = k THEN x ELSE s[i]
<1>1. CASE k \in 1 .. Len(s)
  BY <1>1, ExceptSeq
<1>2. CASE k \notin 1 .. Len(s)
  <2>1. DOMAIN s = 1 .. Len(s)
    OBVIOUS
  <2>2. [s EXCEPT ![k] = x] = s
    BY <1>2, <2>1
  <2> QED
    BY <1>2, <2>2
<1> QED
  BY <1>1, <1>2

\* A sequence is empty if its length is 0.
LEMMA NoElements ==
  ASSUME NEW S, NEW s \in Seq(S)
  PROVE  s = <<>> <=> Len(s) = 0
OBVIOUS

-----------------------------------------------------------------------------
(* The parts of the generator's state.                                     *)

\* Other code makes another state of the generator.
LEMMA CodeReplaced ==
  ASSUME NEW U, NEW W, NEW g \in GenState(U), NEW c \in Seq(W)
  PROVE  [g EXCEPT !.code = c] \in GenState(U \union W)
<1> DEFINE V == U \union W
           A == [code : Seq(U), len : Nat, size : Nat]
           B == [code : Seq(V), len : Nat, size : Nat]
           C == [code : Seq(U), size : Nat]
           D == [code : Seq(V), size : Nat]
<1>1. c \in Seq(V)
  BY SeqMonotonic
<1>2. A \subseteq B
  BY SeqMonotonic
<1>3. C \subseteq D
  BY SeqMonotonic
<1>4. g.outer \in Seq(A) /\ g.done \in Seq(C)
  BY DEF GenState
<1>5. g.outer \in Seq(B)
  <2> HIDE DEF A, B
  <2> QED
    BY <1>2, <1>4, SeqMonotonic
<1>6. g.done \in Seq(D)
  <2> HIDE DEF C, D
  <2> QED
    BY <1>3, <1>4, SeqMonotonic
<1> QED
  BY <1>1, <1>5, <1>6 DEF GenState

\* A POP_TOP has no cache units: it stays the last unit when it is written.
LEMMA CachesCounted ==
  ASSUME NEW op, NEW v
  PROVE  CacheUnits(op, v) \in Nat /\ CacheUnits("POP_TOP", v) = 0
BY DEF CacheUnits

\* A written instruction is the last one, except for caches.
LEMMA WriteSound ==
  ASSUME NEW g, IsState(g), NEW op, NEW arg
  PROVE  /\ IsState(Write(g, op, arg))
         /\ Write(g, op, arg) = [g EXCEPT !.code = Write(g, op, arg).code]
         /\ IsPopTop(Write(g, op, arg).code) <=> op = "POP_TOP"
<1> PICK U : g \in GenState(U)
  BY DEF IsState
<1> DEFINE cache == [op |-> "CACHE", arg |-> 0]
           instr == [op |-> op, arg |-> arg]
           n == CacheUnits(op, g.py)
           caches == [i \in 1 .. n |-> cache]
           W == U \union {instr, cache}
           c == (g.code \o <<instr>>) \o caches
<1>1. n \in Nat /\ (op = "POP_TOP" => n = 0)
  BY CachesCounted
<1>2. caches \in Seq(W) /\ Len(caches) = n
  BY <1>1
<1>3. g.code \in Seq(W)
  BY SeqMonotonic DEF GenState
<1>4. g.code \o <<instr>> \in Seq(W) /\ Len(g.code \o <<instr>>) = Len(g.code) + 1
      /\ (g.code \o <<instr>>)[Len(g.code) + 1] = instr /\ Len(g.code) \in Nat
  BY <1>3
<1> HIDE DEF caches, W, n
<1>5. c \in Seq(W) /\ Len(c) = Len(g.code) + 1 + n
      /\ c[Len(g.code) + 1] = instr
      /\ \A i \in 1 .. n : c[Len(g.code) + 1 + i] = caches[i]
  BY <1>1, <1>2, <1>4, SMTT(30)
<1>6. Write(g, op, arg) = [g EXCEPT !.code = c]
  BY DEF Write, c, caches, n
<1> HIDE DEF c
<1>7. c # <<>> /\ Last(c) = c[Len(c)]
  <2>1. Len(c) # 0
    BY <1>5, <1>1, <1>4
  <2> QED
    BY <2>1 DEF Last
<1>8. Last(c).op = "POP_TOP" <=> op = "POP_TOP"
  <2>1. CASE n = 0
    BY <2>1, <1>7, <1>5, <1>4
  <2>2. CASE n # 0
    <3>1. Last(c) = caches[n]
      BY <2>2, <1>1, <1>5, <1>7, <1>4
    <3>2. caches[n] = cache
      BY <2>2, <1>1 DEF caches
    <3> QED
      BY <3>1, <3>2, <2>2, <1>1
  <2> QED
    BY <2>1, <2>2
<1>9. Write(g, op, arg).code = c
  BY <1>6 DEF GenState
<1>10. Write(g, op, arg) \in GenState(U \union W)
  BY <1>5, <1>6, CodeReplaced
<1> QED
  BY <1>6, <1>7, <1>8, <1>9, <1>10 DEF IsState, IsPopTop

\* A unit whose argument is given later.
LEMMA ArgGiven ==
  ASSUME NEW g, IsState(g), NEW k, NEW arg
  PROVE  /\ IsState([g EXCEPT !.code[k].arg = arg])
         /\ [g EXCEPT !.code[k].arg = arg]
              = [g EXCEPT !.code = [g EXCEPT !.code[k].arg = arg].code]
<1> PICK U : g \in GenState(U)
  BY DEF IsState
<1> DEFINE unit1 == [g.code[k] EXCEPT !.arg = arg]
           c == [g.code EXCEPT ![k] = unit1]
           W == U \union {unit1}
<1>1. g.code \in Seq(U)
  BY DEF GenState
<1>2. c \in Seq(W)
  BY <1>1, ElementReplaced
<1>3. [g EXCEPT !.code[k].arg = arg] = [g EXCEPT !.code = c]
  OBVIOUS
<1> HIDE DEF c
<1>4. [g EXCEPT !.code = c].code = c
  BY DEF GenState
<1> QED
  BY <1>2, <1>3, <1>4, CodeReplaced DEF IsState

-----------------------------------------------------------------------------
(* The steps that count.                                                   *)

\* The parts of a state.
LEMMA StateParts ==
  ASSUME NEW g, IsState(g)
  PROVE  /\ g.len \in Nat /\ g.size \in Nat /\ g.py \in Versions /\ g.ok \in BOOLEAN
         /\ g.frames \in Seq(FrameRecord)
         /\ SameHeights(g.frames, g.frames)
BY DEF IsState, GenState, SameHeights

\* The same fields, and the same heights of the frames.
LEMMA CountedParts ==
  ASSUME NEW g, IsState(g), NEW h, IsState(h), NEW n \in Int,
         h.py = g.py, h.ok = g.ok, h.len = g.len + n, h.outer = g.outer,
         SameHeights(g.frames, h.frames)
  PROVE  Counted(g, h, n)
BY DEF Counted

\* Changing the code leaves the count alone.
LEMMA CodeCounted ==
  ASSUME NEW U, NEW W, NEW g \in GenState(U), NEW c \in Seq(W)
  PROVE  Counted(g, [g EXCEPT !.code = c], 0)
<1> DEFINE h == [g EXCEPT !.code = c]
<1>1. IsState(g) /\ IsState(h)
  BY CodeReplaced DEF IsState
<1>2. h.py = g.py /\ h.ok = g.ok /\ h.len = g.len /\ h.frames = g.frames /\ h.outer = g.outer
  BY DEF GenState
<1>3. g.len + 0 = g.len /\ SameHeights(g.frames, g.frames)
  BY <1>1, StateParts
<1> HIDE DEF h
<1>4. Counted(g, h, 0)
  BY <1>1, <1>2, <1>3, CountedParts
<1> QED
  BY <1>4 DEF h

Resized(g, l, k) == [g EXCEPT !.len = l, !.size = k]

\* Changing the count leaves everything else alone.
LEMMA LenReplaced ==
  ASSUME NEW g, IsState(g), NEW l \in Nat, NEW k \in Nat
  PROVE  LET h == Resized(g, l, k)
         IN  /\ IsState(h)
             /\ h.py = g.py /\ h.ok = g.ok /\ h.len = l /\ h.frames = g.frames
             /\ h.outer = g.outer /\ h.code = g.code
<1> DEFINE h == Resized(g, l, k)
<1>1. PICK U : g \in GenState(U)
  BY DEF IsState
<1>2. h \in GenState(U)
  BY <1>1 DEF GenState, Resized
<1>3. /\ h.py = g.py /\ h.ok = g.ok /\ h.len = l /\ h.frames = g.frames
      /\ h.outer = g.outer /\ h.code = g.code
  BY <1>1 DEF GenState, Resized
<1>4. IsState(h)
  BY <1>2 DEF IsState
<1> QED
  BY <1>3, <1>4

\* Write counts nothing, and a POP_TOP is last only after a POP_TOP was written.
LEMMA WriteCounted ==
  ASSUME NEW g, IsState(g), NEW op, NEW arg
  PROVE  /\ Counted(g, Write(g, op, arg), 0)
         /\ IsPopTop(Write(g, op, arg).code) <=> op = "POP_TOP"
<1>1. /\ IsState(Write(g, op, arg))
      /\ Write(g, op, arg) = [g EXCEPT !.code = Write(g, op, arg).code]
      /\ IsPopTop(Write(g, op, arg).code) <=> op = "POP_TOP"
  BY WriteSound
<1>2. g.len \in Nat /\ SameHeights(g.frames, g.frames)
  BY StateParts
<1> DEFINE h == Write(g, op, arg)
<1>3. h = [g EXCEPT !.code = h.code]
  BY <1>1
<1> HIDE DEF h
<1>4. h.py = g.py /\ h.ok = g.ok /\ h.len = g.len /\ h.frames = g.frames /\ h.outer = g.outer
  BY <1>3 DEF IsState, GenState
<1>5. Counted(g, h, 0)
  BY <1>1, <1>2, <1>4 DEF Counted, h
<1> QED
  BY <1>1, <1>5 DEF h

\* stack_inc_n adds to the count.
LEMMA IncCounted ==
  ASSUME NEW g, IsState(g), NEW n \in Nat
  PROVE  /\ Counted(g, StackInc(g, n), n)
         /\ StackInc(g, n).code = g.code
<1> DEFINE l == g.len + n
           k == IF g.len + n > g.size THEN g.len + n ELSE g.size
<1>1. l \in Nat /\ k \in Nat /\ SameHeights(g.frames, g.frames)
  BY StateParts
<1>2. StackInc(g, n) = Resized(g, l, k)
  BY DEF StackInc, Resized
<1> HIDE DEF k, l
<1> DEFINE h == Resized(g, l, k)
<1>3. /\ IsState(h) /\ h.py = g.py /\ h.ok = g.ok /\ h.len = l /\ h.frames = g.frames
      /\ h.outer = g.outer /\ h.code = g.code
  BY <1>1, LenReplaced
<1> HIDE DEF h
<1>4. Counted(g, h, n)
  BY <1>1, <1>3, CountedParts DEF l
<1> QED
  BY <1>2, <1>3, <1>4 DEF h

\* stack_dec_n takes from the count what is there.
LEMMA DecCounted ==
  ASSUME NEW g, IsState(g), NEW n \in Nat, n <= g.len
  PROVE  /\ Counted(g, StackDec(g, n), 0 - n)
         /\ StackDec(g, n).code = g.code
<1> DEFINE l == g.len - n
           k == g.size
           h == Resized(g, l, k)
<1>1. l \in Nat /\ k \in Nat
  BY StateParts
<1>2. StackDec(g, n) = h
  <2>1. StackDec(g, n) = [g EXCEPT !.len = l]
    BY <1>1, StateParts DEF StackDec
  <2>2. [g EXCEPT !.len = l] = Resized(g, l, k)
    BY DEF IsState, GenState, Resized
  <2> QED
    BY <2>1, <2>2
<1>3. /\ IsState(h) /\ h.py = g.py /\ h.ok = g.ok /\ h.len = l /\ h.frames = g.frames
      /\ h.outer = g.outer /\ h.code = g.code
  <2> HIDE DEF k, l
  <2> QED
    BY <1>1, LenReplaced
<1>4. l = g.len + (0 - n) /\ SameHeights(g.frames, g.frames)
  BY StateParts
<1> HIDE DEF h
<1>5. Counted(g, h, 0 - n)
  BY <1>3, <1>4, CountedParts
<1> QED
  BY <1>2, <1>3, <1>5

\* Two changes of the count add up.
LEMMA CountedTwice ==
  ASSUME NEW g, NEW h, NEW k, IsState(g), NEW m \in Int, NEW n \in Int,
         Counted(g, h, m), Counted(h, k, n)
  PROVE  Counted(g, k, m + n)
<1>1. g.len \in Nat /\ h.len \in Nat
  BY StateParts DEF Counted
<1>2. SameHeights(g.frames, k.frames)
  BY DEF Counted, SameHeights
<1> QED
  BY <1>1, <1>2 DEF Counted

\* A state whose count has changed stands at the height with that change.
LEMMA CountedStands ==
  ASSUME NEW g, NEW h, NEW a \in Height, NEW b \in Height, NEW n \in Int,
         Stands(g, a), Counted(g, h, n),
         b.len = a.len + n, b.frames = a.frames, b.outer = a.outer,
         b.pop = "yes" => IsPopTop(h.code),
         b.pop = "no" => ~IsPopTop(h.code)
  PROVE  IsState(h) /\ Stands(h, b) /\ h.py = g.py
BY DEF Counted, Stands, SameHeights, Height

-----------------------------------------------------------------------------
(* Frames, and the instructions that are given their argument later.       *)

\* The last frame is changed: its marks, or its ends.
LEMMA FrameChanged ==
  ASSUME NEW g, IsState(g), NEW x,
         g.frames # <<>> =>
           /\ x \in FrameRecord
           /\ x.len = g.frames[Len(g.frames)].len /\ x.base = g.frames[Len(g.frames)].base
  PROVE  Counted(g, [g EXCEPT !.frames = [@ EXCEPT ![Len(g.frames)] = x]], 0)
<1>1. PICK U : g \in GenState(U)
  BY DEF IsState
<1> DEFINE f == g.frames
           n == Len(f)
           k == [f EXCEPT ![n] = x]
<1>2. f \in Seq(FrameRecord)
  BY <1>1 DEF GenState
<1>3. n \in 1 .. Len(f) => x \in FrameRecord
  BY <1>2
<1>4. /\ k \in Seq(FrameRecord) /\ Len(k) = Len(f)
      /\ \A i \in 1 .. Len(f) : k[i] = IF i = n THEN x ELSE f[i]
  BY <1>2, <1>3, ElementKept
<1>5. SameHeights(f, k)
  BY <1>2, <1>4 DEF SameHeights
<1>6. [g EXCEPT !.frames = k] \in GenState(U)
  BY <1>1, <1>4 DEF GenState
<1> DEFINE h == [g EXCEPT !.frames = k]
<1>7. IsState(h)
  BY <1>6 DEF IsState
<1>8. h.py = g.py /\ h.ok = g.ok /\ h.len = g.len + 0 /\ h.outer = g.outer /\ h.frames = k
  BY <1>1 DEF GenState
<1> HIDE DEF k, h
<1>9. Counted(g, h, 0)
  BY <1>5, <1>7, <1>8, CountedParts
<1> QED
  BY <1>9 DEF h, k

\* The places a handler remembers do not change the counts in its frame.
LEMMA FrameEdited ==
  ASSUME NEW f \in FrameRecord, NEW m \in Seq(Nat)
  PROVE  /\ [f EXCEPT !.marks = m] \in FrameRecord /\ [f EXCEPT !.ends = m] \in FrameRecord
         /\ [f EXCEPT !.marks = m].len = f.len /\ [f EXCEPT !.ends = m].len = f.len
         /\ [f EXCEPT !.marks = m].base = f.base /\ [f EXCEPT !.ends = m].base = f.base
BY DEF FrameRecord

\* Remembering a place counts nothing.
LEMMA MarkCounted ==
  ASSUME NEW g, IsState(g)
  PROVE  /\ Counted(g, MarkHere(g), 0)
         /\ Counted(g, EndHere(g), 0)
         /\ Counted(g, [g EXCEPT !.frames[Len(g.frames)].marks = <<>>], 0)
<1> DEFINE last == g.frames[Len(g.frames)]
           x == [last EXCEPT !.marks = Append(@, Lasti(g))]
           y == [last EXCEPT !.ends = Append(@, Lasti(g))]
           z == [last EXCEPT !.marks = <<>>]
<1>1. g.frames \in Seq(FrameRecord)
  BY StateParts
<1>2. Lasti(g) \in Nat
  BY DEF Lasti, IsState, GenState
<1>3. g.frames # <<>> => last \in FrameRecord
  BY <1>1
<1>4. g.frames # <<>> =>
        /\ x \in FrameRecord /\ y \in FrameRecord /\ z \in FrameRecord
        /\ x.len = last.len /\ y.len = last.len /\ z.len = last.len
        /\ x.base = last.base /\ y.base = last.base /\ z.base = last.base
  <2> SUFFICES ASSUME g.frames # <<>>
               PROVE  /\ x \in FrameRecord /\ y \in FrameRecord /\ z \in FrameRecord
                      /\ x.len = last.len /\ y.len = last.len /\ z.len = last.len
                      /\ x.base = last.base /\ y.base = last.base /\ z.base = last.base
    OBVIOUS
  <2> HIDE DEF last
  <2>1. last \in FrameRecord
    BY <1>3
  <2>2. /\ Append(last.marks, Lasti(g)) \in Seq(Nat) /\ Append(last.ends, Lasti(g)) \in Seq(Nat)
        /\ <<>> \in Seq(Nat)
    BY <2>1, <1>2 DEF FrameRecord
  <2> QED
    BY <2>1, <2>2, FrameEdited
<1>5. Counted(g, [g EXCEPT !.frames = [@ EXCEPT ![Len(g.frames)] = x]], 0)
  BY <1>4, FrameChanged
<1>6. Counted(g, [g EXCEPT !.frames = [@ EXCEPT ![Len(g.frames)] = y]], 0)
  BY <1>4, FrameChanged
<1>7. Counted(g, [g EXCEPT !.frames = [@ EXCEPT ![Len(g.frames)] = z]], 0)
  BY <1>4, FrameChanged
<1>8. MarkHere(g) = [g EXCEPT !.frames = [@ EXCEPT ![Len(g.frames)] = x]]
  BY DEF MarkHere
<1>9. EndHere(g) = [g EXCEPT !.frames = [@ EXCEPT ![Len(g.frames)] = y]]
  BY DEF EndHere
<1>10. [g EXCEPT !.frames[Len(g.frames)].marks = <<>>]
        = [g EXCEPT !.frames = [@ EXCEPT ![Len(g.frames)] = z]]
  OBVIOUS
<1> HIDE DEF x, y, z
<1> QED
  BY <1>5, <1>6, <1>7, <1>8, <1>9, <1>10

\* Giving an instruction its argument later counts nothing (edit_code, fill_jump), ...
LEMMA ArgCounted ==
  ASSUME NEW g, IsState(g), NEW k, NEW arg
  PROVE  Counted(g, [g EXCEPT !.code[k].arg = arg], 0)
<1> DEFINE h == [g EXCEPT !.code[k].arg = arg]
<1>1. IsState(h) /\ h = [g EXCEPT !.code = h.code]
  BY ArgGiven
<1>2. g.len \in Nat /\ SameHeights(g.frames, g.frames)
  BY StateParts
<1> HIDE DEF h
<1>3. h.py = g.py /\ h.ok = g.ok /\ h.len = g.len /\ h.frames = g.frames /\ h.outer = g.outer
  BY <1>1 DEF IsState, GenState
<1>4. Counted(g, h, 0)
  BY <1>1, <1>2, <1>3 DEF Counted
<1> QED
  BY <1>4 DEF h

\* ... nor does it for all the places remembered.
LEMMA FillAllCounted ==
  ASSUME NEW g, IsState(g), NEW places, NEW To(_)
  PROVE  Counted(g, FillAll(g, places, To), 0)
<1>1. PICK U : g \in GenState(U)
  BY DEF IsState
<1> DEFINE unit1(i) == IF \E k \in DOMAIN places : i = places[k] \div 2 + 2
                      THEN [g.code[i] EXCEPT !.arg = JumpArg(g, To(2 * (i - 2)))]
                      ELSE g.code[i]
           n == Len(g.code)
           W == {unit1(i) : i \in 1 .. n}
           c == [i \in 1 .. n |-> unit1(i)]
<1>2. n \in Nat
  BY <1>1 DEF GenState
<1>3. c \in Seq(W)
  <2> HIDE DEF unit1
  <2> QED
    BY <1>2
<1>4. FillAll(g, places, To) = [g EXCEPT !.code = c]
  BY DEF FillAll
<1> HIDE DEF c, W
<1> QED
  BY <1>1, <1>3, <1>4, CodeCounted

-----------------------------------------------------------------------------
(* One step that counts.                                                   *)

\* Declaring a stack size counts nothing.
LEMMA SizeCounted ==
  ASSUME NEW g, IsState(g), NEW k \in Nat
  PROVE  Counted(g, [g EXCEPT !.size = k], 0)
<1> DEFINE l == g.len
           h == Resized(g, l, k)
<1>1. l \in Nat
  BY StateParts
<1>2. [g EXCEPT !.size = k] = h
  BY DEF IsState, GenState, Resized
<1>3. /\ IsState(h) /\ h.py = g.py /\ h.ok = g.ok /\ h.len = l /\ h.frames = g.frames
      /\ h.outer = g.outer
  <2> HIDE DEF l
  <2> QED
    BY <1>1, LenReplaced
<1>4. l = g.len + 0 /\ SameHeights(g.frames, g.frames)
  BY StateParts
<1> HIDE DEF h
<1>5. Counted(g, h, 0)
  BY <1>3, <1>4, CountedParts
<1> QED
  BY <1>2, <1>5

\* An instruction, and one more on the stack.
LEMMA WriteIncCounted ==
  ASSUME NEW g, IsState(g), NEW op, NEW arg
  PROVE  Counted(g, StackInc(Write(g, op, arg), 1), 1)
<1> DEFINE h == Write(g, op, arg)
<1>1. Counted(g, h, 0) /\ IsState(h)
  BY WriteCounted DEF Counted
<1> HIDE DEF h
<1>2. Counted(h, StackInc(h, 1), 1)
  BY <1>1, IncCounted
<1>3. Counted(g, StackInc(h, 1), 0 + 1)
  BY <1>1, <1>2, CountedTwice
<1> QED
  BY <1>3 DEF h

\* An instruction, and one less.
LEMMA WriteDecCounted ==
  ASSUME NEW g, IsState(g), NEW op, NEW arg, g.len >= 1
  PROVE  /\ Counted(g, StackDec(Write(g, op, arg), 1), 0 - 1)
         /\ IsPopTop(StackDec(Write(g, op, arg), 1).code) <=> op = "POP_TOP"
<1> DEFINE h == Write(g, op, arg)
<1>1. Counted(g, h, 0) /\ IsState(h) /\ (IsPopTop(h.code) <=> op = "POP_TOP")
  BY WriteCounted DEF Counted
<1> HIDE DEF h
<1>2. h.len = g.len /\ g.len \in Nat
  BY <1>1, StateParts DEF Counted
<1>3. Counted(h, StackDec(h, 1), 0 - 1) /\ StackDec(h, 1).code = h.code
  BY <1>1, <1>2, DecCounted
<1>4. Counted(g, StackDec(h, 1), 0 + (0 - 1))
  BY <1>1, <1>3, CountedTwice
<1> QED
  BY <1>1, <1>3, <1>4 DEF h

\* A name adds one to the count (emit_load_name_instr).
LEMMA LoadNameCounted ==
  ASSUME NEW g, IsState(g)
  PROVE  Counted(g, LoadName(g), 1)
<1> DEFINE h == StackInc(Write(g, "LOAD_NAME", 0), 1)
           k == h.size + 2
<1>1. Counted(g, h, 1) /\ IsState(h)
  BY WriteIncCounted DEF Counted
<1>2. LoadName(g) = [h EXCEPT !.size = k]
  BY DEF LoadName
<1> HIDE DEF h
<1>3. k \in Nat
  BY <1>1, StateParts
<1> HIDE DEF k
<1> DEFINE i == [h EXCEPT !.size = k]
<1>4. Counted(h, i, 0)
  BY <1>1, <1>3, SizeCounted
<1> HIDE DEF i
<1>5. Counted(g, i, 1 + 0)
  BY <1>1, <1>4, CountedTwice
<1> QED
  BY <1>2, <1>5 DEF i

\* A call of 3.11 takes the null it was given off the count.
LEMMA PrecallCounted ==
  ASSUME NEW g, IsState(g), NEW n, g.len >= 1
  PROVE  Counted(g, PrecallAndCall(g, n), 0 - 1)
<1> DEFINE h == Write(g, "PRECALL", n)
<1>1. Counted(g, h, 0) /\ IsState(h)
  BY WriteCounted DEF Counted
<1>2. h.len = g.len /\ g.len \in Nat
  BY <1>1, StateParts DEF Counted
<1> HIDE DEF h
<1>3. Counted(h, StackDec(Write(h, "CALL", n), 1), 0 - 1)
  BY <1>1, <1>2, WriteDecCounted
<1>4. Counted(g, StackDec(Write(h, "CALL", n), 1), 0 + (0 - 1))
  BY <1>1, <1>3, CountedTwice
<1> QED
  BY <1>4 DEF h, PrecallAndCall

\* What a step adds is a number.
LEMMA GainIsInt ==
  ASSUME NEW v, NEW s, Counting(s)
  PROVE  Gain(v, s) \in Int
<1>1. CASE s.do = "inc" \/ s.do = "dec"
  <2>1. s.n \in Nat
    BY <1>1 DEF Counting, Filling, Placing
  <2>2. Gain(v, s) = s.n \/ Gain(v, s) = 0 - s.n
    BY <1>1, <2>1 DEF Gain
  <2> QED
    BY <2>1, <2>2
<1>2. CASE ~(s.do = "inc" \/ s.do = "dec")
  <2>1. Gain(v, s) \in {1, 0, 0 - 1}
    BY <1>2 DEF Gain
  <2> QED
    BY <2>1
<1> QED
  BY <1>1, <1>2

\* A step that writes instructions, or changes the count.
LEMMA WritingCounts ==
  ASSUME NEW g, IsState(g), NEW s, Counting(s), s.do \in Writing,
         g.len + Gain(g.py, s) >= 0
  PROVE  /\ Counted(g, WriteStep(g, s), Gain(g.py, s))
         /\ s.do = "pop" => IsPopTop(WriteStep(g, s).code)
         /\ s.do \in {"put", "store"} => ~IsPopTop(WriteStep(g, s).code)
         /\ s.do \in {"inc", "dec"} => WriteStep(g, s).code = g.code
<1>0. g.len \in Nat /\ SameHeights(g.frames, g.frames) /\ g.py \in Versions
  BY StateParts
<1>1. CASE s.do = "put"
  <2>1. s.op # "POP_TOP" /\ Gain(g.py, s) = 0 /\ WriteStep(g, s) = Write(g, s.op, s.arg)
    BY <1>1 DEF Counting, Gain, WriteStep, Filling, Placing
  <2> QED
    BY <1>1, <2>1, WriteCounted
<1>2. CASE s.do = "inc"
  <2>1. s.n \in Nat /\ Gain(g.py, s) = s.n /\ WriteStep(g, s) = StackInc(g, s.n)
    BY <1>2 DEF Counting, Gain, WriteStep, Filling, Placing
  <2> QED
    BY <1>2, <2>1, IncCounted
<1>3. CASE s.do = "dec"
  <2>1. s.n \in Nat /\ Gain(g.py, s) = 0 - s.n /\ WriteStep(g, s) = StackDec(g, s.n)
    BY <1>3 DEF Counting, Gain, WriteStep, Filling, Placing
  <2>2. s.n <= g.len
    BY <1>0, <2>1
  <2> QED
    BY <1>3, <2>1, <2>2, DecCounted
<1>4. CASE s.do = "const"
  <2>1. Gain(g.py, s) = 1 /\ WriteStep(g, s) = StackInc(Write(g, "LOAD_CONST", s.kind), 1)
    BY <1>4 DEF Gain, WriteStep
  <2> QED
    BY <1>4, <2>1, WriteIncCounted
<1>5. CASE s.do = "name"
  <2>1. Gain(g.py, s) = 1 /\ WriteStep(g, s) = LoadName(g)
    BY <1>5 DEF Gain, WriteStep
  <2> QED
    BY <1>5, <2>1, LoadNameCounted
<1>6. CASE s.do = "null"
  <2>1. CASE g.py >= 11
    <3>1. Gain(g.py, s) = 1 /\ WriteStep(g, s) = StackInc(Write(g, "PUSH_NULL", 0), 1)
      BY <1>6, <2>1 DEF Gain, WriteStep
    <3> QED
      BY <1>6, <3>1, WriteIncCounted
  <2>2. CASE ~(g.py >= 11)
    <3>1. Gain(g.py, s) = 0 /\ WriteStep(g, s) = g
      BY <1>6, <2>2 DEF Gain, WriteStep
    <3>2. Counted(g, g, 0)
      BY <1>0, CountedParts
    <3> QED
      BY <1>6, <3>1, <3>2
  <2> QED
    BY <2>1, <2>2
<1>7. CASE s.do = "store"
  <2>1. Gain(g.py, s) = 0 - 1 /\ WriteStep(g, s) = StackDec(Write(g, "STORE_NAME", 0), 1)
    BY <1>7 DEF Gain, WriteStep
  <2>2. g.len >= 1
    BY <1>0, <2>1
  <2> QED
    BY <1>7, <2>1, <2>2, WriteDecCounted
<1>8. CASE s.do = "pop"
  <2>1. Gain(g.py, s) = 0 - 1 /\ WriteStep(g, s) = StackDec(Write(g, "POP_TOP", 0), 1)
    BY <1>8 DEF Gain, WriteStep, EmitPopTop
  <2>2. g.len >= 1
    BY <1>0, <2>1
  <2> QED
    BY <1>8, <2>1, <2>2, WriteDecCounted
<1>9. CASE s.do = "call"
  <2>1. CASE g.py >= 11
    <3>1. Gain(g.py, s) = 0 - 1 /\ WriteStep(g, s) = PrecallAndCall(g, s.n)
      BY <1>9, <2>1 DEF Gain, WriteStep, EmitCallInstr
    <3>2. g.len >= 1
      BY <1>0, <3>1
    <3> QED
      BY <1>9, <3>1, <3>2, PrecallCounted
  <2>2. CASE ~(g.py >= 11)
    <3>1. Gain(g.py, s) = 0 /\ WriteStep(g, s) = Write(g, s.op, s.n)
      BY <1>9, <2>2 DEF Gain, WriteStep, EmitCallInstr
    <3> QED
      BY <1>9, <3>1, WriteCounted
  <2> QED
    BY <2>1, <2>2
<1> QED
  BY <1>1, <1>2, <1>3, <1>4, <1>5, <1>6, <1>7, <1>8, <1>9 DEF Writing

\* A step that writes a jump, notes a place, or gives an instruction its argument.
LEMMA JumpingCounts ==
  ASSUME NEW g, IsState(g), NEW s, s.do \in Filling \union Placing
  PROVE  Counted(g, JumpStep(g, s), 0)
<1>1. Counted(g, MarkHere(g), 0) /\ Counted(g, EndHere(g), 0)
  BY MarkCounted
<1>2. ASSUME NEW h, Counted(g, h, 0), NEW op
      PROVE  Counted(g, WriteJump(h, op), 0)
  <2> DEFINE j == Write(h, "EXTENDED_ARG", 0)
  <2>1. IsState(h)
    BY <1>2 DEF Counted
  <2>2. Counted(h, j, 0)
    BY <2>1, WriteCounted
  <2> HIDE DEF j
  <2>3. Counted(g, j, 0 + 0)
    BY <1>2, <2>2, CountedTwice
  <2>4. IsState(j)
    BY <2>2 DEF Counted
  <2> DEFINE i == Write(j, op, 0)
  <2>5. Counted(j, i, 0)
    BY <2>4, WriteCounted
  <2> HIDE DEF i
  <2>6. Counted(g, i, 0 + 0)
    BY <2>3, <2>5, CountedTwice
  <2> QED
    BY <2>6 DEF i, j, WriteJump
<1>3. \A idx, to : Counted(g, FillJump(g, idx, to), 0)
  BY ArgCounted DEF FillJump
<1>4. \A idx, arg : Counted(g, EditCode(g, idx, arg), 0)
  BY ArgCounted DEF EditCode
<1>5. CASE s.do = "jump"
  BY <1>1, <1>2, <1>5 DEF JumpStep
<1>6. CASE s.do = "mark"
  BY <1>1, <1>6 DEF JumpStep
<1>7. CASE s.do = "jumpToEnd"
  BY <1>1, <1>2, <1>7 DEF JumpStep
<1>8. CASE s.do = "fillTest"
  BY <1>3, <1>8 DEF JumpStep
<1>9. CASE s.do = "fillForward"
  BY <1>3, <1>9 DEF JumpStep
<1>10. CASE s.do = "fillBack"
  BY <1>3, <1>10 DEF JumpStep
<1>11. CASE s.do = "fillBackTest"
  BY <1>3, <1>11 DEF JumpStep
<1>12. CASE s.do = "fillArm"
  <2> DEFINE To(idx) == ArmTarget(g, idx)
             h == FillAll(g, Frame(g).marks, To)
             k == [h EXCEPT !.frames[Len(g.frames)].marks = <<>>]
  <2>1. Counted(g, h, 0)
    BY FillAllCounted
  <2>2. JumpStep(g, s) = FillMarked(g)
    BY <1>12 DEF JumpStep
  <2>3. FillMarked(g) = k
    BY DEF FillMarked
  <2> HIDE DEF h
  <2>6. IsState(h) /\ Len(h.frames) = Len(g.frames)
    BY <2>1 DEF Counted, SameHeights
  <2>4. Counted(h, k, 0)
    BY <2>6, MarkCounted
  <2> HIDE DEF k
  <2>5. Counted(g, k, 0 + 0)
    BY <2>1, <2>4, CountedTwice
  <2> QED
    BY <2>2, <2>3, <2>5
<1>13. CASE s.do = "fillEnds"
  <2>1. JumpStep(g, s) = FillToEnd(g)
    BY <1>13 DEF JumpStep
  <2> DEFINE To(idx) == EndTarget(g, idx)
             h == FillAll(g, Frame(g).ends, To)
  <2>2. Counted(g, h, 0)
    BY FillAllCounted
  <2>3. FillToEnd(g) = h
    BY DEF FillToEnd
  <2> QED
    BY <2>1, <2>2, <2>3
<1>14. CASE s.do = "editSetup"
  BY <1>4, <1>14 DEF JumpStep
<1>15. CASE s.do = "editForward"
  BY <1>4, <1>15 DEF JumpStep
<1> QED
  BY <1>5, <1>6, <1>7, <1>8, <1>9, <1>10, <1>11, <1>12, <1>13, <1>14, <1>15 DEF Filling, Placing

\* One step that counts, from one height to the next.
LEMMA CountsSound ==
  ASSUME NEW g, IsState(g), NEW a \in Height, Stands(g, a),
         NEW s, NEW b, Counts(g.py, a, s, b), s.do \notin Calling
  PROVE  IsState(Step(g, s)) /\ Stands(Step(g, s), b) /\ Step(g, s).py = g.py
<1> DEFINE n == Gain(g.py, s)
           h == Step(g, s)
<1>1. /\ Counting(s) /\ b \in Height /\ b.len = a.len + n /\ b.pop \in {Flag(a, s), "any"}
      /\ b.frames = a.frames /\ b.outer = a.outer
  BY DEF Counts
<1>2. g.ok /\ g.len = a.len /\ a.len \in Nat /\ b.len \in Nat
  BY <1>1 DEF Stands, Height
<1>3. n \in Int
  BY <1>1, GainIsInt
<1>4. \/ s.do \in Writing \ Framing
      \/ s.do \in Filling \union Placing /\ s.do \notin Writing \union Framing
  BY <1>1 DEF Counting, Calling, Writing, Framing, Filling, Placing
<1>5. CASE s.do \in Writing \ Framing
  <2>1. h = WriteStep(g, s)
    BY <1>2, <1>5 DEF Step
  <2> HIDE DEF n
  <2>2. g.len + n >= 0
    BY <1>1, <1>2
  <2>3. /\ Counted(g, h, n)
        /\ s.do = "pop" => IsPopTop(h.code)
        /\ s.do \in {"put", "store"} => ~IsPopTop(h.code)
        /\ s.do \in {"inc", "dec"} => h.code = g.code
    BY <1>1, <1>5, <2>1, <2>2, WritingCounts DEF n
  <2>4. b.pop = "yes" => IsPopTop(h.code)
    BY <1>1, <1>5, <2>3 DEF Flag, Stands, Writing
  <2>5. b.pop = "no" => ~IsPopTop(h.code)
    BY <1>1, <1>5, <2>3 DEF Flag, Stands, Writing
  <2> HIDE DEF h
  <2> QED
    BY <1>1, <1>3, <2>3, <2>4, <2>5, CountedStands DEF h
<1>6. CASE s.do \in Filling \union Placing /\ s.do \notin Writing \union Framing
  <2>1. h = JumpStep(g, s)
    BY <1>2, <1>6 DEF Step
  <2>2. Counted(g, h, 0)
    BY <1>6, <2>1, JumpingCounts
  <2>3. n = 0 /\ b.pop = "any"
    BY <1>1, <1>6 DEF Gain, Flag, Filling, Placing
  <2> HIDE DEF h, n
  <2> QED
    BY <1>1, <1>3, <2>2, <2>3, CountedStands DEF h
<1> QED
  BY <1>4, <1>5, <1>6

-----------------------------------------------------------------------------
(* One step that looks at the frames, or at the last unit.                 *)

\* The parts of a height.
LEMMA HeightParts ==
  ASSUME NEW a \in Height
  PROVE  /\ a.len \in Nat /\ a.pop \in {"yes", "no", "any"}
         /\ a.frames \in Seq(HeightFrame) /\ a.outer \in Seq(Nat)
BY DEF Height

\* The frame on top has the counts the height tells.
LEMMA FrameOnTop ==
  ASSUME NEW g, IsState(g), NEW a \in Height, Stands(g, a), a.frames # <<>>
  PROVE  /\ Frame(g) \in FrameRecord /\ Frame(g).len = Top(a).len /\ Frame(g).base = Top(a).base
         /\ Top(a).len \in Nat /\ Top(a).base \in Nat /\ Frame(g) = g.frames[Len(g.frames)]
         /\ Top(a) = a.frames[Len(a.frames)]
<1>1. a.frames \in Seq(HeightFrame) /\ g.frames \in Seq(FrameRecord)
  BY HeightParts, StateParts
<1>2. Len(a.frames) \in Nat \ {0} /\ Len(g.frames) = Len(a.frames)
  BY <1>1 DEF Stands
<1>3. g.frames # <<>>
  BY <1>1, <1>2
<1>4. Top(a) = a.frames[Len(a.frames)] /\ Frame(g) = g.frames[Len(g.frames)]
  BY <1>3 DEF Top, Frame, Last
<1>5. Top(a) \in HeightFrame /\ Frame(g) \in FrameRecord
  BY <1>1, <1>2, <1>4
<1>6. Frame(g).len = Top(a).len /\ Frame(g).base = Top(a).base
  BY <1>2, <1>4 DEF Stands
<1> QED
  BY <1>4, <1>5, <1>6 DEF HeightFrame

\* Only the count changes, to any number.
LEMMA LenSet ==
  ASSUME NEW g, IsState(g), NEW l \in Nat
  PROVE  LET h == [g EXCEPT !.len = l]
         IN  Counted(g, h, l - g.len) /\ h.code = g.code
<1> DEFINE k == g.size
           h == Resized(g, l, k)
<1>1. k \in Nat
  BY StateParts
<1>2. [g EXCEPT !.len = l] = h
  BY DEF IsState, GenState, Resized
<1>3. /\ IsState(h) /\ h.py = g.py /\ h.ok = g.ok /\ h.len = l /\ h.frames = g.frames
      /\ h.outer = g.outer /\ h.code = g.code
  <2> HIDE DEF k
  <2> QED
    BY <1>1, LenReplaced
<1>4. l = g.len + (l - g.len) /\ l - g.len \in Int /\ SameHeights(g.frames, g.frames)
  BY StateParts
<1> HIDE DEF h
<1>5. Counted(g, h, l - g.len)
  BY <1>3, <1>4, CountedParts
<1> QED
  BY <1>2, <1>3, <1>5

\* A height with another count has the same frames and blocks.
LEMMA LevelParts ==
  ASSUME NEW a \in Height, NEW l \in Nat, NEW p \in {"yes", "no", "any"}
  PROVE  LET b == Level(a, l, p)
         IN  b \in Height /\ b.len = l /\ b.pop = p /\ b.frames = a.frames /\ b.outer = a.outer
BY DEF Height, Level

\* The step of a height that only changes the count and what is known of the last unit.
LEMMA LevelReached ==
  ASSUME NEW g, IsState(g), NEW a \in Height, Stands(g, a), NEW n \in Int, NEW h,
         Counted(g, h, n), NEW p \in {"yes", "no", "any"}, NEW l \in Nat, l = a.len + n,
         p = "yes" => IsPopTop(h.code),
         p = "no" => ~IsPopTop(h.code)
  PROVE  IsState(h) /\ Stands(h, Level(a, l, p)) /\ h.py = g.py
<1> DEFINE b == Level(a, l, p)
<1>1. b \in Height /\ b.len = l /\ b.pop = p /\ b.frames = a.frames /\ b.outer = a.outer
  BY DEF Level, Height
<1> HIDE DEF b
<1>2. IsState(h) /\ Stands(h, b) /\ h.py = g.py
  BY <1>1, CountedStands
<1> QED
  BY <1>2 DEF b

\* A handler begins: the count is remembered in a frame of its own.
LEMMA PushSound ==
  ASSUME NEW g, IsState(g), NEW a \in Height, Stands(g, a), NEW s, NEW b,
         Frames(a, s, b), s.do = "push"
  PROVE  LET h == FrameStep(g, s) IN IsState(h) /\ Stands(h, b) /\ h.py = g.py
<1> DEFINE h == FrameStep(g, s)
           top == [len |-> a.len, base |-> a.len]
<1>1. /\ b.frames = Append(a.frames, top)
      /\ b.len = a.len /\ b.outer = a.outer /\ b.pop \in {a.pop, "any"}
  BY DEF Frames
<1>2. h = [g EXCEPT !.frames = Append(@, NewFrame(g))]
  BY DEF FrameStep
<1>3. PICK U : g \in GenState(U)
  BY DEF IsState
<1>4. NewFrame(g) \in FrameRecord /\ NewFrame(g).len = g.len /\ NewFrame(g).base = g.len
  BY <1>3 DEF NewFrame, FrameRecord, GenState
<1>5. Append(g.frames, NewFrame(g)) \in Seq(FrameRecord)
  BY <1>3, <1>4 DEF GenState
<1>6. h \in GenState(U)
  BY <1>2, <1>3, <1>5 DEF GenState
<1>7. /\ h.py = g.py /\ h.ok = g.ok /\ h.len = g.len /\ h.outer = g.outer /\ h.code = g.code
      /\ h.frames = Append(g.frames, NewFrame(g))
  BY <1>2, <1>3 DEF GenState
<1> HIDE DEF h
<1>8. /\ Len(g.frames) = Len(a.frames) /\ Len(a.frames) \in Nat /\ a.len = g.len
      /\ g.frames \in Seq(FrameRecord) /\ a.frames \in Seq(HeightFrame)
      /\ \A i \in 1 .. Len(a.frames) :
           g.frames[i].len = a.frames[i].len /\ g.frames[i].base = a.frames[i].base
  BY HeightParts, StateParts DEF Stands
<1>9. SameHeights(b.frames, h.frames)
  BY <1>1, <1>4, <1>7, <1>8, SMTT(30) DEF SameHeights
<1>10. Stands(h, b)
  BY <1>1, <1>7, <1>9 DEF Stands, SameHeights
<1> QED
  BY <1>6, <1>7, <1>10 DEF IsState, h

\* A handler ends: the frame is dropped.
LEMMA PopSound ==
  ASSUME NEW g, IsState(g), NEW a \in Height, Stands(g, a), NEW s, NEW b,
         Frames(a, s, b), s.do = "drop"
  PROVE  LET h == FrameStep(g, s) IN IsState(h) /\ Stands(h, b) /\ h.py = g.py
<1> DEFINE h == FrameStep(g, s)
<1>1. /\ a.frames # <<>> /\ b.frames = Front(a.frames)
      /\ b.len = a.len /\ b.outer = a.outer /\ b.pop \in {a.pop, "any"}
  BY DEF Frames
<1>2. h = [g EXCEPT !.frames = Front(@)]
  BY DEF FrameStep
<1>3. PICK U : g \in GenState(U)
  BY DEF IsState
<1>4. /\ Len(g.frames) = Len(a.frames) /\ Len(a.frames) \in Nat /\ a.len = g.len
      /\ g.frames \in Seq(FrameRecord) /\ a.frames \in Seq(HeightFrame)
      /\ \A i \in 1 .. Len(a.frames) :
           g.frames[i].len = a.frames[i].len /\ g.frames[i].base = a.frames[i].base
  BY HeightParts, StateParts DEF Stands
<1>5. g.frames # <<>>
  BY <1>1, <1>4
<1>6. /\ Front(g.frames) \in Seq(FrameRecord) /\ Len(Front(g.frames)) = Len(g.frames) - 1
      /\ \A i \in 1 .. Len(g.frames) - 1 : Front(g.frames)[i] = g.frames[i]
  BY <1>4, <1>5, LastOfSeq
<1>7. /\ Len(Front(a.frames)) = Len(a.frames) - 1
      /\ \A i \in 1 .. Len(a.frames) - 1 : Front(a.frames)[i] = a.frames[i]
  BY <1>1, <1>4, LastOfSeq
<1>8. h \in GenState(U)
  BY <1>2, <1>3, <1>6 DEF GenState
<1>9. /\ h.py = g.py /\ h.ok = g.ok /\ h.len = g.len /\ h.outer = g.outer /\ h.code = g.code
      /\ h.frames = Front(g.frames)
  BY <1>2, <1>3 DEF GenState
<1> HIDE DEF h
<1>10. SameHeights(b.frames, h.frames)
  BY <1>1, <1>4, <1>6, <1>7, <1>9 DEF SameHeights
<1>11. Stands(h, b)
  BY <1>1, <1>9, <1>10 DEF Stands, SameHeights
<1> QED
  BY <1>8, <1>9, <1>11 DEF IsState, h

\* The assertion that one value was added holds where the height tells so.
LEMMA AssertSound ==
  ASSUME NEW g, IsState(g), NEW a \in Height, Stands(g, a), NEW s, NEW b,
         Frames(a, s, b), s.do = "assert"
  PROVE  LET h == FrameStep(g, s) IN IsState(h) /\ Stands(h, b) /\ h.py = g.py
<1>1. a.frames # <<>> /\ a.len = Top(a).len + 1 /\ b = a
  BY DEF Frames
<1>2. Frame(g).len = Top(a).len
  BY <1>1, FrameOnTop
<1>3. g.ok /\ g.len = Frame(g).len + 1 /\ g.ok \in BOOLEAN
  BY <1>1, <1>2, StateParts DEF Stands
<1>4. FrameStep(g, s) = [g EXCEPT !.ok = g.ok /\ g.len = Frame(g).len + 1]
  BY DEF FrameStep, CheckLen
<1>5. (g.ok /\ g.len = Frame(g).len + 1) = g.ok
  BY <1>3
<1>6. [g EXCEPT !.ok = g.ok] = g
  BY DEF IsState, GenState
<1>7. FrameStep(g, s) = g
  BY <1>4, <1>5, <1>6
<1> QED
  BY <1>1, <1>7

\* The excess popped is that over the count in the frame.
LEMMA BalanceSound ==
  ASSUME NEW g, IsState(g), NEW a \in Height, Stands(g, a), NEW s, NEW b,
         Frames(a, s, b), s.do = "balance"
  PROVE  LET h == FrameStep(g, s) IN IsState(h) /\ Stands(h, b) /\ h.py = g.py
<1> DEFINE l == Frame(g).len + 1
           h == [g EXCEPT !.len = l]
<1>1. a.frames # <<>> /\ a.len > Top(a).len /\ b = Level(a, Top(a).len + 1, a.pop)
  BY DEF Frames
<1>2. Frame(g).len = Top(a).len /\ Top(a).len \in Nat
  BY <1>1, FrameOnTop
<1>3. g.len = a.len /\ l \in Nat /\ a.len \in Nat /\ a.pop \in {"yes", "no", "any"}
  BY <1>2, HeightParts DEF Stands
<1>4. FrameStep(g, s) = h
  BY <1>1, <1>2, <1>3 DEF FrameStep
<1>5. Counted(g, h, l - g.len) /\ h.code = g.code
  BY <1>3, LenSet
<1>6. a.pop = "yes" => IsPopTop(g.code)
  BY DEF Stands
<1>7. a.pop = "no" => ~IsPopTop(g.code)
  BY DEF Stands
<1>8. l = a.len + (l - g.len) /\ l - g.len \in Int
  BY <1>3
<1>9. b = Level(a, l, a.pop)
  BY <1>1, <1>2
<1> HIDE DEF h, l
<1> QED
  BY <1>3, <1>4, <1>5, <1>6, <1>7, <1>8, <1>9, LevelReached

\* EmitPopTop is one of the writing steps.
LEMMA PopTopReached ==
  ASSUME NEW g, IsState(g), NEW a \in Height, Stands(g, a), a.len >= 1
  PROVE  LET h == EmitPopTop(g)
         IN  IsState(h) /\ Stands(h, Level(a, a.len - 1, "yes")) /\ h.py = g.py
<1>1. a.len \in Nat /\ g.len = a.len
  BY HeightParts DEF Stands
<1> DEFINE h == EmitPopTop(g)
           l == a.len - 1
<1>2. Counted(g, h, 0 - 1) /\ IsPopTop(h.code)
  BY <1>1, WriteDecCounted DEF EmitPopTop
<1>3. l \in Nat /\ l = a.len + (0 - 1)
  BY <1>1
<1> HIDE DEF h, l
<1>4. IsState(h) /\ Stands(h, Level(a, l, "yes")) /\ h.py = g.py
  BY <1>2, <1>3, LevelReached
<1> QED
  BY <1>4 DEF h, l

\* What is above the count is popped, and no more.
LEMMA PopAboveSound ==
  ASSUME NEW g, IsState(g), NEW a \in Height, Stands(g, a), NEW s, NEW b,
         Frames(a, s, b), s.do \in {"popAbove", "popOne"}
  PROVE  LET h == FrameStep(g, s) IN IsState(h) /\ Stands(h, b) /\ h.py = g.py
<1>1. a.len \in Nat /\ g.len = a.len
  BY HeightParts DEF Stands
<1>2. CASE s.do = "popAbove"
  <2>1. a.frames # <<>> /\ b = IF a.len > Top(a).len THEN Level(a, a.len - 1, "yes") ELSE a
    BY <1>2 DEF Frames
  <2>2. Frame(g).len = Top(a).len /\ Top(a).len \in Nat
    BY <2>1, FrameOnTop
  <2>3. FrameStep(g, s) = IF a.len > Top(a).len THEN EmitPopTop(g) ELSE g
    BY <1>1, <1>2, <2>2 DEF FrameStep
  <2>4. a.len > Top(a).len => a.len >= 1
    BY <1>1, <2>2
  <2>5. CASE a.len > Top(a).len
    BY <2>1, <2>3, <2>4, <2>5, PopTopReached
  <2>6. CASE ~(a.len > Top(a).len)
    BY <2>1, <2>3, <2>6
  <2> QED
    BY <2>5, <2>6
<1>3. CASE s.do = "popOne"
  <2>1. b = IF a.len = 1 THEN Level(a, 0, "yes") ELSE a
    BY <1>3 DEF Frames
  <2>2. FrameStep(g, s) = IF a.len = 1 THEN EmitPopTop(g) ELSE g
    BY <1>1, <1>3 DEF FrameStep
  <2>3. CASE a.len = 1
    <3>1. a.len >= 1 /\ a.len - 1 = 0
      BY <2>3
    <3> QED
      BY <2>1, <2>2, <2>3, <3>1, PopTopReached
  <2>4. CASE a.len # 1
    BY <2>1, <2>2, <2>4
  <2> QED
    BY <2>3, <2>4
<1> QED
  BY <1>2, <1>3

\* The shell's block drops what an expression leaves.
LEMMA ShellSound ==
  ASSUME NEW g, IsState(g), NEW a \in Height, Stands(g, a), NEW s, NEW b,
         Frames(a, s, b), s.do = "shell"
  PROVE  LET h == FrameStep(g, s) IN IsState(h) /\ Stands(h, b) /\ h.py = g.py
<1> DEFINE w == IF g.len = 1 THEN Write(g, "PRINT_EXPR", 0) ELSE g
           h == [w EXCEPT !.len = 0]
<1>1. b = Level(a, 0, "any")
  BY DEF Frames
<1>2. FrameStep(g, s) = h
  BY DEF FrameStep
<1>3. Counted(g, w, 0)
  <2>1. Counted(g, g, 0)
    BY StateParts, CountedParts
  <2> QED
    BY <2>1, WriteCounted
<1> HIDE DEF w
<1>4. IsState(w) /\ w.len = g.len /\ g.len = a.len /\ a.len \in Nat
  BY <1>3, HeightParts, StateParts DEF Counted, Stands
<1>5. Counted(w, h, 0 - w.len)
  BY <1>4, LenSet
<1> HIDE DEF h
<1>6. Counted(g, h, 0 + (0 - w.len))
  BY <1>3, <1>4, <1>5, CountedTwice
<1>7. 0 = a.len + (0 + (0 - w.len)) /\ 0 + (0 - w.len) \in Int
  BY <1>4
<1> QED
  BY <1>1, <1>2, <1>6, <1>7, LevelReached

\* The last POP_TOP is taken back if there is one.
LEMMA CancelSound ==
  ASSUME NEW g, IsState(g), NEW a \in Height, Stands(g, a), NEW s, NEW b,
         Frames(a, s, b), s.do = "cancel"
  PROVE  LET h == FrameStep(g, s) IN IsState(h) /\ Stands(h, b) /\ h.py = g.py
<1>1. \/ a.pop = "yes" /\ b = Level(a, a.len + 1, "any")
      \/ a.pop = "no" /\ b = Level(a, a.len, "any")
  BY DEF Frames
<1>2. FrameStep(g, s) = CancelIfPopTop(g)
  BY DEF FrameStep
<1>3. a.len \in Nat /\ g.len = a.len
  BY HeightParts DEF Stands
<1>4. CASE a.pop = "yes"
  <2> DEFINE c == Front(g.code)
             w == [g EXCEPT !.code = c]
             h == StackInc(w, 1)
             l == a.len + 1
  <2>1. IsPopTop(g.code) /\ b = Level(a, l, "any")
    BY <1>1, <1>4 DEF Stands
  <2>2. CancelIfPopTop(g) = h
    BY <2>1 DEF CancelIfPopTop, IsPopTop
  <2>3. PICK U : g \in GenState(U)
    BY DEF IsState
  <2>4. g.code \in Seq(U) /\ g.code # <<>>
    BY <2>1, <2>3 DEF GenState, IsPopTop
  <2>5. c \in Seq(U)
    BY <2>4, LastOfSeq
  <2> HIDE DEF c
  <2>6. Counted(g, w, 0)
    BY <2>3, <2>5, CodeCounted
  <2> HIDE DEF w
  <2>7. IsState(w)
    BY <2>6 DEF Counted
  <2>8. Counted(w, h, 1)
    BY <2>7, IncCounted
  <2> HIDE DEF h
  <2>9. Counted(g, h, 0 + 1)
    BY <2>6, <2>8, CountedTwice
  <2>10. l \in Nat /\ l = a.len + (0 + 1)
    BY <1>3
  <2> HIDE DEF l
  <2> QED
    BY <1>2, <2>1, <2>2, <2>9, <2>10, LevelReached
<1>5. CASE a.pop = "no"
  <2> DEFINE l == a.len
  <2>1. ~IsPopTop(g.code) /\ b = Level(a, l, "any")
    BY <1>1, <1>5 DEF Stands
  <2>2. CancelIfPopTop(g) = g
    BY <2>1 DEF CancelIfPopTop, IsPopTop
  <2>3. Counted(g, g, 0)
    BY StateParts, CountedParts
  <2>4. l \in Nat /\ l = a.len + 0
    BY <1>3
  <2> HIDE DEF l
  <2> QED
    BY <1>2, <2>1, <2>2, <2>3, <2>4, LevelReached
<1> QED
  BY <1>1, <1>4, <1>5

\* A loop remembers where its body begins.
LEMMA BaseSound ==
  ASSUME NEW g, IsState(g), NEW a \in Height, Stands(g, a), NEW s, NEW b,
         Frames(a, s, b), s.do = "base"
  PROVE  LET h == FrameStep(g, s) IN IsState(h) /\ Stands(h, b) /\ h.py = g.py
<1>1. /\ a.frames # <<>> /\ b \in Height /\ b.frames = Based(a)
      /\ b.len = a.len /\ b.pop = a.pop /\ b.outer = a.outer
  BY DEF Frames
<1>2. /\ Frame(g) \in FrameRecord /\ Frame(g).len = Top(a).len
      /\ Top(a).len \in Nat /\ Frame(g) = g.frames[Len(g.frames)]
  BY <1>1, FrameOnTop
<1> DEFINE n == Len(g.frames)
           x == [g.frames[n] EXCEPT !.base = g.len]
           k == [g.frames EXCEPT ![n] = x]
           h == [g EXCEPT !.frames = k]
           y == [len |-> Top(a).len, base |-> a.len]
<1>3. PICK U : g \in GenState(U)
  BY DEF IsState
<1>4. /\ Len(g.frames) = Len(a.frames) /\ Len(a.frames) \in Nat /\ a.len = g.len /\ a.len \in Nat
      /\ g.frames \in Seq(FrameRecord) /\ a.frames \in Seq(HeightFrame)
      /\ \A i \in 1 .. Len(a.frames) :
           g.frames[i].len = a.frames[i].len /\ g.frames[i].base = a.frames[i].base
  BY HeightParts, StateParts DEF Stands
<1>5. x \in FrameRecord /\ x.len = Top(a).len /\ x.base = a.len
  BY <1>2, <1>4 DEF FrameRecord
<1>6. y \in HeightFrame /\ y.len = Top(a).len /\ y.base = a.len
  BY <1>2, <1>4 DEF HeightFrame
<1> HIDE DEF x, y
<1>7. /\ k \in Seq(FrameRecord) /\ Len(k) = Len(g.frames)
      /\ \A i \in 1 .. Len(g.frames) : k[i] = IF i = n THEN x ELSE g.frames[i]
  BY <1>4, <1>5, ElementKept
<1>8. /\ Len(Based(a)) = Len(a.frames)
      /\ \A i \in 1 .. Len(a.frames) : Based(a)[i] = IF i = n THEN y ELSE a.frames[i]
  BY <1>4, <1>6, ElementKept DEF Based, y
<1>9. FrameStep(g, s) = h
  <2>1. FrameStep(g, s) = [g EXCEPT !.frames[Len(g.frames)].base = g.len]
    BY DEF FrameStep
  <2> QED
    BY <2>1 DEF x
<1> HIDE DEF k
<1>10. h \in GenState(U)
  BY <1>3, <1>7 DEF GenState
<1>11. /\ h.py = g.py /\ h.ok = g.ok /\ h.len = g.len /\ h.outer = g.outer /\ h.code = g.code
       /\ h.frames = k
  BY <1>3 DEF GenState
<1> HIDE DEF h
<1>12. SameHeights(b.frames, h.frames)
  BY <1>1, <1>4, <1>5, <1>6, <1>7, <1>8, <1>11 DEF SameHeights
<1>13. Stands(h, b)
  BY <1>1, <1>11, <1>12 DEF Stands, SameHeights
<1> QED
  BY <1>9, <1>10, <1>11, <1>13 DEF IsState

\* The body of a loop is popped down to where it began.
LEMMA PopLoopSound ==
  ASSUME NEW g, IsState(g), NEW a \in Height, Stands(g, a), NEW s, NEW b,
         Frames(a, s, b), s.do = "popLoop"
  PROVE  LET h == FrameStep(g, s) IN IsState(h) /\ Stands(h, b) /\ h.py = g.py
<1> DEFINE l == Top(a).base - s.n
           w == IF g.len > Frame(g).base - s.n THEN EmitPopTop(g) ELSE g
<1>1. /\ a.frames # <<>> /\ s.n \in Nat /\ Top(a).base >= s.n
      /\ a.len \in {l, l + 1} /\ b = Level(a, l, "any")
  BY DEF Frames
<1>2. Frame(g).base = Top(a).base /\ Top(a).base \in Nat
  BY <1>1, FrameOnTop
<1>3. a.len \in Nat /\ g.len = a.len /\ l \in Nat /\ g.ok
  BY <1>1, <1>2, HeightParts DEF Stands
<1>4. Counted(g, w, l - a.len)
  <2>1. CASE a.len = l
    <3>1. w = g
      BY <1>2, <1>3, <2>1
    <3>2. Counted(g, g, 0)
      BY StateParts, CountedParts
    <3> HIDE DEF l, w
    <3> QED
      BY <1>3, <2>1, <3>1, <3>2
  <2>2. CASE a.len = l + 1
    <3>1. w = EmitPopTop(g) /\ g.len >= 1 /\ l - a.len = 0 - 1
      BY <1>2, <1>3, <2>2
    <3>2. Counted(g, EmitPopTop(g), 0 - 1)
      BY <3>1, WriteDecCounted DEF EmitPopTop
    <3> HIDE DEF l, w
    <3> QED
      BY <3>1, <3>2
  <2> QED
    BY <1>1, <2>1, <2>2
<1>5. FrameStep(g, s) = CheckLen(w, l)
  BY <1>2 DEF FrameStep
<1> HIDE DEF w
<1>6. IsState(w) /\ w.len = l /\ w.ok
  <2>1. IsState(w) /\ w.ok = g.ok /\ w.len = g.len + (l - a.len)
    BY <1>4 DEF Counted
  <2> HIDE DEF l
  <2> QED
    BY <1>3, <2>1
<1>7. CheckLen(w, l) = w
  <2> HIDE DEF l
  <2>1. CheckLen(w, l) = [w EXCEPT !.ok = w.ok /\ w.len = l]
    BY DEF CheckLen
  <2>2. (w.ok /\ w.len = l) = w.ok
    BY <1>6, StateParts
  <2>3. [w EXCEPT !.ok = w.ok] = w
    BY <1>6 DEF IsState, GenState
  <2> QED
    BY <2>1, <2>2, <2>3
<1>8. l - a.len \in Int /\ l = a.len + (l - a.len)
  BY <1>3
<1> HIDE DEF l
<1> QED
  BY <1>1, <1>3, <1>4, <1>5, <1>7, <1>8, LevelReached

\* A block begins with a count of 0, the count around it kept.
LEMMA EnterSound ==
  ASSUME NEW g, IsState(g), NEW a \in Height, Stands(g, a), NEW s, NEW b,
         Frames(a, s, b), s.do = "enter"
  PROVE  LET h == FrameStep(g, s) IN IsState(h) /\ Stands(h, b) /\ h.py = g.py
<1> DEFINE x == [code |-> g.code, len |-> g.len, size |-> g.size]
           h == [g EXCEPT !.outer = Append(@, x), !.code = <<>>, !.len = 0, !.size = 2]
<1>1. /\ b.outer = Append(a.outer, a.len) /\ b.len = 0 /\ b.pop \in {"no", "any"}
      /\ b.frames = a.frames
  BY DEF Frames
<1>2. FrameStep(g, s) = h
  BY DEF FrameStep, PushUnit
<1>3. PICK U : g \in GenState(U)
  BY DEF IsState
<1> DEFINE B == [code : Seq(U), len : Nat, size : Nat]
<1>4. g.outer \in Seq(B) /\ x \in B /\ x.len = g.len
  BY <1>3 DEF GenState
<1> HIDE DEF x
<1>5. Append(g.outer, x) \in Seq(B)
  <2> HIDE DEF B
  <2> QED
    BY <1>4
<1> DEFINE o == Append(g.outer, x)
<1>p. o \in Seq(B) /\ h = [g EXCEPT !.outer = o, !.code = <<>>, !.len = 0, !.size = 2]
  BY <1>5
<1>q. <<>> \in Seq(U)
  OBVIOUS
<1> HIDE DEF o, h
<1>6. h \in GenState(U)
  BY <1>3, <1>p, <1>q DEF GenState
<1> USE DEF o, h
<1>7. /\ h.py = g.py /\ h.ok = g.ok /\ h.len = 0 /\ h.outer = Append(g.outer, x)
      /\ h.code = <<>> /\ h.frames = g.frames
  BY <1>3 DEF GenState
<1> HIDE DEF h, B
<1>8. /\ Len(g.outer) = Len(a.outer) /\ Len(a.outer) \in Nat /\ a.len = g.len
      /\ a.outer \in Seq(Nat) /\ \A i \in 1 .. Len(a.outer) : g.outer[i].len = a.outer[i]
  BY HeightParts DEF Stands
<1>9. /\ Len(h.outer) = Len(b.outer)
      /\ \A i \in 1 .. Len(b.outer) : h.outer[i].len = b.outer[i]
  BY <1>1, <1>4, <1>7, <1>8
<1>10. ~IsPopTop(h.code)
  BY <1>7 DEF IsPopTop
<1>11. Stands(h, b)
  BY <1>1, <1>7, <1>9, <1>10 DEF Stands
<1> QED
  BY <1>2, <1>6, <1>7, <1>11 DEF IsState

\* What is pushed when a block has left nothing, and the return from it.
LEMMA ReturnWritten ==
  ASSUME NEW g, IsState(g), g.len \in {0, 1}
  PROVE  LET h == IF g.len = 0 THEN StackInc(Write(g, "LOAD_CONST", "obj"), 1) ELSE g
         IN  Counted(g, Write(h, "RETURN_VALUE", 0), 1 - g.len)
<1> DEFINE h == IF g.len = 0 THEN StackInc(Write(g, "LOAD_CONST", "obj"), 1) ELSE g
           r == Write(h, "RETURN_VALUE", 0)
<1>1. Counted(g, h, 1 - g.len)
  <2>1. Counted(g, g, 0)
    BY StateParts, CountedParts
  <2>2. Counted(g, StackInc(Write(g, "LOAD_CONST", "obj"), 1), 1)
    BY WriteIncCounted
  <2>3. CASE g.len = 0
    BY <2>2, <2>3
  <2>4. CASE g.len = 1
    BY <2>1, <2>4
  <2> QED
    BY <2>3, <2>4
<1> HIDE DEF h
<1>2. IsState(h)
  BY <1>1 DEF Counted
<1>3. Counted(h, r, 0)
  BY <1>2, WriteCounted
<1> HIDE DEF r
<1> DEFINE n == 1 - g.len
<1>4. n \in Int /\ n + 0 = n
  BY StateParts
<1> HIDE DEF n
<1>5. Counted(g, r, n + 0)
  BY <1>1, <1>3, <1>4, CountedTwice DEF n
<1> QED
  BY <1>4, <1>5 DEF n, r, h

\* A block ends, and the count around it is taken up again.
LEMMA LeaveSound ==
  ASSUME NEW g, IsState(g), NEW a \in Height, Stands(g, a), NEW s, NEW b,
         Frames(a, s, b), s.do = "leave"
  PROVE  LET h == FrameStep(g, s) IN IsState(h) /\ Stands(h, b) /\ h.py = g.py
<1> DEFINE w == IF g.len = 0 THEN StackInc(Write(g, "LOAD_CONST", "obj"), 1) ELSE g
           r == Write(w, "RETURN_VALUE", 0)
           up == Last(g.outer)
           d == [code |-> r.code, size |-> r.size]
           h == [r EXCEPT !.done = Append(@, d), !.outer = Front(@),
                          !.code = up.code, !.len = up.len, !.size = up.size]
<1>1. /\ a.outer # <<>> /\ a.len <= 1
      /\ b.outer = Front(a.outer) /\ b.len = Last(a.outer) /\ b.pop = "any"
      /\ b.frames = a.frames
  BY DEF Frames
<1>2. g.len = a.len /\ g.len \in {0, 1} /\ g.ok
  BY <1>1, HeightParts DEF Stands
<1>3. FrameStep(g, s) = h
  <2>1. FrameStep(g, s) = PopUnit(g)
    BY DEF FrameStep
  <2> DEFINE c == CASE g.len = 0 -> StackInc(Write(g, "LOAD_CONST", "obj"), 1)
                    [] g.len = 1 -> g
                    [] OTHER -> [g EXCEPT !.ok = FALSE]
             q == Write(c, "RETURN_VALUE", 0)
  <2>2. c = w
    BY <1>2
  <2>3. PopUnit(g) = [q EXCEPT !.done = Append(@, [code |-> q.code, size |-> q.size]),
                               !.outer = Front(@), !.code = Last(g.outer).code,
                               !.len = Last(g.outer).len, !.size = Last(g.outer).size]
    BY DEF PopUnit
  <2> HIDE DEF c, w
  <2>4. q = r
    BY <2>2
  <2> HIDE DEF q, r
  <2> QED
    BY <2>1, <2>3, <2>4
<1>4. Counted(g, r, 1 - g.len)
  BY <1>2, ReturnWritten
<1> HIDE DEF r
<1>5. /\ IsState(r) /\ r.py = g.py /\ r.ok = g.ok /\ r.outer = g.outer
      /\ SameHeights(g.frames, r.frames)
  BY <1>4 DEF Counted
<1>6. PICK U : r \in GenState(U)
  BY <1>5 DEF IsState
<1> DEFINE B == [code : Seq(U), len : Nat, size : Nat]
           D == [code : Seq(U), size : Nat]
<1>7. r.outer \in Seq(B) /\ r.done \in Seq(D) /\ d \in D
  BY <1>6 DEF GenState
<1> HIDE DEF d
<1>8. /\ Len(g.outer) = Len(a.outer) /\ Len(a.outer) \in Nat
      /\ a.outer \in Seq(Nat) /\ \A i \in 1 .. Len(a.outer) : g.outer[i].len = a.outer[i]
  BY HeightParts DEF Stands
<1>9. /\ Len(a.outer) # 0 /\ Last(a.outer) = a.outer[Len(a.outer)]
      /\ Len(Front(a.outer)) = Len(a.outer) - 1
      /\ \A i \in 1 .. Len(a.outer) - 1 : Front(a.outer)[i] = a.outer[i]
  BY <1>1, <1>8, LastOfSeq
<1>10. /\ g.outer # <<>> /\ up \in B /\ up = g.outer[Len(g.outer)]
       /\ Front(g.outer) \in Seq(B) /\ Len(Front(g.outer)) = Len(g.outer) - 1
       /\ \A i \in 1 .. Len(g.outer) - 1 : Front(g.outer)[i] = g.outer[i]
  <2> HIDE DEF B
  <2>1. g.outer \in Seq(B) /\ g.outer # <<>>
    BY <1>5, <1>7, <1>8, <1>9
  <2> QED
    BY <2>1, LastOfSeq
<1>11. Append(r.done, d) \in Seq(D)
  <2> HIDE DEF D
  <2> QED
    BY <1>7
<1> HIDE DEF up
<1>12. up.code \in Seq(U) /\ up.len \in Nat /\ up.size \in Nat
  BY <1>10
<1> DEFINE o == Front(g.outer)
           e == Append(r.done, d)
<1>13. h = [r EXCEPT !.done = e, !.outer = o, !.code = up.code, !.len = up.len,
                    !.size = up.size]
  BY <1>5
<1>14. o \in Seq(B) /\ e \in Seq(D)
  BY <1>10, <1>11
<1> HIDE DEF h, o, e
<1>15. h \in GenState(U)
  BY <1>6, <1>12, <1>13, <1>14 DEF GenState
<1>16. /\ h.py = r.py /\ h.ok = r.ok /\ h.len = up.len /\ h.outer = o /\ h.frames = r.frames
  BY <1>6, <1>13 DEF GenState
<1> DEFINE n == Len(a.outer)
<1>n. n \in Nat \ {0} /\ Len(g.outer) = n
  BY <1>8, <1>9
<1>17. h.len = b.len
  <2>1. g.outer[n].len = a.outer[n]
    BY <1>8, <1>n
  <2> QED
    BY <2>1, <1>1, <1>9, <1>10, <1>16, <1>n
<1>18. Len(h.outer) = Len(b.outer) /\ \A i \in 1 .. Len(b.outer) : h.outer[i].len = b.outer[i]
  <2>1. Len(h.outer) = n - 1 /\ Len(b.outer) = n - 1
    BY <1>1, <1>9, <1>10, <1>16, <1>n DEF o
  <2>2. ASSUME NEW i \in 1 .. n - 1
        PROVE  h.outer[i].len = b.outer[i]
    <3>1. i \in 1 .. n /\ i \in 1 .. Len(g.outer) - 1 /\ i \in 1 .. Len(a.outer) - 1
      BY <1>n
    <3>2. h.outer[i] = g.outer[i] /\ b.outer[i] = a.outer[i]
      BY <3>1, <1>1, <1>9, <1>10, <1>16 DEF o
    <3> QED
      BY <3>1, <3>2, <1>8
  <2> QED
    BY <2>1, <2>2
<1>19. SameHeights(b.frames, h.frames)
  BY <1>1, <1>5, <1>16 DEF SameHeights, Stands
<1>20. Stands(h, b)
  BY <1>1, <1>2, <1>5, <1>16, <1>17, <1>18, <1>19 DEF Stands, SameHeights
<1>21. IsState(h)
  BY <1>15 DEF IsState
<1> QED
  BY <1>3, <1>5, <1>16, <1>20, <1>21

\* Every step that is not a call leads to the next height.
LEMMA StepSound ==
  ASSUME NEW g, IsState(g), NEW a, Stands(g, a), NEW s, NEW b,
         Goes(g.py, a, s, b), s.do \notin Calling
  PROVE  IsState(Step(g, s)) /\ Stands(Step(g, s), b) /\ Step(g, s).py = g.py
<1>1. a \in Height
  BY DEF Goes
<1>2. CASE Counts(g.py, a, s, b)
  BY <1>1, <1>2, CountsSound
<1>3. CASE Frames(a, s, b)
  <2>1. s.do \in Framing /\ s.do \notin Writing
    BY <1>3 DEF Frames, Framing, Writing
  <2>2. Step(g, s) = FrameStep(g, s)
    BY <2>1 DEF Step, Stands
  <2>3. LET h == FrameStep(g, s) IN IsState(h) /\ Stands(h, b) /\ h.py = g.py
    BY <1>1, <1>3, <2>1, PushSound, PopSound, AssertSound, BalanceSound, PopAboveSound,
       ShellSound, CancelSound, BaseSound, PopLoopSound, EnterSound, LeaveSound DEF Framing
  <2> QED
    BY <2>2, <2>3
<1> QED
  BY <1>2, <1>3 DEF Goes

-----------------------------------------------------------------------------
(* Sequences of steps.                                                     *)

\* Steps that lead from one height to another are a sequence.
LEMMA LeadsParts ==
  ASSUME NEW v, NEW steps, NEW a, NEW b, Leads(v, steps, a, b)
  PROVE  /\ a \in Height /\ b \in Height /\ Len(steps) \in Nat
         /\ \E T : steps \in Seq(T)
<1>1. PICK T : steps \in Seq(T)
  BY DEF Leads
<1>2. PICK p \in Seq(Height) :
        /\ Len(p) = Len(steps) + 1 /\ p[1] = a /\ p[Len(steps) + 1] = b
  BY DEF Leads
<1>3. Len(steps) \in Nat
  BY <1>1
<1> QED
  BY <1>1, <1>2, <1>3

\* No steps lead nowhere.
LEMMA LeadsNowhere ==
  ASSUME NEW v, NEW a \in Height
  PROVE  Leads(v, <<>>, a, a)
<1> DEFINE p == <<a>>
<1>1. p \in Seq(Height) /\ Len(p) = 1 /\ p[1] = a
  OBVIOUS
<1>2. <<>> \in Seq({}) /\ Len(<<>>) = 0
  OBVIOUS
<1> HIDE DEF p
<1> QED
  BY <1>1, <1>2 DEF Leads

\* A single step leads where it goes.
LEMMA LeadsOne ==
  ASSUME NEW v, NEW s, NEW a, NEW b, Goes(v, a, s, b)
  PROVE  Leads(v, <<s>>, a, b)
<1> DEFINE p == <<a, b>>
           q == <<s>>
<1>1. p \in Seq(Height) /\ Len(p) = 2 /\ p[1] = a /\ p[2] = b
  BY DEF Goes
<1>2. q \in Seq({s}) /\ Len(q) = 1 /\ q[1] = s
  OBVIOUS
<1> HIDE DEF p, q
<1>3. \A i \in 1 .. Len(q) : Goes(v, p[i], q[i], p[i + 1])
  BY <1>1, <1>2
<1> HIDE DEF Goes
<1>4. Leads(v, q, a, b)
  BY <1>1, <1>2, <1>3 DEF Leads
<1> QED
  BY <1>4 DEF q

\* One sequence after the other.
LEMMA LeadsOn ==
  ASSUME NEW v, NEW q, NEW r, NEW a, NEW b, NEW c,
         Leads(v, q, a, b), Leads(v, r, b, c)
  PROVE  Leads(v, q \o r, a, c)
<1>1. PICK Q : q \in Seq(Q)
  BY LeadsParts
<1>2. PICK R : r \in Seq(R)
  BY LeadsParts
<1>3. PICK x \in Seq(Height) :
        /\ Len(x) = Len(q) + 1 /\ x[1] = a /\ x[Len(q) + 1] = b
        /\ \A i \in 1 .. Len(q) : Goes(v, x[i], q[i], x[i + 1])
  BY DEF Leads
<1>4. PICK y \in Seq(Height) :
        /\ Len(y) = Len(r) + 1 /\ y[1] = b /\ y[Len(r) + 1] = c
        /\ \A i \in 1 .. Len(r) : Goes(v, y[i], r[i], y[i + 1])
  BY DEF Leads
<1> DEFINE m == Len(q)
           n == Len(r)
           p == [i \in 1 .. m + n + 1 |-> IF i <= m THEN x[i] ELSE y[i - m]]
           s == q \o r
<1>5. m \in Nat /\ n \in Nat
  BY <1>1, <1>2
<1>6. s \in Seq(Q \union R) /\ Len(s) = m + n
      /\ (\A i \in 1 .. m : s[i] = q[i]) /\ (\A i \in 1 .. n : s[m + i] = r[i])
  <2>1. q \in Seq(Q \union R) /\ r \in Seq(Q \union R)
    BY <1>1, <1>2, SeqMonotonic
  <2> QED
    BY <2>1, ConcatProperties
<1> HIDE DEF s
<1>7. \A i \in 1 .. m + n + 1 : (IF i <= m THEN x[i] ELSE y[i - m]) \in Height
  BY <1>3, <1>4, <1>5
<1>8. p \in Seq(Height) /\ Len(p) = m + n + 1
  BY <1>5, <1>7
<1> HIDE DEF m, n
<1>9. ASSUME NEW i \in 1 .. m + n
      PROVE  Goes(v, p[i], s[i], p[i + 1])
  <2>1. CASE i < m
    <3>1. p[i] = x[i] /\ p[i + 1] = x[i + 1] /\ s[i] = q[i] /\ i \in 1 .. m
      BY <1>5, <1>6, <2>1
    <3> QED
      BY <1>3, <3>1 DEF m
  <2>2. CASE i = m
    <3>0. i \in 1 .. m /\ i \in 1 .. m + n + 1 /\ i + 1 \in 1 .. m + n + 1
          /\ (i + 1) - m = 1 /\ ~(i + 1 <= m) /\ i <= m
      BY <1>5, <2>2
    <3> DEFINE j == i + 1
    <3>6. j \in 1 .. m + n + 1 /\ ~(j <= m)
      BY <3>0
    <3>7. p[i] = x[i]
      BY <3>0
    <3> HIDE DEF j
    <3>8. p[j] = y[j - m]
      BY <3>6
    <3>4. p[i] = x[i] /\ p[i + 1] = y[(i + 1) - m]
      BY <3>7, <3>8 DEF j
    <3>5. y[(i + 1) - m] = y[1]
      BY <3>0
    <3> HIDE DEF p
    <3>1. p[i] = x[i] /\ p[i + 1] = y[1] /\ s[i] = q[i] /\ i \in 1 .. m
      BY <1>6, <3>0, <3>4, <3>5
    <3>2. y[1] = x[i + 1]
      BY <1>3, <1>4, <2>2 DEF m
    <3>3. Goes(v, x[i], q[i], x[i + 1])
      BY <1>3, <3>1 DEF m
    <3> QED
      BY <3>1, <3>2, <3>3
  <2>3. CASE i > m
    <3> DEFINE j == i - m
    <3>a. /\ j \in 1 .. n /\ i = m + j /\ i \in 1 .. m + n + 1 /\ i + 1 \in 1 .. m + n + 1
          /\ ~(i <= m) /\ ~(i + 1 <= m) /\ (i + 1) - m = j + 1
      BY <1>5, <2>3
    <3>b. s[i] = r[j]
      BY <1>6, <3>a
    <3>c. p[i] = y[i - m] /\ p[i + 1] = y[(i + 1) - m]
      BY <3>a
    <3>1. j \in 1 .. n /\ p[i] = y[j] /\ p[i + 1] = y[j + 1] /\ s[i] = r[j]
      BY <3>a, <3>b, <3>c
    <3> HIDE DEF j
    <3>2. Goes(v, y[j], r[j], y[j + 1])
      BY <1>4, <3>1 DEF n
    <3> QED
      BY <3>1, <3>2
  <2> QED
    BY <1>5, <2>1, <2>2, <2>3
<1>10. p[1] = a
  <2>1. CASE m = 0
    BY <1>3, <1>4, <1>5, <2>1 DEF m
  <2>2. CASE m # 0
    BY <1>3, <1>5, <2>2
  <2> QED
    BY <2>1, <2>2
<1>11. p[m + n + 1] = c
  <2>1. p[m + n + 1] = y[n + 1]
    BY <1>5
  <2> QED
    BY <2>1, <1>4 DEF n
<1> HIDE DEF p
<1>12. Leads(v, s, a, c)
  BY <1>6, <1>8, <1>9, <1>10, <1>11 DEF Leads
<1> QED
  BY <1>12 DEF s

\* What is left after the first step leads on from where that has led.
LEMMA LeadsFirst ==
  ASSUME NEW v, NEW steps, NEW a, NEW b, Leads(v, steps, a, b), steps # <<>>
  PROVE  \E c \in Height : Goes(v, a, Head(steps), c) /\ Leads(v, Tail(steps), c, b)
<1>1. PICK T : steps \in Seq(T)
  BY LeadsParts
<1> DEFINE n == Len(steps)
<1>2. PICK p \in Seq(Height) :
        /\ Len(p) = n + 1 /\ p[1] = a /\ p[n + 1] = b
        /\ \A i \in 1 .. n : Goes(v, p[i], steps[i], p[i + 1])
  BY DEF Leads
<1>3. n \in Nat \ {0}
  BY <1>1
<1> DEFINE q == Tail(p)
           r == Tail(steps)
<1>4. q \in Seq(Height) /\ Len(q) = n /\ \A i \in 1 .. n : q[i] = p[i + 1]
  BY <1>2, <1>3
<1>5. /\ r \in Seq(T) /\ Len(r) = n - 1 /\ Head(steps) = steps[1]
      /\ \A i \in 1 .. n - 1 : r[i] = steps[i + 1]
  BY <1>1, <1>3
<1> HIDE DEF q, r, n
<1>6. \A i \in 1 .. Len(r) : Goes(v, q[i], r[i], q[i + 1])
  BY <1>2, <1>3, <1>4, <1>5
<1>7. q[1] = p[2] /\ q[Len(r) + 1] = b /\ Len(q) = Len(r) + 1 /\ p[2] \in Height
  BY <1>2, <1>3, <1>4, <1>5
<1>8. Leads(v, r, p[2], b)
  BY <1>4, <1>5, <1>6, <1>7 DEF Leads
<1>9. Goes(v, a, Head(steps), p[2])
  BY <1>2, <1>3, <1>5
<1> QED
  BY <1>7, <1>8, <1>9 DEF r

\* A height n above or below another.
LEMMA UpParts ==
  ASSUME NEW a \in Height, NEW n \in Int, Room(a, n)
  PROVE  /\ Up(a, n) \in Height /\ Up(a, n).len = a.len + n /\ Up(a, n).pop = "any"
         /\ Up(a, n).frames = a.frames /\ Up(a, n).outer = a.outer
         /\ Kept(a, n) \in Height /\ Kept(a, n).len = a.len + n /\ Kept(a, n).pop = "no"
         /\ Kept(a, n).frames = a.frames /\ Kept(a, n).outer = a.outer
<1> DEFINE l == a.len + n
<1>1. l \in Nat
  BY HeightParts DEF Room
<1> HIDE DEF l
<1>2. LET b == Level(a, l, "any")
      IN  b \in Height /\ b.len = l /\ b.pop = "any" /\ b.frames = a.frames /\ b.outer = a.outer
  BY <1>1, LevelParts
<1>3. LET b == Level(a, l, "no")
      IN  b \in Height /\ b.len = l /\ b.pop = "no" /\ b.frames = a.frames /\ b.outer = a.outer
  BY <1>1, LevelParts
<1>4. Up(a, n) = Level(a, l, "any") /\ Kept(a, n) = Level(a, l, "no")
  BY DEF Up, Kept, l
<1> QED
  BY <1>2, <1>3, <1>4 DEF l

\* Heights with the same parts are equal.
LEMMA SameHeight ==
  ASSUME NEW a \in Height, NEW b \in Height,
         a.len = b.len, a.pop = b.pop, a.frames = b.frames, a.outer = b.outer
  PROVE  a = b
BY DEF Height

\* Nothing is gained by rising by 0.
LEMMA NoRise ==
  ASSUME NEW a \in Height, a.pop = "any"
  PROVE  Up(a, 0) = a
<1>1. Room(a, 0) /\ a.len + 0 = a.len
  BY HeightParts DEF Room
<1>2. /\ Up(a, 0) \in Height /\ Up(a, 0).len = a.len + 0 /\ Up(a, 0).pop = "any"
      /\ Up(a, 0).frames = a.frames /\ Up(a, 0).outer = a.outer
  BY <1>1, UpParts
<1> QED
  BY <1>1, <1>2, SameHeight

\* A step that counts, from any height with these frames.
LEMMA DoesGoes ==
  ASSUME NEW v, NEW s, NEW n \in Int, Does(v, s, n),
         NEW a \in Height, NEW b \in Height, b.len = a.len + n, b.pop = "any",
         b.frames = a.frames, b.outer = a.outer
  PROVE  Goes(v, a, s, b)
<1>1. Counts(v, a, s, b)
  BY DEF Does, Counts
<1> QED
  BY <1>1 DEF Goes

\* Steps that count, from one height in a handler to another.
LEMMA Climbs ==
  ASSUME NEW v, NEW T, NEW steps \in Seq(T), NEW a \in Height, NEW h \in Seq(Int),
         Len(h) = Len(steps) + 1,
         \A i \in 1 .. Len(h) : Room(a, h[i]),
         \A i \in 1 .. Len(steps) : Takes(v, steps[i], h[i], h[i + 1])
  PROVE  Leads(v, steps, Up(a, h[1]), Up(a, h[Len(h)]))
<1> DEFINE n == Len(steps)
           p == [i \in 1 .. n + 1 |-> Up(a, h[i])]
<1>1. n \in Nat /\ a.len \in Nat
  BY HeightParts
<1> HIDE DEF n
<1>2. \A i \in 1 .. n + 1 : h[i] \in Int /\ a.len + h[i] >= 0
  BY <1>1 DEF n, Room
<1>r. \A i \in 1 .. n + 1 : Room(a, h[i]) /\ h[i] \in Int
  BY <1>1 DEF n
<1>3. \A i \in 1 .. n + 1 : Up(a, h[i]) \in Height
  BY <1>r, UpParts
<1>4. p \in Seq(Height) /\ Len(p) = n + 1
  BY <1>1, <1>3
<1>5. ASSUME NEW i \in 1 .. n
      PROVE  Goes(v, p[i], steps[i], p[i + 1])
  <2> DEFINE k == h[i + 1] - h[i]
             x == Up(a, h[i])
             y == Up(a, h[i + 1])
  <2>1. i \in 1 .. n + 1 /\ i + 1 \in 1 .. n + 1
    BY <1>1
  <2>2. p[i] = x /\ p[i + 1] = y
    BY <2>1
  <2>3. h[i] \in Int /\ h[i + 1] \in Int /\ a.len + h[i] >= 0 /\ a.len + h[i + 1] >= 0
    BY <1>2, <2>1
  <2>r. Room(a, h[i]) /\ Room(a, h[i + 1])
    BY <1>r, <2>1
  <2>4. /\ x \in Height /\ x.len = a.len + h[i] /\ x.frames = a.frames /\ x.outer = a.outer
    BY <2>3, <2>r, UpParts
  <2>5. /\ y \in Height /\ y.len = a.len + h[i + 1] /\ y.pop = "any"
        /\ y.frames = a.frames /\ y.outer = a.outer
    BY <2>3, <2>r, UpParts
  <2> HIDE DEF x, y, p
  <2> DEFINE c == h[i]
             d == h[i + 1]
  <2>6. k \in Int /\ y.len = x.len + k
    <3>1. /\ k = d - c /\ c \in Int /\ d \in Int
          /\ x.len = a.len + c /\ y.len = a.len + d
      BY <2>3, <2>4, <2>5
    <3> HIDE DEF k, c, d
    <3> QED
      BY <1>1, <3>1
  <2>7. Does(v, steps[i], k)
    BY DEF n, Takes
  <2> HIDE DEF k
  <2>8. Goes(v, x, steps[i], y)
    BY <2>4, <2>5, <2>6, <2>7, DoesGoes
  <2> QED
    BY <2>2, <2>8
<1>6. p[1] = Up(a, h[1]) /\ p[n + 1] = Up(a, h[n + 1]) /\ Len(h) = n + 1
  BY <1>1 DEF n
<1> HIDE DEF p
<1>7. Leads(v, steps, p[1], p[n + 1])
  BY <1>4, <1>5 DEF Leads, n
<1> QED
  BY <1>6, <1>7

-----------------------------------------------------------------------------
(* What each of the steps that count adds.                                 *)

\* What the steps that write instructions or count add.
LEMMA DoesWriting ==
  ASSUME NEW v
  PROVE  /\ \A kind : Does(v, Const(kind), 1)
         /\ Does(v, Name, 1)
         /\ Does(v, Store, 0 - 1)
         /\ Does(v, PopTop, 0 - 1)
         /\ \A op, arg : op # "POP_TOP" => Does(v, Put(op, arg), 0)
         /\ \A n \in Nat : Does(v, Inc(n), n)
         /\ \A n \in Nat : Does(v, Dec(n), 0 - n)
<1>1. ASSUME NEW kind
      PROVE  Does(v, Const(kind), 1)
  BY DEF Does, Counting, Gain, Const
<1>2. Does(v, Name, 1) /\ Does(v, Store, 0 - 1) /\ Does(v, PopTop, 0 - 1)
  BY DEF Does, Counting, Gain, Name, Store, PopTop
<1>3. ASSUME NEW op, NEW arg, op # "POP_TOP"
      PROVE  Does(v, Put(op, arg), 0)
  BY <1>3 DEF Does, Counting, Gain, Put
<1>4. ASSUME NEW n \in Nat
      PROVE  Does(v, Inc(n), n)
  BY DEF Does, Counting, Gain, Inc
<1>5. ASSUME NEW n \in Nat
      PROVE  Does(v, Dec(n), 0 - n)
  BY DEF Does, Counting, Gain, Dec
<1> QED
  BY <1>1, <1>2, <1>3, <1>4, <1>5

\* A call takes off the null that was pushed for it, where the version has one.
LEMMA DoesNull ==
  ASSUME NEW v
  PROVE  /\ Null(v) \in {0, 1}
         /\ Does(v, PushNull, Null(v))
         /\ \A n, op : Does(v, CallInstr(n, op), 0 - Null(v))
BY DEF Null, Does, Counting, Gain, PushNull, CallInstr

\* Jumps, and filling them in, count nothing.
LEMMA DoesJumping ==
  ASSUME NEW v
  PROVE  /\ \A op : Does(v, Jump(op), 0)
         /\ Does(v, JumpToEnd, 0)
         /\ Does(v, Mark, 0)
         /\ \A i, n : Does(v, FillTest(i, n), 0) /\ Does(v, FillForward(i, n), 0)
         /\ Does(v, FillBack, 0) /\ Does(v, FillBackTest, 0)
         /\ Does(v, FillArm, 0) /\ Does(v, FillEnds, 0)
         /\ Does(v, EditSetup, 0) /\ Does(v, EditForward, 0)
BY DEF Does, Counting, Gain, Filling, Placing, Jump, JumpToEnd, Mark, FillTest, FillForward,
       FillBack, FillBackTest, FillArm, FillEnds, EditSetup, EditForward

\* A block that leaves a value is not mute.
LEMMA LeavesNotMute ==
  ASSUME NEW b, Leaves(b)
  PROVE  ~Mute(b)
BY DEF Leaves, Mute

\* Handlers of values add one, those of definitions nothing.
LEMMA DoesCalling ==
  ASSUME NEW v
  PROVE  /\ \A e : IsValue(Hir, e) => Does(v, Expr(e), 1)
         /\ \A e \in Hir : Valued(e) => Does(v, Chunk(e), 1)
         /\ \A e \in Hir : ~IsValue(Hir, e) => Does(v, Chunk(e), 0)
         /\ \A b : IsBody(Hir, b) /\ Leaves(b) => Does(v, Block(b), 1)
         /\ \A b : IsBody(Hir, b) /\ ~Mute(b) => \E n \in {0, 1} : Does(v, Block(b), n)
         /\ Does(v, Requirement, 0)
<1>1. ASSUME NEW e, IsValue(Hir, e)
      PROVE  Does(v, Expr(e), 1)
  BY <1>1 DEF Does, Counting, Gain, Expr
<1>2. ASSUME NEW e \in Hir, Valued(e)
      PROVE  Does(v, Chunk(e), 1)
  BY <1>2 DEF Does, Counting, Gain, Chunk
<1>3. ASSUME NEW e \in Hir, ~IsValue(Hir, e)
      PROVE  Does(v, Chunk(e), 0)
  BY <1>3 DEF Does, Counting, Gain, Chunk, Valued, IsValue
<1>4. ASSUME NEW b, IsBody(Hir, b), ~Mute(b)
      PROVE  Does(v, Block(b), IF Leaves(b) THEN 1 ELSE 0)
  <2>1. b \in Seq(Hir) /\ b # <<>>
    BY <1>4 DEF IsBody
  <2> QED
    BY <1>4, <2>1 DEF Does, Counting, Gain, Block
<1>5. Does(v, Requirement, 0)
  BY DEF Does, Counting, Gain, Requirement
<1>6. \A b : Leaves(b) => ~Mute(b)
  BY LeavesNotMute
<1> QED
  BY <1>1, <1>2, <1>3, <1>4, <1>5, <1>6

-----------------------------------------------------------------------------
(* Steps that all add the same.                                            *)

\* Steps that add one each rise by their number, ...
LEMMA Rises ==
  ASSUME NEW v, NEW T, NEW steps \in Seq(T), NEW a \in Height, NEW k \in Int, Room(a, k),
         \A i \in 1 .. Len(steps) : Does(v, steps[i], 1)
  PROVE  Leads(v, steps, Up(a, k), Up(a, k + Len(steps)))
<1> DEFINE n == Len(steps)
           h == [i \in 1 .. n + 1 |-> (k + i) - 1]
<1>1. n \in Nat /\ a.len \in Nat
  BY HeightParts
<1> HIDE DEF n
<1>2. /\ h \in Seq(Int) /\ Len(h) = n + 1
      /\ \A i \in 1 .. n + 1 : h[i] = (k + i) - 1
  BY <1>1
<1> HIDE DEF h
<1>3. h[1] = k /\ h[Len(h)] = k + n
  BY <1>1, <1>2
<1>4. \A i \in 1 .. Len(h) : Room(a, h[i])
  BY <1>1, <1>2 DEF Room
<1>5. \A i \in 1 .. n : Takes(v, steps[i], h[i], h[i + 1])
  <2> SUFFICES ASSUME NEW i \in 1 .. n PROVE Takes(v, steps[i], h[i], h[i + 1])
    OBVIOUS
  <2>1. h[i + 1] - h[i] = 1
    BY <1>1, <1>2
  <2> QED
    BY <2>1 DEF Takes, n
<1>6. Leads(v, steps, Up(a, h[1]), Up(a, h[Len(h)]))
  BY <1>2, <1>4, <1>5, Climbs DEF n
<1> QED
  BY <1>3, <1>6 DEF n

\* ... those that add nothing stay, ...
LEMMA Stays ==
  ASSUME NEW v, NEW T, NEW steps \in Seq(T), NEW a \in Height, NEW k \in Int, Room(a, k),
         \A i \in 1 .. Len(steps) : Does(v, steps[i], 0)
  PROVE  Leads(v, steps, Up(a, k), Up(a, k))
<1> DEFINE n == Len(steps)
           h == [i \in 1 .. n + 1 |-> k]
<1>1. n \in Nat /\ a.len \in Nat
  BY HeightParts
<1> HIDE DEF n
<1>2. /\ h \in Seq(Int) /\ Len(h) = n + 1
      /\ \A i \in 1 .. n + 1 : h[i] = k
  BY <1>1
<1> HIDE DEF h
<1>3. h[1] = k /\ h[Len(h)] = k
  BY <1>1, <1>2
<1>4. \A i \in 1 .. Len(h) : Room(a, h[i])
  BY <1>1, <1>2 DEF Room
<1>5. \A i \in 1 .. n : Takes(v, steps[i], h[i], h[i + 1])
  <2> SUFFICES ASSUME NEW i \in 1 .. n PROVE Takes(v, steps[i], h[i], h[i + 1])
    OBVIOUS
  <2>1. h[i + 1] - h[i] = 0
    BY <1>1, <1>2
  <2> QED
    BY <2>1 DEF Takes, n
<1>6. Leads(v, steps, Up(a, h[1]), Up(a, h[Len(h)]))
  BY <1>2, <1>4, <1>5, Climbs DEF n
<1> QED
  BY <1>3, <1>6 DEF n

\* ... and those that take one each sink by their number.
LEMMA Sinks ==
  ASSUME NEW v, NEW T, NEW steps \in Seq(T), NEW a \in Height, NEW k \in Int,
         Room(a, k - Len(steps)),
         \A i \in 1 .. Len(steps) : Does(v, steps[i], 0 - 1)
  PROVE  Leads(v, steps, Up(a, k), Up(a, k - Len(steps)))
<1> DEFINE n == Len(steps)
           h == [i \in 1 .. n + 1 |-> (k - i) + 1]
<1>1. n \in Nat /\ a.len \in Nat /\ Room(a, k - n)
  BY HeightParts
<1> HIDE DEF n
<1>2. /\ h \in Seq(Int) /\ Len(h) = n + 1
      /\ \A i \in 1 .. n + 1 : h[i] = (k - i) + 1
  BY <1>1
<1> HIDE DEF h
<1>3. h[1] = k /\ h[Len(h)] = k - n
  BY <1>1, <1>2
<1>r. ASSUME NEW i \in 1 .. n + 1
      PROVE  Room(a, h[i])
  <2>1. h[i] \in Int /\ h[i] = (k - i) + 1 /\ a.len + (k - n) >= 0
    BY <1>1, <1>2, SMTT(30) DEF Room
  <2>2. (k - i) + 1 >= k - n
    BY <1>1
  <2>3. a.len + h[i] >= 0
    BY <1>1, <2>1, <2>2
  <2> QED
    BY <2>1, <2>3 DEF Room
<1>4. \A i \in 1 .. Len(h) : Room(a, h[i])
  BY <1>r, <1>2
<1>5. \A i \in 1 .. n : Takes(v, steps[i], h[i], h[i + 1])
  <2> SUFFICES ASSUME NEW i \in 1 .. n PROVE Takes(v, steps[i], h[i], h[i + 1])
    OBVIOUS
  <2>1. h[i + 1] - h[i] = 0 - 1
    BY <1>1, <1>2
  <2> QED
    BY <2>1 DEF Takes, n
<1>6. Leads(v, steps, Up(a, h[1]), Up(a, h[Len(h)]))
  BY <1>2, <1>4, <1>5, Climbs DEF n
<1> QED
  BY <1>3, <1>6 DEF n

\* One step that counts.
LEMMA Moves ==
  ASSUME NEW v, NEW s, NEW a \in Height, NEW k \in Int, NEW m \in Int,
         Room(a, k), Room(a, m), Takes(v, s, k, m)
  PROVE  Leads(v, <<s>>, Up(a, k), Up(a, m))
<1> DEFINE n == m - k
           x == Up(a, k)
           y == Up(a, m)
<1>0. n \in Int /\ m = k + n
  OBVIOUS
<1>1. Does(v, s, n)
  BY DEF Takes
<1>2. x \in Height /\ x.len = a.len + k /\ x.frames = a.frames /\ x.outer = a.outer
  BY UpParts
<1>3. /\ y \in Height /\ y.len = a.len + m /\ y.pop = "any"
      /\ y.frames = a.frames /\ y.outer = a.outer
  BY UpParts
<1> HIDE DEF x, y, n
<1>4. y.len = x.len + n
  BY <1>0, <1>2, <1>3, HeightParts
<1>5. Goes(v, x, s, y)
  BY <1>0, <1>1, <1>2, <1>3, <1>4, DoesGoes
<1>6. Leads(v, <<s>>, x, y)
  BY <1>5, LeadsOne
<1> QED
  BY <1>6 DEF x, y

\* Values rise by their number.
LEMMA ExprsRise ==
  ASSUME NEW v, NEW es, AreValues(Hir, es), NEW a \in Height, NEW k \in Int, Room(a, k)
  PROVE  /\ Leads(v, Exprs(es), Up(a, k), Up(a, k + Len(es)))
         /\ Len(es) \in Nat
<1> DEFINE n == Len(es)
           steps == Exprs(es)
           T == {Expr(es[i]) : i \in 1 .. n}
<1>1. n \in Nat /\ \A i \in 1 .. n : IsValue(Hir, es[i])
  BY DEF AreValues
<1>2. steps \in Seq(T) /\ Len(steps) = n /\ \A i \in 1 .. n : steps[i] = Expr(es[i])
  BY <1>1 DEF Exprs
<1> HIDE DEF steps, n, T
<1>3. \A i \in 1 .. Len(steps) : Does(v, steps[i], 1)
  BY <1>1, <1>2, DoesCalling
<1>4. Leads(v, steps, Up(a, k), Up(a, k + Len(steps)))
  BY <1>2, <1>3, Rises
<1> QED
  BY <1>1, <1>2, <1>4 DEF steps, n

\* The same step, n times.
LEMMA RepeatParts ==
  ASSUME NEW n \in Nat, NEW s
  PROVE  /\ Repeat(n, s) \in Seq({s}) /\ Len(Repeat(n, s)) = n
         /\ \A i \in 1 .. n : Repeat(n, s)[i] = s
BY DEF Repeat

\* A step that adds nothing may be repeated, ...
LEMMA RepeatStays ==
  ASSUME NEW v, NEW n \in Nat, NEW s, Does(v, s, 0), NEW a \in Height, NEW k \in Int,
         Room(a, k)
  PROVE  Leads(v, Repeat(n, s), Up(a, k), Up(a, k))
<1> DEFINE q == Repeat(n, s)
<1>1. q \in Seq({s}) /\ Len(q) = n /\ \A i \in 1 .. n : q[i] = s
  BY RepeatParts
<1> HIDE DEF q
<1>2. Leads(v, q, Up(a, k), Up(a, k))
  BY <1>1, Stays
<1> QED
  BY <1>2 DEF q

\* ... and one that takes one takes n if repeated n times.
LEMMA RepeatSinks ==
  ASSUME NEW v, NEW n \in Nat, NEW s, Does(v, s, 0 - 1), NEW a \in Height, NEW k \in Int,
         Room(a, k - n)
  PROVE  Leads(v, Repeat(n, s), Up(a, k), Up(a, k - n))
<1> DEFINE q == Repeat(n, s)
<1>1. q \in Seq({s}) /\ Len(q) = n /\ \A i \in 1 .. n : q[i] = s
  BY RepeatParts
<1> HIDE DEF q
<1>2. Leads(v, q, Up(a, k), Up(a, k - Len(q)))
  BY <1>1, Sinks
<1> QED
  BY <1>1, <1>2 DEF q

-----------------------------------------------------------------------------
(* A few steps, and sequences one after the other.                         *)

\* There is always room above.
LEMMA RoomAbove ==
  ASSUME NEW a \in Height, NEW n \in Nat
  PROVE  Room(a, n)
BY HeightParts DEF Room

\* Two steps are one after the other.
LEMMA Pair ==
  ASSUME NEW s, NEW t
  PROVE  <<s, t>> = <<s>> \o <<t>>
<1> DEFINE q == <<s>>
<1>1. q \in Seq({s, t}) /\ t \in {s, t} /\ <<s, t>> = Append(q, t)
  OBVIOUS
<1> HIDE DEF q
<1>2. Append(q, t) = q \o <<t>>
  BY <1>1, AppendIsConcat
<1> QED
  BY <1>1, <1>2 DEF q

\* Two, three and four steps in a row, from height to height.
LEMMA TwoMoves ==
  ASSUME NEW v, NEW s, NEW t, NEW a \in Height, NEW k \in Int, NEW l \in Int, NEW m \in Int,
         Room(a, k), Room(a, l), Room(a, m), Takes(v, s, k, l), Takes(v, t, l, m)
  PROVE  Leads(v, <<s, t>>, Up(a, k), Up(a, m))
<1> DEFINE q == <<s>>
           r == <<t>>
<1>1. Leads(v, q, Up(a, k), Up(a, l)) /\ Leads(v, r, Up(a, l), Up(a, m))
  BY Moves
<1>2. <<s, t>> = q \o r
  BY Pair
<1> HIDE DEF q, r
<1> QED
  BY <1>1, <1>2, LeadsOn

\* Three.
LEMMA ThreeMoves ==
  ASSUME NEW v, NEW s, NEW t, NEW u, NEW a \in Height,
         NEW k \in Int, NEW l \in Int, NEW m \in Int, NEW n \in Int,
         Room(a, k), Room(a, l), Room(a, m), Room(a, n),
         Takes(v, s, k, l), Takes(v, t, l, m), Takes(v, u, m, n)
  PROVE  Leads(v, <<s, t, u>>, Up(a, k), Up(a, n))
<1> DEFINE q == <<s, t>>
           r == <<u>>
<1>1. Leads(v, q, Up(a, k), Up(a, m))
  BY TwoMoves
<1>2. Leads(v, r, Up(a, m), Up(a, n))
  BY Moves
<1>3. <<s, t, u>> = q \o r
  OBVIOUS
<1> HIDE DEF q, r
<1> QED
  BY <1>1, <1>2, <1>3, LeadsOn

\* Four.
LEMMA FourMoves ==
  ASSUME NEW v, NEW s, NEW t, NEW u, NEW w, NEW a \in Height,
         NEW k \in Int, NEW l \in Int, NEW m \in Int, NEW n \in Int, NEW o \in Int,
         Room(a, k), Room(a, l), Room(a, m), Room(a, n), Room(a, o),
         Takes(v, s, k, l), Takes(v, t, l, m), Takes(v, u, m, n), Takes(v, w, n, o)
  PROVE  Leads(v, <<s, t, u, w>>, Up(a, k), Up(a, o))
<1> DEFINE q == <<s, t>>
           r == <<u, w>>
<1>1. Leads(v, q, Up(a, k), Up(a, m))
  BY TwoMoves
<1>2. Leads(v, r, Up(a, m), Up(a, o))
  BY TwoMoves
<1>3. <<s, t, u, w>> = q \o r
  OBVIOUS
<1> HIDE DEF q, r
<1> QED
  BY <1>1, <1>2, <1>3, LeadsOn

\* Three sequences in a row.
LEMMA LeadsOn3 ==
  ASSUME NEW v, NEW q, NEW r, NEW s, NEW a, NEW b, NEW c, NEW d,
         Leads(v, q, a, b), Leads(v, r, b, c), Leads(v, s, c, d)
  PROVE  Leads(v, (q \o r) \o s, a, d)
<1>1. Leads(v, q \o r, a, c)
  BY LeadsOn
<1> QED
  BY <1>1, LeadsOn

\* Four sequences in a row.
LEMMA LeadsOn4 ==
  ASSUME NEW v, NEW q, NEW r, NEW s, NEW t, NEW a, NEW b, NEW c, NEW d, NEW e,
         Leads(v, q, a, b), Leads(v, r, b, c), Leads(v, s, c, d), Leads(v, t, d, e)
  PROVE  Leads(v, ((q \o r) \o s) \o t, a, e)
<1>1. Leads(v, (q \o r) \o s, a, d)
  BY LeadsOn3
<1> QED
  BY <1>1, LeadsOn

\* A step that asserts the length, in a handler that has begun.
LEMMA AssertLeads ==
  ASSUME NEW v, NEW a, Opened(a)
  PROVE  Leads(v, <<AssertOne>>, Up(a, 1), Up(a, 1))
<1> DEFINE x == Up(a, 1)
<1>1. a \in Height /\ Room(a, 1) /\ 1 \in Int
  BY RoomAbove DEF Opened
<1>2. x \in Height /\ x.len = a.len + 1 /\ x.frames = a.frames
  BY <1>1, UpParts
<1> HIDE DEF x
<1>3. x.frames # <<>> /\ x.len = Top(x).len + 1
  BY <1>2 DEF Opened, Top
<1>4. Frames(x, AssertOne, x)
  BY <1>2, <1>3 DEF Frames, AssertOne
<1>5. Goes(v, x, AssertOne, x)
  BY <1>2, <1>4 DEF Goes
<1> QED
  BY <1>5, LeadsOne DEF x

\* Of n values the last one is left.
LEMMA BalanceLeads ==
  ASSUME NEW v, NEW a, Opened(a), NEW n \in Nat \ {0}
  PROVE  Leads(v, <<Balance>>, Up(a, n), Up(a, 1))
<1> DEFINE x == Up(a, n)
           y == Up(a, 1)
<1>1. a \in Height /\ Room(a, 1) /\ 1 \in Int /\ Room(a, n) /\ n \in Int /\ a.len \in Nat
  BY RoomAbove, HeightParts DEF Opened
<1>2. x \in Height /\ x.len = a.len + n /\ x.frames = a.frames /\ x.outer = a.outer
      /\ x.pop = "any"
  BY <1>1, UpParts
<1>3. y \in Height /\ y.len = a.len + 1 /\ y.frames = a.frames /\ y.outer = a.outer
      /\ y.pop = "any"
  BY <1>1, UpParts
<1> HIDE DEF x, y
<1>4. x.frames # <<>> /\ Top(x).len = a.len /\ x.len > Top(x).len
  BY <1>1, <1>2 DEF Opened, Top
<1> DEFINE z == Level(x, Top(x).len + 1, x.pop)
<1>5. z \in Height /\ z.len = a.len + 1 /\ z.frames = a.frames /\ z.outer = a.outer
      /\ z.pop = "any"
  <2> DEFINE l == Top(x).len + 1
  <2>1. l \in Nat /\ l = a.len + 1
    BY <1>1, <1>4
  <2> HIDE DEF l
  <2>2. LET b == Level(x, l, "any")
        IN  b \in Height /\ b.len = l /\ b.pop = "any" /\ b.frames = x.frames /\ b.outer = x.outer
    <3>1. x \in Height
      BY <1>2
    <3> HIDE DEF l, x
    <3> QED
      BY <2>1, <3>1, LevelParts, ZenonT(60)
  <2> QED
    BY <1>2, <2>1, <2>2 DEF l
<1> HIDE DEF z
<1>6. y = z
  BY <1>3, <1>5, SameHeight
<1>7. Frames(x, Balance, y)
  BY <1>3, <1>4, <1>6 DEF Frames, Balance, z
<1>8. Goes(v, x, Balance, y)
  BY <1>2, <1>3, <1>7 DEF Goes
<1> QED
  BY <1>8, LeadsOne DEF x, y

-----------------------------------------------------------------------------
(* The frame of a handler.                                                 *)

Pushed(a) == [a EXCEPT !.frames = Append(a.frames, [len |-> a.len, base |-> a.len])]

(* The handler that began at o is at its end at b: only its own frame may  *)
(* differ.                                                                 *)
Ended(o, b, n, pop) ==
  /\ b \in Height /\ b.len = o.len + n /\ b.pop = pop /\ b.outer = o.outer
  /\ b.frames # <<>> /\ Front(b.frames) = Front(o.frames)

\* The last element of a sequence with one appended, and what is before it.
LEMMA LastAppended ==
  ASSUME NEW S, NEW s \in Seq(S), NEW x \in S
  PROVE  Front(Append(s, x)) = s /\ Last(Append(s, x)) = x
<1> DEFINE t == Append(s, x)
           u == Front(t)
<1>1. /\ t \in Seq(S) /\ t # <<>> /\ Len(t) = Len(s) + 1 /\ Len(s) \in Nat
      /\ t[Len(s) + 1] = x /\ \A i \in 1 .. Len(s) : t[i] = s[i]
  OBVIOUS
<1> HIDE DEF t
<1>2. /\ Last(t) = t[Len(t)] /\ u \in Seq(S) /\ Len(u) = Len(t) - 1
      /\ \A i \in 1 .. Len(t) - 1 : u[i] = t[i]
  BY <1>1, LastOfSeq
<1> HIDE DEF u
<1>3. u = s
  <2>1. Len(u) = Len(s) /\ \A i \in 1 .. Len(s) : u[i] = s[i]
    BY <1>1, <1>2
  <2> QED
    BY <1>2, <2>1
<1>4. Last(t) = x
  BY <1>1, <1>2
<1> QED
  BY <1>3, <1>4 DEF t, u

\* The height at the beginning of a handler.
LEMMA PushedParts ==
  ASSUME NEW a \in Height
  PROVE  LET o == Pushed(a)
         IN  /\ o \in Height /\ o.len = a.len /\ o.pop = a.pop /\ o.outer = a.outer
             /\ o.frames = Append(a.frames, [len |-> a.len, base |-> a.len])
             /\ o.frames # <<>> /\ Front(o.frames) = a.frames
             /\ Top(o) = [len |-> a.len, base |-> a.len]
<1> DEFINE f == [len |-> a.len, base |-> a.len]
           fs == Append(a.frames, f)
           o == Pushed(a)
<1>1. a.len \in Nat /\ a.frames \in Seq(HeightFrame) /\ f \in HeightFrame
  BY HeightParts DEF HeightFrame
<1>2. fs \in Seq(HeightFrame) /\ fs # <<>>
  <2> HIDE DEF f
  <2> QED
    BY <1>1, AppendProperties
<1>3. o \in Height /\ o.len = a.len /\ o.pop = a.pop /\ o.outer = a.outer /\ o.frames = fs
  <2> HIDE DEF fs
  <2>1. o = [a EXCEPT !.frames = fs]
    BY DEF Pushed, fs, f
  <2> HIDE DEF o
  <2> QED
    BY <1>2, <2>1 DEF Height
<1>4. Front(fs) = a.frames /\ Last(fs) = f
  BY <1>1, LastAppended
<1> HIDE DEF fs, o, f
<1>5. Top(o) = f
  BY <1>3, <1>4 DEF Top
<1> QED
  BY <1>2, <1>3, <1>4, <1>5 DEF fs, o, f

\* A handler begins with the count its frame tells.
LEMMA PushedOpened ==
  ASSUME NEW a \in Height, a.pop = "any"
  PROVE  Opened(Pushed(a))
<1> DEFINE o == Pushed(a)
<1>1. /\ o \in Height /\ o.len = a.len /\ o.pop = a.pop /\ o.frames # <<>>
      /\ Top(o) = [len |-> a.len, base |-> a.len]
  BY PushedParts
<1> HIDE DEF o
<1>2. Opened(o)
  BY <1>1 DEF Opened
<1> QED
  BY <1>2 DEF o

\* Beginning a handler.
LEMMA PushLeads ==
  ASSUME NEW v, NEW a \in Height
  PROVE  Leads(v, <<Push>>, a, Pushed(a))
<1> DEFINE o == Pushed(a)
<1>1. /\ o \in Height /\ o.len = a.len /\ o.pop = a.pop /\ o.outer = a.outer
      /\ o.frames = Append(a.frames, [len |-> a.len, base |-> a.len])
  BY PushedParts
<1> HIDE DEF o
<1>2. Frames(a, Push, o)
  BY <1>1 DEF Frames, Push
<1>3. Goes(v, a, Push, o)
  BY <1>1, <1>2 DEF Goes
<1> QED
  BY <1>3, LeadsOne DEF o

\* Ending a handler that added n leaves the frames of its caller.
LEMMA PopLeads ==
  ASSUME NEW v, NEW a \in Height, NEW b, NEW n \in Int, NEW pop \in {"any", "no"},
         Ended(Pushed(a), b, n, pop)
  PROVE  Leads(v, <<Pop>>, b, Level(a, a.len + n, pop)) /\ Leads(v, <<Pop>>, b, Up(a, n))
<1> DEFINE o == Pushed(a)
           l == a.len + n
<1>1. o.len = a.len /\ o.outer = a.outer /\ Front(o.frames) = a.frames
  BY PushedParts
<1> HIDE DEF o
<1>2. /\ b \in Height /\ b.len = o.len + n /\ b.pop = pop /\ b.outer = o.outer
      /\ b.frames # <<>> /\ Front(b.frames) = Front(o.frames)
  BY DEF Ended, o
<1>3. b.len = l /\ b.outer = a.outer /\ Front(b.frames) = a.frames /\ l \in Nat
  BY <1>1, <1>2, HeightParts
<1> HIDE DEF l
<1>4. ASSUME NEW p \in {pop, "any"}
      PROVE  Leads(v, <<Pop>>, b, Level(a, l, p))
  <2> DEFINE c == Level(a, l, p)
  <2>1. p \in {"yes", "no", "any"}
    OBVIOUS
  <2>2. c \in Height /\ c.len = l /\ c.pop = p /\ c.frames = a.frames /\ c.outer = a.outer
    BY <1>3, <2>1, LevelParts, SMTT(30)
  <2> HIDE DEF c
  <2>3. Frames(b, Pop, c)
    BY <1>2, <1>3, <2>2 DEF Frames, Pop
  <2>4. Goes(v, b, Pop, c)
    BY <1>2, <2>2, <2>3 DEF Goes
  <2> QED
    BY <2>4, LeadsOne DEF c
<1>5. Leads(v, <<Pop>>, b, Level(a, l, pop)) /\ Leads(v, <<Pop>>, b, Level(a, l, "any"))
  BY <1>4
<1> QED
  BY <1>5 DEF l, Up

\* At its end, a handler that has changed its own frame not at all.
LEMMA UpEnded ==
  ASSUME NEW a, Opened(a), NEW n \in Int, Room(a, n)
  PROVE  Ended(a, Up(a, n), n, "any") /\ Ended(a, Kept(a, n), n, "no")
<1>1. a \in Height /\ a.frames # <<>>
  BY DEF Opened
<1>2. /\ Up(a, n) \in Height /\ Up(a, n).len = a.len + n /\ Up(a, n).pop = "any"
      /\ Up(a, n).frames = a.frames /\ Up(a, n).outer = a.outer
      /\ Kept(a, n) \in Height /\ Kept(a, n).len = a.len + n /\ Kept(a, n).pop = "no"
      /\ Kept(a, n).frames = a.frames /\ Kept(a, n).outer = a.outer
  BY <1>1, UpParts
<1> QED
  BY <1>1, <1>2 DEF Ended

-----------------------------------------------------------------------------
(* The steps of a loop, each with the same step after it.                  *)

\* The odd places are the steps', the even ones those of what is after each.
LEMMA OddEven ==
  ASSUME NEW n \in Nat, NEW j \in 1 .. 2 * n
  PROVE  \/ /\ j % 2 = 1 /\ (j + 1) \div 2 \in 1 .. n /\ j = 2 * ((j + 1) \div 2) - 1
            /\ (j + 1) % 2 = 0
         \/ /\ j % 2 = 0 /\ j \div 2 \in 1 .. n /\ j = 2 * (j \div 2) /\ (j + 1) % 2 = 1
            /\ ((j + 1) + 1) \div 2 = (j \div 2) + 1
OBVIOUS

EachAt(steps, after, j) == IF j % 2 = 1 THEN steps[(j + 1) \div 2] ELSE after

\* The elements of Each.
LEMMA EachParts ==
  ASSUME NEW T, NEW steps \in Seq(T), NEW after
  PROVE  LET q == Each(steps, after)
             n == Len(steps)
         IN  /\ q \in Seq(T \union {after}) /\ Len(q) = 2 * n
             /\ \A j \in 1 .. 2 * n : q[j] = EachAt(steps, after, j)
<1> DEFINE n == Len(steps)
           F(j) == IF j % 2 = 1 THEN steps[(j + 1) \div 2] ELSE after
           q == [j \in 1 .. 2 * n |-> F(j)]
<1>1. n \in Nat /\ 2 * n \in Nat /\ \A i \in 1 .. n : steps[i] \in T
  OBVIOUS
<1>2. ASSUME NEW j \in 1 .. 2 * n
      PROVE  F(j) \in T \union {after}
  <2>1. j % 2 = 1 => (j + 1) \div 2 \in 1 .. n
    BY <1>1, OddEven
  <2> HIDE DEF n
  <2> QED
    BY <1>1, <2>1
<1> HIDE DEF n, F
<1>3. q \in Seq(T \union {after}) /\ Len(q) = 2 * n /\ \A j \in 1 .. 2 * n : q[j] = F(j)
  BY <1>1, <1>2
<1>4. q = Each(steps, after)
  BY DEF Each, n, F
<1> HIDE DEF q
<1> QED
  BY <1>3, <1>4 DEF n, F, EachAt

\* p: the heights before each of them, and at the end; m: those between the two.
LEMMA EachLeads ==
  ASSUME NEW v, NEW T, NEW steps \in Seq(T), NEW after,
         NEW p \in Seq(Height), Len(p) = Len(steps) + 1,
         NEW m \in Seq(Height), Len(m) = Len(steps),
         \A i \in 1 .. Len(steps) :
           Goes(v, p[i], steps[i], m[i]) /\ Goes(v, m[i], after, p[i + 1])
  PROVE  Leads(v, Each(steps, after), p[1], p[Len(steps) + 1])
<1> DEFINE n == Len(steps)
           q == Each(steps, after)
           P(j) == IF j % 2 = 1 THEN p[(j + 1) \div 2] ELSE m[j \div 2]
           r == [j \in 1 .. 2 * n + 1 |-> P(j)]
<1>1. n \in Nat /\ 2 * n \in Nat /\ Len(p) = n + 1 /\ Len(m) = n
  OBVIOUS
<1>2. /\ q \in Seq(T \union {after}) /\ Len(q) = 2 * n
      /\ \A j \in 1 .. 2 * n : q[j] = EachAt(steps, after, j)
  BY EachParts
<1> HIDE DEF q
<1>3. /\ \A i \in 1 .. n + 1 : p[i] \in Height
      /\ \A i \in 1 .. n : m[i] \in Height
  BY <1>1
<1>e. /\ 2 * n + 1 \in Nat /\ (2 * n + 1) % 2 = 1 /\ ((2 * n + 1) + 1) \div 2 = n + 1
      /\ n + 1 \in 1 .. n + 1 /\ 1 \in 1 .. 2 * n + 1 /\ 1 % 2 = 1 /\ (1 + 1) \div 2 = 1
  BY <1>1
<1>4. ASSUME NEW j \in 1 .. 2 * n + 1
      PROVE  P(j) \in Height
  <2>1. CASE j = 2 * n + 1
    BY <1>3, <1>e, <2>1
  <2>2. CASE j # 2 * n + 1
    <3>1. j \in 1 .. 2 * n
      <4> DEFINE N == 2 * n
      <4>1. N \in Nat /\ j \in 1 .. N + 1 /\ j # N + 1
        BY <1>1, <2>2
      <4> HIDE DEF N
      <4>2. j \in 1 .. N
        BY <4>1
      <4> QED
        BY <4>2 DEF N
    <3>2. \/ j % 2 = 1 /\ (j + 1) \div 2 \in 1 .. n
          \/ j % 2 = 0 /\ j \div 2 \in 1 .. n
      BY <1>1, <3>1, OddEven
    <3>3. (j + 1) \div 2 \in 1 .. n => (j + 1) \div 2 \in 1 .. n + 1
      BY <1>1
    <3> HIDE DEF n
    <3> QED
      BY <1>3, <3>2, <3>3
  <2> QED
    BY <2>1, <2>2
<1> HIDE DEF n, P
<1>5. r \in Seq(Height) /\ Len(r) = 2 * n + 1 /\ \A j \in 1 .. 2 * n + 1 : r[j] = P(j)
  <2> DEFINE N == 2 * n + 1
  <2>1. N \in Nat /\ \A j \in 1 .. N : P(j) \in Height
    BY <1>4, <1>e
  <2>2. r = [j \in 1 .. N |-> P(j)]
    OBVIOUS
  <2> HIDE DEF N, r
  <2>3. r \in Seq(Height) /\ Len(r) = N /\ \A j \in 1 .. N : r[j] = P(j)
    BY <2>1, <2>2
  <2> QED
    BY <2>3 DEF N
<1> HIDE DEF r
<1>6. ASSUME NEW j \in 1 .. 2 * n
      PROVE  Goes(v, r[j], q[j], r[j + 1])
  <2>1. j \in 1 .. 2 * n + 1 /\ j + 1 \in 1 .. 2 * n + 1 /\ r[j] = P(j) /\ r[j + 1] = P(j + 1)
    BY <1>1, <1>5
  <2>2. CASE j % 2 = 1
    <3> DEFINE i == (j + 1) \div 2
    <3>1. i \in 1 .. n /\ (j + 1) % 2 = 0
      BY <1>1, <2>2, OddEven
    <3>2. P(j) = p[i] /\ P(j + 1) = m[i] /\ q[j] = steps[i]
      BY <1>2, <2>2, <3>1 DEF P, EachAt
    <3> HIDE DEF i
    <3>3. Goes(v, p[i], steps[i], m[i])
      BY <3>1 DEF n
    <3> QED
      BY <2>1, <3>2, <3>3
  <2>3. CASE j % 2 # 1
    <3> DEFINE i == j \div 2
               k == ((j + 1) + 1) \div 2
    <3>1. i \in 1 .. n /\ (j + 1) % 2 = 1 /\ k = i + 1 /\ j % 2 = 0
      BY <1>1, <2>3, OddEven
    <3>2. P(j) = m[i] /\ P(j + 1) = p[k] /\ q[j] = after
      BY <1>2, <2>3, <3>1 DEF P, EachAt
    <3> HIDE DEF i, k
    <3>3. Goes(v, m[i], after, p[i + 1])
      BY <3>1 DEF n
    <3> QED
      BY <2>1, <3>1, <3>2, <3>3
  <2> QED
    BY <2>2, <2>3
<1>7. r[1] = p[1] /\ r[2 * n + 1] = p[n + 1]
  BY <1>1, <1>5, <1>e DEF P
<1>8. Leads(v, q, r[1], r[2 * n + 1])
  BY <1>2, <1>5, <1>6 DEF Leads
<1> QED
  BY <1>7, <1>8 DEF q, n

-----------------------------------------------------------------------------
(* The chunks of a block.                                                  *)

Popped(a) == Level(a, a.len, "yes")        \* a POP_TOP is the last unit
After1(o, e) == IF Valued(e) THEN Up(o, 1) ELSE Kept(o, 0)
After2(o, e) == IF Valued(e) THEN Popped(o) ELSE Kept(o, 0)

\* The height with a POP_TOP last.
LEMMA PoppedParts ==
  ASSUME NEW o \in Height
  PROVE  /\ Popped(o) \in Height /\ Popped(o).len = o.len /\ Popped(o).pop = "yes"
         /\ Popped(o).frames = o.frames /\ Popped(o).outer = o.outer
<1> DEFINE l == o.len
<1>1. l \in Nat
  BY HeightParts
<1>2. LET b == Level(o, l, "yes")
      IN  b \in Height /\ b.len = l /\ b.pop = "yes" /\ b.frames = o.frames /\ b.outer = o.outer
  BY <1>1, LevelParts
<1> QED
  BY <1>2 DEF Popped

\* The heights a statement of a block begins and ends at.
LEMMA RestParts ==
  ASSUME NEW o \in Height
  PROVE  /\ Room(o, 0) /\ Room(o, 1)
         /\ Up(o, 1) \in Height /\ Up(o, 1).len = o.len + 1 /\ Up(o, 1).pop = "any"
         /\ Up(o, 1).frames = o.frames /\ Up(o, 1).outer = o.outer
         /\ Up(o, 0) \in Height /\ Up(o, 0).len = o.len /\ Up(o, 0).pop = "any"
         /\ Up(o, 0).frames = o.frames /\ Up(o, 0).outer = o.outer
         /\ Kept(o, 0) \in Height /\ Kept(o, 0).len = o.len /\ Kept(o, 0).pop = "no"
         /\ Kept(o, 0).frames = o.frames /\ Kept(o, 0).outer = o.outer
<1>1. Room(o, 0) /\ Room(o, 1) /\ o.len + 0 = o.len /\ 0 \in Int /\ 1 \in Int
  BY HeightParts DEF Room
<1>2. /\ Up(o, 1) \in Height /\ Up(o, 1).len = o.len + 1 /\ Up(o, 1).pop = "any"
      /\ Up(o, 1).frames = o.frames /\ Up(o, 1).outer = o.outer
  BY <1>1, UpParts
<1>3. /\ Up(o, 0) \in Height /\ Up(o, 0).len = o.len + 0 /\ Up(o, 0).pop = "any"
      /\ Up(o, 0).frames = o.frames /\ Up(o, 0).outer = o.outer
      /\ Kept(o, 0) \in Height /\ Kept(o, 0).len = o.len + 0 /\ Kept(o, 0).pop = "no"
      /\ Kept(o, 0).frames = o.frames /\ Kept(o, 0).outer = o.outer
  BY <1>1, UpParts
<1> QED
  BY <1>1, <1>2, <1>3

\* A chunk, from any height with these frames.
LEMMA ChunkGoes ==
  ASSUME NEW v, NEW e \in Hir, NEW o \in Height, NEW x \in Height,
         x.len = o.len, x.frames = o.frames, x.outer = o.outer
  PROVE  /\ e.k # "typeasc" => Goes(v, x, Chunk(e), After1(o, e))
         /\ e.k = "typeasc" => Goes(v, x, Chunk(e), x)
<1> DEFINE y == After1(o, e)
<1>1. CASE Valued(e)
  <2>1. /\ y \in Height /\ y.len = x.len + 1 /\ y.pop = "any"
        /\ y.frames = x.frames /\ y.outer = x.outer
    BY <1>1, RestParts DEF After1
  <2> HIDE DEF y
  <2>2. Counts(v, x, Chunk(e), y)
    BY <1>1, <2>1 DEF Counts, Counting, Gain, Flag, Chunk
  <2> QED
    BY <1>1, <2>1, <2>2 DEF Goes, y, Valued
<1>2. CASE ~Valued(e) /\ e.k # "typeasc"
  <2>1. /\ y \in Height /\ y.len = x.len + 0 /\ y.pop = "no"
        /\ y.frames = x.frames /\ y.outer = x.outer
    BY <1>2, RestParts, HeightParts DEF After1
  <2> HIDE DEF y
  <2>2. Counts(v, x, Chunk(e), y)
    BY <1>2, <2>1 DEF Counts, Counting, Gain, Flag, Chunk
  <2> QED
    BY <1>2, <2>1, <2>2 DEF Goes, y
<1>3. CASE e.k = "typeasc"
  <2>1. x.len = x.len + 0 /\ ~Valued(e)
    BY <1>3, HeightParts DEF Valued
  <2>2. Counts(v, x, Chunk(e), x)
    BY <1>3, <2>1 DEF Counts, Counting, Gain, Flag, Chunk
  <2> QED
    BY <1>3, <2>2 DEF Goes
<1> QED
  BY <1>1, <1>2, <1>3

\* l is the last chunk before the i-th that is no ascription.
Emitted(block, i, l) ==
  /\ l \in 1 .. i - 1 /\ block[l].k # "typeasc"
  /\ \A j \in l + 1 .. i - 1 : block[j].k = "typeasc"

Silent(block, i) == \A j \in 1 .. i - 1 : block[j].k = "typeasc"

LEMMA EmittedParts ==
  ASSUME NEW block \in Seq(Hir), NEW i \in 1 .. Len(block) + 1
  PROVE  /\ Silent(block, i) \/ \E l : Emitted(block, i, l)
         /\ \A l : Emitted(block, i, l) => ~Silent(block, i)
         /\ \A l, m : Emitted(block, i, l) /\ Emitted(block, i, m) => l = m
<1> DEFINE S == {k \in Nat : k <= i - 1 /\ \A j \in k + 1 .. i - 1 : block[j].k = "typeasc"}
<1>1. i \in Nat \ {0} /\ i - 1 \in S
  OBVIOUS
<1>2. PICK k \in S : \A m \in S : ~(<<m, k>> \in OpToRel(<, Nat))
  BY <1>1, WFMin, NatLessThanWellFounded
<1>3. \A m \in S : ~(m < k)
  BY <1>2 DEF OpToRel
<1>4. k = 0 => Silent(block, i)
  BY DEF Silent
<1>5. k # 0 => Emitted(block, i, k)
  <2> SUFFICES ASSUME k # 0
               PROVE  block[k].k # "typeasc"
    BY DEF Emitted
  <2>1. k - 1 \in Nat /\ k - 1 < k /\ k - 1 <= i - 1
    BY <1>1
  <2>2. k - 1 \notin S
    BY <1>3, <2>1
  <2>3. PICK j \in (k - 1) + 1 .. i - 1 : block[j].k # "typeasc"
    BY <2>1, <2>2
  <2>4. j = k \/ j \in k + 1 .. i - 1
    BY <1>1, <2>3
  <2> QED
    BY <2>3, <2>4
<1>6. \A l : Emitted(block, i, l) => ~Silent(block, i)
  BY DEF Emitted, Silent
<1>7. \A l, m : Emitted(block, i, l) /\ Emitted(block, i, m) => l = m
  <2> SUFFICES ASSUME NEW l, NEW m, Emitted(block, i, l), Emitted(block, i, m), l < m
               PROVE  FALSE
    BY <1>1 DEF Emitted
  <2>1. m \in l + 1 .. i - 1
    BY <1>1 DEF Emitted
  <2> QED
    BY <2>1 DEF Emitted
<1> QED
  BY <1>4, <1>5, <1>6, <1>7

\* The value of a block is that of its last chunk but ascriptions.
LEMMA LeavesEmitted ==
  ASSUME NEW block \in Seq(Hir)
  PROVE  LET i == Len(block) + 1
         IN  /\ Silent(block, i) <=> Mute(block)
             /\ \A l : Emitted(block, i, l) => (Leaves(block) <=> Valued(block[l]))
<1> DEFINE n == Len(block)
           i == n + 1
<1>1. n \in Nat /\ i - 1 = n /\ i \in 1 .. n + 1
  OBVIOUS
<1>2. Silent(block, i) <=> Mute(block)
  BY <1>1 DEF Silent, Mute
<1>3. ASSUME NEW l, Emitted(block, i, l)
      PROVE  Leaves(block) <=> Valued(block[l])
  <2>1. Valued(block[l]) => Leaves(block)
    BY <1>1, <1>3 DEF Emitted, Leaves, Valued
  <2>2. ASSUME Leaves(block)
        PROVE  Valued(block[l])
    <3>1. PICK m \in 1 .. n : Valued(block[m]) /\ \A j \in m + 1 .. n : block[j].k = "typeasc"
      BY <2>2 DEF Leaves, Valued
    <3>2. Emitted(block, i, m)
      BY <1>1, <3>1 DEF Emitted, Valued
    <3>3. m = l
      BY <1>1, <1>3, <3>2, EmittedParts
    <3> QED
      BY <3>1, <3>3
  <2> QED
    BY <2>1, <2>2
<1> QED
  BY <1>2, <1>3

\* Whatever pops what the chunks leave: it is one POP_TOP, or nothing.
LEMMA ChunksLead ==
  ASSUME NEW v, NEW block \in Seq(Hir), NEW pop,
         NEW o \in Height, NEW x \in Height,
         x.len = o.len, x.frames = o.frames, x.outer = o.outer,
         Goes(v, Up(o, 1), pop, Popped(o)),
         \A y \in Height : y.len = o.len /\ y.frames = o.frames /\ y.outer = o.outer
                             => Goes(v, y, pop, y)
  PROVE  /\ Leaves(block) => Leads(v, Chunks(block, pop), x, Popped(o))
         /\ ~Leaves(block) /\ ~Mute(block) => Leads(v, Chunks(block, pop), x, Kept(o, 0))
         /\ Mute(block) => Leads(v, Chunks(block, pop), x, x)
<1> DEFINE n == Len(block)
           S == {Chunk(e) : e \in Hir}
           steps == [i \in 1 .. n |-> Chunk(block[i])]
           P(i) == IF Silent(block, i) THEN x
                   ELSE After2(o, block[CHOOSE l : Emitted(block, i, l)])
           M(i) == IF block[i].k = "typeasc" THEN P(i) ELSE After1(o, block[i])
           p == [i \in 1 .. n + 1 |-> P(i)]
           m == [i \in 1 .. n |-> M(i)]
<1>1. n \in Nat /\ (\A i \in 1 .. n : block[i] \in Hir)
  OBVIOUS
<1>2. steps \in Seq(S) /\ Len(steps) = n /\ \A i \in 1 .. n : steps[i] = Chunk(block[i])
  BY <1>1
<1>p. ASSUME NEW i \in 1 .. n + 1
      PROVE  /\ Silent(block, i) => P(i) = x
             /\ \A l : Emitted(block, i, l) => P(i) = After2(o, block[l])
  <2>1. ASSUME NEW l, Emitted(block, i, l)
        PROVE  P(i) = After2(o, block[l])
    <3>1. ~Silent(block, i) /\ \A k : Emitted(block, i, k) => k = l
      BY <2>1, EmittedParts
    <3> DEFINE k == CHOOSE k : Emitted(block, i, k)
    <3>2. Emitted(block, i, k)
      BY <2>1
    <3> HIDE DEF k
    <3>3. k = l
      BY <3>1, <3>2
    <3> QED
      BY <3>1, <3>3 DEF k
  <2> QED
    BY <2>1
<1> HIDE DEF steps, S
<1>3. ASSUME NEW e \in Hir
      PROVE  /\ After1(o, e) \in Height /\ After2(o, e) \in Height
             /\ After2(o, e).len = o.len /\ After2(o, e).frames = o.frames
             /\ After2(o, e).outer = o.outer
             /\ Goes(v, After1(o, e), pop, After2(o, e))
  <2>1. CASE Valued(e)
    BY <2>1, RestParts, PoppedParts DEF After1, After2
  <2>2. CASE ~Valued(e)
    BY <2>2, RestParts DEF After1, After2
  <2> QED
    BY <2>1, <2>2
<1> HIDE DEF P
<1>4. ASSUME NEW i \in 1 .. n + 1
      PROVE  /\ P(i) \in Height
             /\ P(i).len = o.len /\ P(i).frames = o.frames /\ P(i).outer = o.outer
  <2>1. CASE Silent(block, i)
    <3>1. P(i) = x
      BY <1>p, <2>1
    <3> QED
      BY <3>1
  <2>2. CASE ~Silent(block, i)
    <3>1. PICK l : Emitted(block, i, l)
      BY <2>2, EmittedParts
    <3> DEFINE e == block[l]
    <3>2. l \in 1 .. n
      BY <1>1, <3>1 DEF Emitted
    <3>3. P(i) = After2(o, e) /\ e \in Hir
      BY <1>1, <1>p, <3>1, <3>2
    <3> HIDE DEF e
    <3> QED
      BY <1>3, <3>3
  <2> QED
    BY <2>1, <2>2
<1>5. ASSUME NEW i \in 1 .. n
      PROVE  M(i) \in Height
  <2>1. i \in 1 .. n + 1 /\ block[i] \in Hir
    BY <1>1
  <2> QED
    BY <1>3, <1>4, <2>1
<1> HIDE DEF n, M
<1>6. /\ p \in Seq(Height) /\ Len(p) = n + 1 /\ \A i \in 1 .. n + 1 : p[i] = P(i)
  <2> DEFINE N == n + 1
  <2>1. N \in Nat /\ \A i \in 1 .. N : P(i) \in Height
    BY <1>1, <1>4
  <2>2. p = [i \in 1 .. N |-> P(i)]
    OBVIOUS
  <2> HIDE DEF N, p
  <2>3. p \in Seq(Height) /\ Len(p) = N /\ \A i \in 1 .. N : p[i] = P(i)
    BY <2>1, <2>2
  <2> QED
    BY <2>3 DEF N
<1>7. m \in Seq(Height) /\ Len(m) = n /\ \A i \in 1 .. n : m[i] = M(i)
  BY <1>1, <1>5
<1> HIDE DEF p, m
<1>8. ASSUME NEW i \in 1 .. n
      PROVE  Goes(v, p[i], steps[i], m[i]) /\ Goes(v, m[i], pop, p[i + 1])
  <2> DEFINE e == block[i]
             y == P(i)
             z == P(i + 1)
  <2>1. e \in Hir /\ i \in 1 .. n + 1 /\ i + 1 \in 1 .. n + 1 /\ (i + 1) - 1 = i
    BY <1>1
  <2>2. p[i] = y /\ p[i + 1] = z /\ m[i] = M(i) /\ steps[i] = Chunk(e)
    BY <1>2, <1>6, <1>7, <2>1
  <2>3. y \in Height /\ y.len = o.len /\ y.frames = o.frames /\ y.outer = o.outer
    BY <1>4, <2>1
  <2>4. CASE e.k = "typeasc"
    <3>1. z = y
      <4>1. CASE Silent(block, i)
        <5>1. Silent(block, i + 1)
          BY <1>1, <2>1, <2>4, <4>1 DEF Silent
        <5> QED
          BY <1>p, <2>1, <4>1, <5>1
      <4>2. CASE ~Silent(block, i)
        <5>1. PICK l : Emitted(block, i, l)
          BY <2>1, <4>2, EmittedParts DEF n
        <5>2. Emitted(block, i + 1, l)
          BY <1>1, <2>1, <2>4, <5>1 DEF Emitted
        <5>3. P(i) = After2(o, block[l]) /\ P(i + 1) = After2(o, block[l])
          BY <1>p, <2>1, <5>1, <5>2
        <5> QED
          BY <5>3
      <4> QED
        BY <4>1, <4>2
    <3>2. M(i) = y
      BY <2>4 DEF M
    <3> HIDE DEF e, y, z
    <3>3. Goes(v, y, Chunk(e), y) /\ Goes(v, y, pop, y)
      BY <2>1, <2>3, <2>4, ChunkGoes
    <3> QED
      BY <2>2, <3>1, <3>2, <3>3
  <2>5. CASE e.k # "typeasc"
    <3>1. z = After2(o, e) /\ M(i) = After1(o, e)
      <4>1. Emitted(block, i + 1, i)
        BY <1>1, <2>1, <2>5 DEF Emitted
      <4> QED
        BY <1>p, <2>1, <2>5, <4>1 DEF M
    <3> HIDE DEF e, y, z
    <3>2. Goes(v, y, Chunk(e), After1(o, e))
      BY <2>1, <2>3, <2>5, ChunkGoes
    <3>3. Goes(v, After1(o, e), pop, After2(o, e))
      BY <1>3, <2>1
    <3> QED
      BY <2>2, <3>1, <3>2, <3>3
  <2> QED
    BY <2>4, <2>5
<1>9. Leads(v, Each(steps, pop), p[1], p[n + 1])
  BY <1>2, <1>6, <1>7, <1>8, EachLeads
<1>10. p[1] = x /\ p[n + 1] = P(n + 1)
  <2>1. 1 \in 1 .. n + 1 /\ n + 1 \in 1 .. n + 1
    BY <1>1
  <2>2. Silent(block, 1)
    BY DEF Silent
  <2> QED
    BY <1>6, <1>p, <2>1, <2>2
<1>11. Leads(v, Chunks(block, pop), x, P(n + 1))
  BY <1>9, <1>10 DEF Chunks, steps, n
<1>12. n + 1 \in 1 .. n + 1
  BY <1>1
<1>13. CASE Mute(block)
  <2>1. P(n + 1) = x /\ ~Leaves(block)
    BY <1>12, <1>13, <1>p, LeavesEmitted, LeavesNotMute DEF n
  <2> QED
    BY <1>11, <1>13, <2>1
<1>14. CASE ~Mute(block)
  <2>1. PICK l : Emitted(block, n + 1, l)
    BY <1>12, <1>14, LeavesEmitted, EmittedParts DEF n
  <2>2. P(n + 1) = After2(o, block[l]) /\ (Leaves(block) <=> Valued(block[l]))
    BY <1>12, <1>p, <2>1, LeavesEmitted DEF n
  <2> QED
    BY <1>11, <1>14, <2>2 DEF After2
<1> QED
  BY <1>13, <1>14

\* A height with the same frames and blocks is a level of the other.
LEMMA LevelIs ==
  ASSUME NEW a \in Height, NEW b \in Height, NEW l \in Nat, NEW p \in {"yes", "no", "any"},
         b.len = l, b.pop = p, b.frames = a.frames, b.outer = a.outer
  PROVE  b = Level(a, l, p)
<1>1. LET c == Level(a, l, p)
      IN  c \in Height /\ c.len = l /\ c.pop = p /\ c.frames = a.frames /\ c.outer = a.outer
  BY LevelParts, SMTT(30)
<1>2. ASSUME NEW c \in Height, c.len = l, c.pop = p, c.frames = a.frames, c.outer = a.outer
      PROVE  b = c
  BY <1>2, SameHeight
<1> QED
  BY <1>1, <1>2

\* Two single steps in a row.
LEMMA LeadsPair ==
  ASSUME NEW v, NEW s, NEW t, NEW a, NEW b, NEW c, Leads(v, <<s>>, a, b), Leads(v, <<t>>, b, c)
  PROVE  Leads(v, <<s, t>>, a, c)
<1> DEFINE q == <<s>>
           r == <<t>>
<1>1. <<s, t>> = q \o r
  BY Pair
<1>2. Leads(v, q, a, b) /\ Leads(v, r, b, c)
  OBVIOUS
<1> HIDE DEF q, r
<1> QED
  BY <1>1, <1>2, LeadsOn

\* The last POP_TOP of a block is cancelled.
LEMMA CancelLeads ==
  ASSUME NEW v, NEW o \in Height
  PROVE  /\ Leads(v, <<CancelPopTop>>, Popped(o), Up(o, 1))
         /\ Leads(v, <<CancelPopTop>>, Kept(o, 0), Up(o, 0))
<1> DEFINE x == Popped(o)
           y == Kept(o, 0)
           z == Up(o, 1)
           w == Up(o, 0)
<1>1. /\ x \in Height /\ x.len = o.len /\ x.pop = "yes" /\ x.frames = o.frames
      /\ x.outer = o.outer
  BY PoppedParts
<1>2. /\ y \in Height /\ y.len = o.len /\ y.pop = "no" /\ y.frames = o.frames
      /\ y.outer = o.outer
      /\ z \in Height /\ z.len = o.len + 1 /\ z.pop = "any" /\ z.frames = o.frames
      /\ z.outer = o.outer
      /\ w \in Height /\ w.len = o.len /\ w.pop = "any" /\ w.frames = o.frames
      /\ w.outer = o.outer
  BY RestParts
<1> HIDE DEF x, y, z, w
<1>3. z = Level(x, x.len + 1, "any")
  <2> DEFINE l == x.len + 1
  <2>1. l \in Nat /\ l = o.len + 1
    BY <1>1, HeightParts
  <2> HIDE DEF l
  <2>2. z = Level(x, l, "any")
    BY <1>1, <1>2, <2>1, LevelIs
  <2> QED
    BY <2>2 DEF l
<1>4. w = Level(y, y.len, "any")
  <2> DEFINE l == y.len
  <2>1. l \in Nat /\ l = o.len
    BY <1>2, HeightParts
  <2> HIDE DEF l
  <2>2. w = Level(y, l, "any")
    BY <1>2, <2>1, LevelIs
  <2> QED
    BY <2>2 DEF l
<1>5. Frames(x, CancelPopTop, z) /\ Frames(y, CancelPopTop, w)
  <2>1. Frames(x, CancelPopTop, z)
    BY <1>1, <1>2, <1>3 DEF Frames, CancelPopTop
  <2>2. Frames(y, CancelPopTop, w)
    BY <1>2, <1>4 DEF Frames, CancelPopTop
  <2> QED
    BY <2>1, <2>2
<1>6. Goes(v, x, CancelPopTop, z) /\ Goes(v, y, CancelPopTop, w)
  BY <1>1, <1>2, <1>5 DEF Goes
<1> QED
  BY <1>6, LeadsOne DEF x, y, z, w

\* In a handler, a POP_TOP follows a value and nothing follows what leaves none.
LEMMA PopAboveGoes ==
  ASSUME NEW v, NEW o, Opened(o)
  PROVE  /\ Goes(v, Up(o, 1), PopAbove, Popped(o))
         /\ \A y \in Height : y.len = o.len /\ y.frames = o.frames /\ y.outer = o.outer
                                => Goes(v, y, PopAbove, y)
<1> DEFINE x == Popped(o)
           z == Up(o, 1)
<1>o. o \in Height /\ o.frames # <<>> /\ Top(o).len = o.len /\ o.len \in Nat
  BY HeightParts DEF Opened
<1>1. /\ x \in Height /\ x.len = o.len /\ x.pop = "yes" /\ x.frames = o.frames
      /\ x.outer = o.outer
  BY <1>o, PoppedParts
<1>2. /\ z \in Height /\ z.len = o.len + 1 /\ z.pop = "any" /\ z.frames = o.frames
      /\ z.outer = o.outer
  BY <1>o, RestParts
<1> HIDE DEF x, z
<1>3. x = Level(z, z.len - 1, "yes")
  <2> DEFINE l == z.len - 1
  <2>1. l \in Nat /\ l = o.len
    BY <1>2, <1>o
  <2> HIDE DEF l
  <2>2. x = Level(z, l, "yes")
    BY <1>1, <1>2, <2>1, LevelIs
  <2> QED
    BY <2>2 DEF l
<1>4. z.len > Top(z).len
  BY <1>o, <1>2 DEF Top
<1>5. Frames(z, PopAbove, x)
  BY <1>o, <1>1, <1>2, <1>3, <1>4 DEF Frames, PopAbove
<1>6. ASSUME NEW y \in Height, y.len = o.len, y.frames = o.frames, y.outer = o.outer
      PROVE  Goes(v, y, PopAbove, y)
  <2>1. ~(y.len > Top(y).len)
    BY <1>o, <1>6 DEF Top
  <2>2. Frames(y, PopAbove, y)
    BY <1>o, <1>6, <2>1 DEF Frames, PopAbove
  <2> QED
    BY <2>2 DEF Goes
<1>7. Goes(v, z, PopAbove, x)
  BY <1>1, <1>2, <1>5 DEF Goes
<1> QED
  BY <1>6, <1>7 DEF x, z

\* emit_simple_block
LEMMA BlockLeads ==
  ASSUME NEW v, NEW block \in Seq(Hir), block # <<>>, ~Mute(block), NEW a \in Height,
         a.pop = "any"
  PROVE  /\ Leaves(block) => Leads(v, BlockSteps(block), a, Up(a, 1))
         /\ ~Leaves(block) => Leads(v, BlockSteps(block), a, Up(a, 0))
<1> DEFINE o == Pushed(a)
           c == Chunks(block, PopAbove)
<1>1. Opened(o) /\ o \in Height
  BY PushedOpened DEF Opened
<1>2. Leads(v, <<Push>>, a, o)
  BY PushLeads
<1> HIDE DEF o
<1>3. /\ Leaves(block) => Leads(v, c, o, Popped(o))
      /\ ~Leaves(block) => Leads(v, c, o, Kept(o, 0))
  BY <1>1, PopAboveGoes, ChunksLead
<1>4. BlockSteps(block) = (<<Push>> \o c) \o <<CancelPopTop, Pop>>
  BY DEF BlockSteps, When
<1>5. CASE Leaves(block)
  <2>1. Leads(v, <<CancelPopTop>>, Popped(o), Up(o, 1))
    BY <1>1, CancelLeads
  <2>2. Ended(o, Up(o, 1), 1, "any")
    BY <1>1, RestParts, UpEnded
  <2>3. Leads(v, <<Pop>>, Up(o, 1), Up(a, 1))
    BY <2>2, PopLeads DEF o
  <2>4. Leads(v, <<CancelPopTop, Pop>>, Popped(o), Up(a, 1))
    BY <2>1, <2>3, LeadsPair
  <2>5. Leads(v, BlockSteps(block), a, Up(a, 1))
    BY <1>2, <1>3, <1>4, <1>5, <2>4, LeadsOn3
  <2> QED
    BY <1>5, <2>5
<1>6. CASE ~Leaves(block)
  <2>1. Leads(v, <<CancelPopTop>>, Kept(o, 0), Up(o, 0))
    BY <1>1, CancelLeads
  <2>2. Ended(o, Up(o, 0), 0, "any")
    BY <1>1, RestParts, UpEnded
  <2>3. Leads(v, <<Pop>>, Up(o, 0), Up(a, 0))
    BY <2>2, PopLeads DEF o
  <2>4. Leads(v, <<CancelPopTop, Pop>>, Kept(o, 0), Up(a, 0))
    BY <2>1, <2>3, LeadsPair
  <2>5. Leads(v, BlockSteps(block), a, Up(a, 0))
    BY <1>2, <1>3, <1>4, <1>6, <2>4, LeadsOn3
  <2> QED
    BY <1>6, <2>5
<1> QED
  BY <1>5, <1>6

-----------------------------------------------------------------------------
(* A block with a unit of its own.                                         *)

Entered(a, pop) == [a EXCEPT !.len = 0, !.pop = pop, !.outer = Append(a.outer, a.len)]

\* The height at the beginning of a block.
LEMMA EnteredParts ==
  ASSUME NEW a \in Height, NEW pop \in {"no", "any"}
  PROVE  LET y == Entered(a, pop)
         IN  /\ y \in Height /\ y.len = 0 /\ y.pop = pop /\ y.frames = a.frames
             /\ y.outer = Append(a.outer, a.len)
             /\ y.outer # <<>> /\ Front(y.outer) = a.outer /\ Last(y.outer) = a.len
<1> DEFINE u == Append(a.outer, a.len)
           y == Entered(a, pop)
           l == a.len
<1>1. a.outer \in Seq(Nat) /\ l \in Nat
  BY HeightParts
<1>2. u \in Seq(Nat) /\ u # <<>>
  BY <1>1, AppendProperties
<1>3. Front(u) = a.outer /\ Last(u) = a.len
  BY <1>1, LastAppended
<1> HIDE DEF u
<1>4. y \in Height /\ y.len = 0 /\ y.pop = pop /\ y.frames = a.frames /\ y.outer = u
  <2>1. y = [a EXCEPT !.len = 0, !.pop = pop, !.outer = u]
    BY DEF Entered, u
  <2> HIDE DEF y
  <2> QED
    BY <1>2, <2>1 DEF Height
<1> QED
  BY <1>2, <1>3, <1>4 DEF u

\* Beginning a block.
LEMMA EnterLeads ==
  ASSUME NEW v, NEW a \in Height, NEW pop \in {"no", "any"}
  PROVE  Leads(v, <<EnterBlock>>, a, Entered(a, pop))
<1> DEFINE y == Entered(a, pop)
<1>1. /\ y \in Height /\ y.len = 0 /\ y.pop = pop /\ y.frames = a.frames
      /\ y.outer = Append(a.outer, a.len)
  BY EnteredParts
<1> HIDE DEF y
<1>2. Frames(a, EnterBlock, y)
  BY <1>1 DEF Frames, EnterBlock
<1>3. Goes(v, a, EnterBlock, y)
  BY <1>1, <1>2 DEF Goes
<1> QED
  BY <1>3, LeadsOne DEF y

\* A block may end when at most its result is left on the count.
LEMMA LeaveLeads ==
  ASSUME NEW v, NEW a \in Height, NEW pop \in {"no", "any"}, NEW b \in Height,
         b.len <= 1, b.frames = a.frames, b.outer = Entered(a, pop).outer
  PROVE  Leads(v, <<LeaveBlock>>, b, Up(a, 0))
<1> DEFINE z == Up(a, 0)
           u == Entered(a, pop).outer
<1>1. u # <<>> /\ Front(u) = a.outer /\ Last(u) = a.len
  BY EnteredParts
<1>2. z \in Height /\ z.len = a.len /\ z.pop = "any" /\ z.frames = a.frames /\ z.outer = a.outer
  BY RestParts
<1> HIDE DEF u, z
<1>3. b.outer = u
  BY DEF u
<1>4. Frames(b, LeaveBlock, z)
  BY <1>1, <1>2, <1>3 DEF Frames, LeaveBlock
<1>5. Goes(v, b, LeaveBlock, z)
  BY <1>2, <1>4 DEF Goes
<1> QED
  BY <1>5, LeadsOne DEF z

\* The block itself: any chunks, or none.
LEMMA BlockGoes ==
  ASSUME NEW v, NEW block \in Seq(Hir), block = <<>> \/ ~Mute(block),
         NEW y \in Height, y.pop = "any"
  PROVE  \E k \in {0, 1} : Leads(v, <<Block(block)>>, Up(y, 0), Up(y, k))
<1> DEFINE s == Block(block)
<1>0. Up(y, 0) = y /\ Room(y, 0) /\ Room(y, 1) /\ 0 \in Int /\ 1 \in Int
  BY NoRise, RestParts
<1>1. CASE block = <<>>
  <2>1. Counts(v, y, s, y)
    <3>1. y.len \in Nat /\ y.len = y.len + 0
      BY HeightParts
    <3>2. Gain(v, s) = 0 /\ Counting(s) /\ Flag(y, s) = "any"
      BY <1>1 DEF Gain, Counting, Flag, Block, Leaves
    <3> QED
      BY <3>1, <3>2 DEF Counts
  <2>2. Goes(v, y, s, y)
    BY <2>1 DEF Goes
  <2> QED
    BY <1>0, <2>2, LeadsOne
<1>2. CASE block # <<>> /\ Leaves(block)
  <2>1. Does(v, s, 1)
    BY <1>2 DEF Does, Gain, Counting, Block
  <2> HIDE DEF s
  <2>2. Takes(v, s, 0, 1)
    BY <2>1 DEF Takes
  <2>3. Leads(v, <<s>>, Up(y, 0), Up(y, 1))
    BY <1>0, <2>2, Moves
  <2> QED
    BY <2>3 DEF s
<1>3. CASE block # <<>> /\ ~Leaves(block)
  <2>1. Does(v, s, 0)
    BY <1>3 DEF Does, Gain, Counting, Block
  <2> HIDE DEF s
  <2>2. Takes(v, s, 0, 0)
    BY <2>1 DEF Takes
  <2>3. Leads(v, <<s>>, Up(y, 0), Up(y, 0))
    BY <1>0, <2>2, Moves
  <2> QED
    BY <2>3 DEF s
<1> QED
  BY <1>1, <1>2, <1>3

\* A block of its own leaves the count around it as it was (emit_block).
LEMMA NestedLeads ==
  ASSUME NEW v, NEW start, NEW block \in Seq(Hir), block = <<>> \/ ~Mute(block),
         NEW a \in Height,
         \A y \in Height : y.pop = "any" => Leads(v, start, Up(y, 0), Up(y, 0))
  PROVE  Leads(v, Nested(start, block), a, Up(a, 0))
<1> DEFINE y == Entered(a, "any")
<1>1. y \in Height /\ y.len = 0 /\ y.pop = "any" /\ y.frames = a.frames
  BY EnteredParts
<1>2. Leads(v, <<EnterBlock>>, a, y)
  BY EnterLeads
<1>3. y = Up(y, 0)
  BY <1>1, NoRise
<1>4. Leads(v, start, y, Up(y, 0))
  BY <1>1, <1>3
<1>5. PICK k \in {0, 1} : Leads(v, <<Block(block)>>, Up(y, 0), Up(y, k))
  BY <1>1, BlockGoes
<1>6. Leads(v, <<LeaveBlock>>, Up(y, k), Up(a, 0))
  <2> DEFINE b == Up(y, k)
  <2>1. b \in Height /\ b.len <= 1 /\ b.frames = a.frames /\ b.outer = y.outer
    BY <1>1, RestParts
  <2> HIDE DEF b
  <2>2. Leads(v, <<LeaveBlock>>, b, Up(a, 0))
    BY <2>1, LeaveLeads
  <2> QED
    BY <2>2 DEF b
<1> HIDE DEF y
<1>7. Leads(v, <<Block(block), LeaveBlock>>, Up(y, 0), Up(a, 0))
  BY <1>5, <1>6, LeadsPair
<1> QED
  BY <1>2, <1>4, <1>7, LeadsOn3 DEF Nested

\* The names a class body begins with are stored as they are loaded.
LEMMA HeaderStays ==
  ASSUME NEW v, NEW y \in Height
  PROVE  Leads(v, ClassHeader, Up(y, 0), Up(y, 0))
<1> DEFINE c == Const("obj")
<1>1. Does(v, c, 1) /\ Does(v, Store, 0 - 1)
  BY DoesWriting
<1> HIDE DEF c
<1>2. Takes(v, c, 0, 1) /\ Takes(v, Store, 1, 0)
  BY <1>1 DEF Takes
<1>3. Room(y, 0) /\ Room(y, 1) /\ 0 \in Int /\ 1 \in Int
  BY RestParts
<1>4. Leads(v, <<c, Store, c, Store>>, Up(y, 0), Up(y, 0))
  BY <1>2, <1>3, FourMoves
<1> QED
  BY <1>4 DEF ClassHeader, c

\* What a block begins with counts nothing.
LEMMA StartStays ==
  ASSUME NEW v, NEW cells \in Nat, NEW y \in Height
  PROVE  Leads(v, BlockStart(v, cells), Up(y, 0), Up(y, 0))
<1> DEFINE s == Put("COPY_FREE_VARS", 0)
           t == Put("RESUME", 0)
           c == Put("MAKE_CELL", 0)
<1>1. Does(v, s, 0) /\ Does(v, t, 0) /\ Does(v, c, 0)
  BY DoesWriting
<1>2. Room(y, 0) /\ 0 \in Int /\ Up(y, 0) \in Height
  BY RestParts
<1> HIDE DEF s, t, c
<1>3. Takes(v, s, 0, 0) /\ Takes(v, t, 0, 0)
  BY <1>1 DEF Takes
<1>4. Leads(v, <<s, t>>, Up(y, 0), Up(y, 0))
  BY <1>2, <1>3, TwoMoves
<1>5. Leads(v, Repeat(cells, c), Up(y, 0), Up(y, 0))
  BY <1>1, <1>2, RepeatStays
<1>6. Leads(v, <<s, t>> \o Repeat(cells, c), Up(y, 0), Up(y, 0))
  BY <1>4, <1>5, LeadsOn
<1>7. Leads(v, <<>>, Up(y, 0), Up(y, 0))
  BY <1>2, LeadsNowhere
<1> QED
  BY <1>6, <1>7 DEF BlockStart, When, s, t, c

\* The variables of patterns are defined without a trace on the count.
LEMMA GuardsStay ==
  ASSUME NEW v, NEW e, AreDefinitions(Hir, e.guards), NEW y \in Height,
         NEW k \in Nat
  PROVE  Leads(v, GuardDefinitions(e), Up(y, k), Up(y, k))
<1> DEFINE n == Len(e.guards)
           steps == GuardDefinitions(e)
           T == {Chunk(e.guards[i]) : i \in 1 .. n}
<1>1. n \in Nat /\ \A i \in 1 .. n : e.guards[i] \in Hir /\ ~IsValue(Hir, e.guards[i])
  BY DEF AreDefinitions
<1>2. steps \in Seq(T) /\ Len(steps) = n /\ \A i \in 1 .. n : steps[i] = Chunk(e.guards[i])
  BY <1>1 DEF GuardDefinitions
<1>3. Room(y, k) /\ k \in Int
  BY RoomAbove
<1> HIDE DEF steps, n, T
<1>4. \A i \in 1 .. Len(steps) : Does(v, steps[i], 0)
  BY <1>1, <1>2, DoesCalling
<1>5. Leads(v, steps, Up(y, k), Up(y, k))
  BY <1>2, <1>3, <1>4, Stays
<1> QED
  BY <1>5 DEF steps

\* The block of a function or a lambda leaves the count as it was.
LEMMA FunctionBlockLeads ==
  ASSUME NEW v, NEW e, FormedFunction(Hir, e), ~Mute(e.body), NEW a \in Height
  PROVE  Leads(v, Nested(FunctionStart(v, e), e.body), a, Up(a, 0))
<1> DEFINE start == FunctionStart(v, e)
<1>1. e.body \in Seq(Hir) /\ e.captured \in Nat
  BY DEF FormedFunction, IsBody
<1>2. ASSUME NEW y \in Height
      PROVE  Leads(v, start, Up(y, 0), Up(y, 0))
  <2>1. Leads(v, BlockStart(v, e.captured), Up(y, 0), Up(y, 0))
    BY <1>1, StartStays
  <2>2. Leads(v, GuardDefinitions(e), Up(y, 0), Up(y, 0))
    <3>1. 0 \in Nat
      OBVIOUS
    <3> QED
      BY <3>1, GuardsStay DEF FormedFunction
  <2> QED
    BY <2>1, <2>2, LeadsOn DEF FunctionStart
<1> HIDE DEF start
<1>3. Leads(v, Nested(start, e.body), a, Up(a, 0))
  BY <1>1, <1>2, NestedLeads
<1> QED
  BY <1>3 DEF start

\* A height that is not told the last unit does not change by rising by 0.
LEMMA UpAgain ==
  ASSUME NEW a \in Height, NEW k \in Int, Room(a, k)
  PROVE  Up(a, k) \in Height /\ Up(Up(a, k), 0) = Up(a, k)
<1> DEFINE x == Up(a, k)
<1>1. x \in Height /\ x.pop = "any"
  BY UpParts
<1> HIDE DEF x
<1>2. Up(x, 0) = x
  BY <1>1, NoRise
<1> QED
  BY <1>1, <1>2 DEF x

-----------------------------------------------------------------------------
(* The handlers of expressions.                                            *)

\* A step takes one from a height to that plus what it adds.
LEMMA TakesBy ==
  ASSUME NEW v, NEW s, NEW d \in Int, Does(v, s, d), NEW k \in Int, NEW m \in Int, m = k + d
  PROVE  Takes(v, s, k, m)
<1>1. d = m - k
  OBVIOUS
<1> QED
  BY <1>1 DEF Takes

\* Every height above another is one.
LEMMA RoomsAbove ==
  ASSUME NEW a \in Height
  PROVE  \A k \in Nat : Room(a, k) /\ k \in Int /\ Up(a, k) \in Height
<1>1. \A k \in Nat : Room(a, k) /\ k \in Int
  BY RoomAbove
<1>2. \A k \in Nat : Up(a, k) \in Height
  BY <1>1, UpParts
<1> QED
  BY <1>1, <1>2

\* PUSH_NULL, before 3.11 nothing, and the name of a function or a type.
LEMMA NullNameLeads ==
  ASSUME NEW v, NEW a \in Height
  PROVE  Leads(v, <<PushNull, Name>>, Up(a, 0), Up(a, Null(v) + 1)) /\ Null(v) \in {0, 1}
<1> DEFINE n == Null(v)
           s == PushNull
<1>1. n \in {0, 1} /\ Does(v, s, n) /\ Does(v, Name, 1)
  BY DoesNull, DoesWriting
<1>2. Room(a, 0) /\ Room(a, n) /\ Room(a, n + 1) /\ n \in Int /\ n + 1 \in Int
  BY <1>1, RoomsAbove
<1> HIDE DEF n, s
<1>3. Takes(v, s, 0, n) /\ Takes(v, Name, n, n + 1)
  BY <1>1, <1>2, TakesBy
<1>4. Leads(v, <<s, Name>>, Up(a, 0), Up(a, n + 1))
  BY <1>2, <1>3, TwoMoves
<1> QED
  BY <1>1, <1>4 DEF n, s

\* A call, before 3.11 not counted, and its arguments popped.
LEMMA CallDecLeads ==
  ASSUME NEW v, NEW a \in Height, NEW n, NEW op, NEW k \in Nat, NEW m \in Nat
  PROVE  Leads(v, <<CallInstr(n, op), Dec(k)>>, Up(a, (Null(v) + m) + k), Up(a, m))
<1> DEFINE z == Null(v)
           s == CallInstr(n, op)
           t == Dec(k)
           l == (z + m) + k
           o == m + k
<1>1. z \in {0, 1} /\ Does(v, s, 0 - z) /\ Does(v, t, 0 - k)
  BY DoesNull, DoesWriting
<1>2. l \in Nat /\ o \in Nat /\ o = l + (0 - z) /\ m = o + (0 - k)
      /\ 0 - z \in Int /\ 0 - k \in Int
  BY <1>1
<1> HIDE DEF z, s, t, l, o
<1>3. Room(a, l) /\ Room(a, o) /\ Room(a, m) /\ m \in Int /\ l \in Int /\ o \in Int
  BY <1>2, RoomsAbove
<1>4. Takes(v, s, l, o) /\ Takes(v, t, o, m)
  BY <1>1, <1>2, <1>3, TakesBy
<1>5. Leads(v, <<s, t>>, Up(a, l), Up(a, m))
  BY <1>3, <1>4, TwoMoves
<1> QED
  BY <1>5 DEF z, s, t, l

\* A value adds one.
LEMMA ExprLeads ==
  ASSUME NEW v, NEW a \in Height, NEW e, IsValue(Hir, e), NEW k \in Nat
  PROVE  Leads(v, <<Expr(e)>>, Up(a, k), Up(a, k + 1))
<1> DEFINE s == Expr(e)
<1>1. Does(v, s, 1)
  BY DoesCalling
<1>2. Room(a, k) /\ Room(a, k + 1) /\ k \in Int /\ k + 1 \in Int
  BY RoomsAbove
<1> HIDE DEF s
<1>3. Takes(v, s, k, k + 1)
  BY <1>1, <1>2, TakesBy
<1>4. Leads(v, <<s>>, Up(a, k), Up(a, k + 1))
  BY <1>2, <1>3, Moves
<1> QED
  BY <1>4 DEF s

\* A step that leaves the count.
LEMMA StayLeads ==
  ASSUME NEW v, NEW a \in Height, NEW s, Does(v, s, 0), NEW k \in Nat
  PROVE  Leads(v, <<s>>, Up(a, k), Up(a, k))
<1>1. Room(a, k) /\ k \in Int
  BY RoomsAbove
<1>2. k - k = 0
  OBVIOUS
<1>3. Takes(v, s, k, k)
  BY <1>2 DEF Takes
<1> QED
  BY <1>1, <1>3, Moves

\* stack_dec_n from where n are counted.
LEMMA DecLeads ==
  ASSUME NEW v, NEW a \in Height, NEW k \in Nat, NEW n \in Nat
  PROVE  Leads(v, <<Dec(n)>>, Up(a, k + n), Up(a, k))
<1> DEFINE s == Dec(n)
           l == k + n
<1>1. Does(v, s, 0 - n)
  BY DoesWriting
<1>2. l \in Nat /\ k = l + (0 - n) /\ 0 - n \in Int /\ l \in Int /\ k \in Int
  BY RoomsAbove
<1> HIDE DEF s, l
<1>3. Room(a, l) /\ Room(a, k)
  BY <1>2, RoomsAbove
<1>4. Takes(v, s, l, k)
  BY <1>1, <1>2, TakesBy
<1>5. Leads(v, <<s>>, Up(a, l), Up(a, k))
  BY <1>2, <1>3, <1>4, Moves
<1> QED
  BY <1>5 DEF s, l

\* A value, an operation on it.
LEMMA UnaryLeads ==
  ASSUME NEW v, NEW a \in Height, NEW e, IsValue(Hir, e), NEW op, NEW arg, op # "POP_TOP"
  PROVE  Leads(v, <<Expr(e), Put(op, arg)>>, Up(a, 0), Up(a, 1))
<1>1. Does(v, Put(op, arg), 0)
  BY DoesWriting
<1>2. Leads(v, <<Expr(e)>>, Up(a, 0), Up(a, 1))
  <2>1. 0 + 1 = 1 /\ 0 \in Nat
    OBVIOUS
  <2> QED
    BY <2>1, ExprLeads
<1>3. Leads(v, <<Put(op, arg)>>, Up(a, 1), Up(a, 1))
  BY <1>1, StayLeads
<1> QED
  BY <1>2, <1>3, LeadsPair

\* Two values, an operation on them.
LEMMA BinaryLeads ==
  ASSUME NEW v, NEW a \in Height, NEW l, NEW r, IsValue(Hir, l), IsValue(Hir, r),
         NEW op, op # "POP_TOP"
  PROVE  Leads(v, <<Expr(l), Expr(r), Put(op, 0), Dec(1)>>, Up(a, 0), Up(a, 1))
<1> DEFINE s == Expr(l)
           t == Expr(r)
           u == Put(op, 0)
           w == Dec(1)
<1>1. Does(v, s, 1) /\ Does(v, t, 1) /\ Does(v, u, 0) /\ Does(v, w, 0 - 1)
  BY DoesCalling, DoesWriting
<1>2. Room(a, 0) /\ Room(a, 1) /\ Room(a, 2)
  BY RoomsAbove
<1> HIDE DEF s, t, u, w
<1>3. Takes(v, s, 0, 1) /\ Takes(v, t, 1, 2) /\ Takes(v, u, 2, 2) /\ Takes(v, w, 2, 1)
  BY <1>1 DEF Takes
<1>4. Leads(v, <<s, t, u, w>>, Up(a, 0), Up(a, 1))
  BY <1>2, <1>3, FourMoves
<1> QED
  BY <1>4 DEF s, t, u, w

\* `and' and `or'
LEMMA ShortCircuitLeads ==
  ASSUME NEW v, NEW a \in Height, NEW e, IsValue(Hir, e.lhs), IsValue(Hir, e.rhs)
  PROVE  Leads(v, ShortCircuitSteps(e), Up(a, 0), Up(a, 1))
<1> DEFINE s == Expr(e.lhs)
           j == Jump("JUMP_IF_OR_POP")
           t == Expr(e.rhs)
           f == FillTest(1, 4)
           w == Dec(1)
<1>1. Does(v, s, 1) /\ Does(v, j, 0) /\ Does(v, t, 1) /\ Does(v, f, 0) /\ Does(v, w, 0 - 1)
  BY DoesCalling, DoesWriting, DoesJumping
<1>2. Room(a, 0) /\ Room(a, 1) /\ Room(a, 2)
  BY RoomsAbove
<1>3. ShortCircuitSteps(e) = <<s, j>> \o <<t, f, w>>
  BY DEF ShortCircuitSteps
<1> HIDE DEF s, j, t, f, w
<1>4. /\ Takes(v, s, 0, 1) /\ Takes(v, j, 1, 1) /\ Takes(v, t, 1, 2) /\ Takes(v, f, 2, 2)
      /\ Takes(v, w, 2, 1)
  BY <1>1 DEF Takes
<1>5. Leads(v, <<s, j>>, Up(a, 0), Up(a, 1))
  BY <1>2, <1>4, TwoMoves
<1>6. Leads(v, <<t, f, w>>, Up(a, 1), Up(a, 1))
  BY <1>2, <1>4, ThreeMoves
<1> QED
  BY <1>3, <1>5, <1>6, LeadsOn

\* mutate and contains: a function with one value or two.
LEMMA MutateLeads ==
  ASSUME NEW v, NEW a \in Height, NEW e, IsValue(Hir, e)
  PROVE  Leads(v, <<PushNull, Name, Expr(e), CallInstr(1, "CALL_FUNCTION"), Dec(1)>>,
               Up(a, 0), Up(a, 1))
<1> DEFINE q == <<PushNull, Name>>
           s == Expr(e)
           c == CallInstr(1, "CALL_FUNCTION")
           d == Dec(1)
           n == Null(v) + 1
<1>1. Leads(v, q, Up(a, 0), Up(a, n)) /\ n \in Nat
  BY NullNameLeads
<1>2. Leads(v, <<s>>, Up(a, n), Up(a, n + 1))
  <2> HIDE DEF n, s
  <2> QED
    BY <1>1, ExprLeads DEF s
<1>3. Leads(v, <<c, d>>, Up(a, n + 1), Up(a, 1))
  BY CallDecLeads
<1>4. <<PushNull, Name, s, c, d>> = (q \o <<s>>) \o <<c, d>>
  <2>1. <<PushNull, Name, s>> = q \o <<s>>
    <3> HIDE DEF s
    <3> QED
      OBVIOUS
  <2> HIDE DEF s, c, d, q
  <2>2. <<PushNull, Name, s, c, d>> = <<PushNull, Name, s>> \o <<c, d>>
    OBVIOUS
  <2> QED
    BY <2>1, <2>2
<1> HIDE DEF q, s, c, d, n
<1>5. Leads(v, (q \o <<s>>) \o <<c, d>>, Up(a, 0), Up(a, 1))
  BY <1>1, <1>2, <1>3, LeadsOn3
<1> QED
  BY <1>4, <1>5 DEF s, c, d

\* A constant adds one.
LEMMA ConstLeads ==
  ASSUME NEW v, NEW a \in Height, NEW kind, NEW k \in Nat
  PROVE  Leads(v, <<Const(kind)>>, Up(a, k), Up(a, k + 1))
<1> DEFINE s == Const(kind)
<1>1. Does(v, s, 1)
  BY DoesWriting
<1>2. Room(a, k) /\ Room(a, k + 1) /\ k \in Int /\ k + 1 \in Int
  BY RoomsAbove
<1> HIDE DEF s
<1>3. Takes(v, s, k, k + 1)
  BY <1>1, <1>2, TakesBy
<1>4. Leads(v, <<s>>, Up(a, k), Up(a, k + 1))
  BY <1>2, <1>3, Moves
<1> QED
  BY <1>4 DEF s

\* stack_inc adds one.
LEMMA IncLeads ==
  ASSUME NEW v, NEW a \in Height, NEW k \in Nat
  PROVE  Leads(v, <<Inc(1)>>, Up(a, k), Up(a, k + 1))
<1> DEFINE s == Inc(1)
<1>1. Does(v, s, 1)
  BY DoesWriting
<1>2. Room(a, k) /\ Room(a, k + 1) /\ k \in Int /\ k + 1 \in Int
  BY RoomsAbove
<1> HIDE DEF s
<1>3. Takes(v, s, k, k + 1)
  BY <1>1, <1>2, TakesBy
<1>4. Leads(v, <<s>>, Up(a, k), Up(a, k + 1))
  BY <1>2, <1>3, Moves
<1> QED
  BY <1>4 DEF s

\* A call that pops nothing else.
LEMMA CallLeads ==
  ASSUME NEW v, NEW a \in Height, NEW n, NEW op, NEW m \in Nat
  PROVE  Leads(v, <<CallInstr(n, op)>>, Up(a, Null(v) + m), Up(a, m))
<1> DEFINE z == Null(v)
           s == CallInstr(n, op)
           l == z + m
<1>1. z \in {0, 1} /\ Does(v, s, 0 - z)
  BY DoesNull
<1>2. l \in Nat /\ m = l + (0 - z) /\ 0 - z \in Int
  BY <1>1
<1> HIDE DEF z, s, l
<1>3. Room(a, l) /\ Room(a, m) /\ m \in Int /\ l \in Int
  BY <1>2, RoomsAbove
<1>4. Takes(v, s, l, m)
  BY <1>1, <1>2, <1>3, TakesBy
<1>5. Leads(v, <<s>>, Up(a, l), Up(a, m))
  BY <1>3, <1>4, Moves
<1> QED
  BY <1>5 DEF z, s, l

\* Values add their number.
LEMMA ExprsLead ==
  ASSUME NEW v, NEW a \in Height, NEW es, AreValues(Hir, es), NEW k \in Nat
  PROVE  Leads(v, Exprs(es), Up(a, k), Up(a, k + Len(es))) /\ Len(es) \in Nat
<1>1. Room(a, k) /\ k \in Int
  BY RoomsAbove
<1> QED
  BY <1>1, ExprsRise

\* A collection is made of the values on the stack.
LEMMA GatherLeads ==
  ASSUME NEW v, NEW a \in Height, NEW op, op # "POP_TOP", NEW n, NEW es, AreValues(Hir, es),
         NEW k \in Nat
  PROVE  Leads(v, Gather(op, n, es), Up(a, k), Up(a, k + 1))
<1> DEFINE l == Len(es)
           s == Put(op, n)
           t == IF es = <<>> THEN Inc(1) ELSE Dec(l - 1)
<1>1. Leads(v, Exprs(es), Up(a, k), Up(a, k + l)) /\ l \in Nat
  BY ExprsLead
<1>2. Leads(v, <<s>>, Up(a, k + l), Up(a, k + l))
  <2> DEFINE m == k + l
  <2>1. Does(v, s, 0)
    BY DoesWriting
  <2>2. m \in Nat
    BY <1>1
  <2> HIDE DEF m, s
  <2> QED
    BY <2>1, <2>2, StayLeads DEF m
<1>3. Leads(v, <<t>>, Up(a, k + l), Up(a, k + 1))
  <2>1. CASE es = <<>>
    <3>1. l = 0 /\ k + l = k
      BY <2>1
    <3>2. Leads(v, <<Inc(1)>>, Up(a, k), Up(a, k + 1))
      BY IncLeads
    <3> HIDE DEF l
    <3> QED
      BY <2>1, <3>1, <3>2
  <2>2. CASE es # <<>>
    <3> DEFINE m == l - 1
               j == k + 1
    <3>1. m \in Nat /\ j \in Nat /\ j + m = k + l
      <4>1. l # 0
        BY <2>2 DEF AreValues
      <4> HIDE DEF l
      <4> QED
        BY <1>1, <4>1
    <3> HIDE DEF m, j
    <3>2. Leads(v, <<Dec(m)>>, Up(a, j + m), Up(a, j))
      BY <3>1, DecLeads
    <3> QED
      BY <2>2, <3>1, <3>2 DEF m, j
  <2> QED
    BY <2>1, <2>2
<1>4. Gather(op, n, es) = Exprs(es) \o <<s, t>>
  BY DEF Gather
<1> HIDE DEF s, t, l
<1>5. Leads(v, <<s, t>>, Up(a, k + l), Up(a, k + 1))
  BY <1>2, <1>3, LeadsPair
<1> QED
  BY <1>1, <1>4, <1>5, LeadsOn

\* The value is passed to a constructor.
LEMMA ConstructedLeads ==
  ASSUME NEW v, NEW a \in Height, NEW steps,
         Leads(v, steps, Up(a, Null(v) + 1), Up(a, (Null(v) + 1) + 1))
  PROVE  Leads(v, Constructed(steps), Up(a, 0), Up(a, 1))
<1> DEFINE c == <<CallInstr(1, "CALL_FUNCTION"), Dec(1)>>
<1>1. Leads(v, <<PushNull, Name>>, Up(a, 0), Up(a, Null(v) + 1))
  BY NullNameLeads
<1>2. Leads(v, c, Up(a, (Null(v) + 1) + 1), Up(a, 1))
  BY CallDecLeads
<1>3. Constructed(steps) = (<<PushNull, Name>> \o steps) \o c
  BY DEF Constructed
<1> HIDE DEF c
<1> QED
  BY <1>1, <1>2, <1>3, LeadsOn3

\* [elem; length] (emit_list).
LEMMA ListWithLengthLeads ==
  ASSUME NEW v, NEW a \in Height, NEW e, IsValue(Hir, e.elem), IsValue(Hir, e.length)
  PROVE  Leads(v, ListWithLengthSteps(e), Up(a, 0), Up(a, 1))
<1> DEFINE n == Null(v) + 1
           q == <<Expr(e.elem), Put("BUILD_LIST", 1)>>
           s == Expr(e.length)
           t == Put("BINARY_OP", 0)
           u == Dec(1)
<1>1. n \in Nat
  BY DoesNull
<1>2. Leads(v, q, Up(a, n), Up(a, n + 1))
  <2> DEFINE x == Expr(e.elem)
             y == Put("BUILD_LIST", 1)
  <2> HIDE DEF n
  <2>1. Leads(v, <<x>>, Up(a, n), Up(a, n + 1))
    BY <1>1, ExprLeads
  <2>2. Does(v, y, 0) /\ n + 1 \in Nat
    BY <1>1, DoesWriting
  <2>3. Leads(v, <<y>>, Up(a, n + 1), Up(a, n + 1))
    <3> HIDE DEF y
    <3> QED
      BY <2>2, StayLeads
  <2> QED
    BY <2>1, <2>3, LeadsPair
<1>3. Leads(v, Constructed(q), Up(a, 0), Up(a, 1))
  BY <1>2, ConstructedLeads
<1>4. Does(v, s, 1) /\ Does(v, t, 0) /\ Does(v, u, 0 - 1)
  BY DoesCalling, DoesWriting
<1>5. Room(a, 1) /\ Room(a, 2)
  BY RoomsAbove
<1>6. ListWithLengthSteps(e) = Constructed(q) \o <<s, t, u>>
  BY DEF ListWithLengthSteps
<1> HIDE DEF q, s, t, u
<1>7. Takes(v, s, 1, 2) /\ Takes(v, t, 2, 2) /\ Takes(v, u, 2, 1)
  BY <1>4 DEF Takes
<1>8. Leads(v, <<s, t, u>>, Up(a, 1), Up(a, 1))
  BY <1>5, <1>7, ThreeMoves
<1> QED
  BY <1>3, <1>6, <1>8, LeadsOn

\* contains: a function of two values.
LEMMA ContainsLeads ==
  ASSUME NEW v, NEW a \in Height, NEW l, NEW r, IsValue(Hir, l), IsValue(Hir, r)
  PROVE  Leads(v, <<PushNull, Name, Expr(l), Expr(r), CallInstr(2, "CALL_FUNCTION"), Dec(1),
                    Dec(1)>>, Up(a, 0), Up(a, 1))
<1> DEFINE q == <<PushNull, Name>>
           s == Expr(l)
           t == Expr(r)
           c == CallInstr(2, "CALL_FUNCTION")
           d == Dec(1)
           n == Null(v) + 1
<1>1. Leads(v, q, Up(a, 0), Up(a, n)) /\ n \in Nat
  BY NullNameLeads
<1>2. Leads(v, <<s, t>>, Up(a, n), Up(a, (n + 1) + 1))
  <2> HIDE DEF n
  <2>1. Leads(v, <<s>>, Up(a, n), Up(a, n + 1))
    BY <1>1, ExprLeads
  <2>2. n + 1 \in Nat
    BY <1>1
  <2> DEFINE m == n + 1
  <2> HIDE DEF m
  <2>3. Leads(v, <<t>>, Up(a, m), Up(a, m + 1))
    BY <2>2, ExprLeads DEF m
  <2> QED
    BY <2>1, <2>3, LeadsPair DEF m
<1>3. Leads(v, <<c, d>>, Up(a, (n + 1) + 1), Up(a, 2))
  <2>1. Leads(v, <<c, d>>, Up(a, (Null(v) + 2) + 1), Up(a, 2))
    BY CallDecLeads
  <2>2. (Null(v) + 2) + 1 = (n + 1) + 1
    BY DoesNull
  <2> QED
    BY <2>1, <2>2
<1>4. Leads(v, <<d>>, Up(a, 2), Up(a, 1))
  <2>1. Leads(v, <<d>>, Up(a, 1 + 1), Up(a, 1))
    BY DecLeads
  <2> QED
    BY <2>1
<1>5. <<PushNull, Name, s, t, c, d, d>> = ((q \o <<s, t>>) \o <<c, d>>) \o <<d>>
  <2> HIDE DEF s, t, c, d
  <2>1. <<PushNull, Name, s, t>> = q \o <<s, t>>
    OBVIOUS
  <2>2. <<PushNull, Name, s, t, c, d>> = <<PushNull, Name, s, t>> \o <<c, d>>
    OBVIOUS
  <2>3. <<PushNull, Name, s, t, c, d, d>> = <<PushNull, Name, s, t, c, d>> \o <<d>>
    OBVIOUS
  <2> QED
    BY <2>1, <2>2, <2>3
<1> HIDE DEF q, s, t, c, d, n
<1>6. Leads(v, ((q \o <<s, t>>) \o <<c, d>>) \o <<d>>, Up(a, 0), Up(a, 1))
  BY <1>1, <1>2, <1>3, <1>4, LeadsOn4
<1> QED
  BY <1>5, <1>6 DEF s, t, c, d

\* emit_record: the type is made first, then the instance.
LEMMA RecordLeads ==
  ASSUME NEW v, NEW a \in Height, NEW attrs, Len(attrs) \in Nat,
         \A i \in 1 .. Len(attrs) : IsBody(Hir, attrs[i]) /\ Leaves(attrs[i])
  PROVE  Leads(v, RecordSteps(attrs), Up(a, 0), Up(a, 1))
<1> DEFINE n == Len(attrs)
           z == Null(v)
           q == <<PushNull, Name, Const("obj")>>
           names == [i \in 1 .. n |-> Const("obj")]
           l == Put("BUILD_LIST", n)
           g == IF n = 0 THEN Inc(1) ELSE Dec(n - 1)
           c == CallInstr(2, "CALL_FUNCTION")
           r == <<l, g, c, Dec(2), Store, PushNull, Name>>
           values == [i \in 1 .. n |-> Block(attrs[i])]
           d == <<CallInstr(n, "CALL_FUNCTION"), Dec(n)>>
<1>0. n \in Nat /\ z \in {0, 1} /\ z + 2 \in Nat /\ z + 1 \in Nat
  BY DoesNull
<1>1. Leads(v, q, Up(a, 0), Up(a, z + 2))
  <2> DEFINE s == <<PushNull, Name>>
             t == Const("obj")
             m == z + 1
  <2>1. Leads(v, s, Up(a, 0), Up(a, m))
    BY NullNameLeads
  <2>2. m \in Nat /\ m + 1 = z + 2
    BY <1>0
  <2> HIDE DEF m
  <2>3. Leads(v, <<t>>, Up(a, m), Up(a, m + 1))
    BY <2>2, ConstLeads
  <2>4. q = s \o <<t>>
    <3> HIDE DEF t
    <3>1. <<PushNull, Name, t>> = s \o <<t>>
      OBVIOUS
    <3> QED
      BY <3>1 DEF t
  <2> HIDE DEF s, t, q, z
  <2> QED
    BY <2>1, <2>2, <2>3, <2>4, LeadsOn
<1>2. Leads(v, names, Up(a, z + 2), Up(a, (z + 2) + n))
  <2> DEFINE t == Const("obj")
             m == z + 2
  <2>1. Does(v, t, 1)
    BY DoesWriting
  <2>2. names \in Seq({t}) /\ Len(names) = n /\ \A i \in 1 .. n : names[i] = t
    BY <1>0
  <2>3. Room(a, m) /\ m \in Int
    BY <1>0, RoomsAbove
  <2> HIDE DEF t, m, names, n
  <2>4. \A i \in 1 .. Len(names) : Does(v, names[i], 1)
    BY <2>1, <2>2
  <2>5. Leads(v, names, Up(a, m), Up(a, m + Len(names)))
    BY <2>2, <2>3, <2>4, Rises
  <2> QED
    BY <2>2, <2>5 DEF m
<1>3. Leads(v, <<l, g>>, Up(a, (z + 2) + n), Up(a, z + 3))
  <2> DEFINE m == (z + 2) + n
             o == z + 2
  <2>1. Does(v, l, 0)
    BY DoesWriting
  <2>2. m \in Nat /\ o \in Nat /\ o + 1 = z + 3 /\ (n = 0 => m = o)
        /\ (n # 0 => n - 1 \in Nat /\ (o + 1) + (n - 1) = m /\ o + 1 \in Nat)
    BY <1>0
  <2>3. Leads(v, <<l>>, Up(a, m), Up(a, m))
    <3> HIDE DEF l, m
    <3> QED
      BY <2>1, <2>2, StayLeads
  <2>4. Leads(v, <<g>>, Up(a, m), Up(a, o + 1))
    <3>1. CASE n = 0
      <4>1. Leads(v, <<Inc(1)>>, Up(a, o), Up(a, o + 1))
        <5> HIDE DEF o
        <5> QED
          BY <2>2, IncLeads
      <4>2. g = Inc(1) /\ m = o
        BY <2>2, <3>1
      <4> HIDE DEF g, m, o
      <4> QED
        BY <4>1, <4>2
    <3>2. CASE n # 0
      <4> DEFINE j == n - 1
                 i == o + 1
      <4>1. j \in Nat /\ i \in Nat /\ i + j = m /\ g = Dec(j)
        BY <2>2, <3>2
      <4> HIDE DEF i, j, m, g
      <4>2. Leads(v, <<Dec(j)>>, Up(a, i + j), Up(a, i))
        BY <4>1, DecLeads
      <4> QED
        BY <4>1, <4>2 DEF i
    <3> QED
      BY <3>1, <3>2
  <2> HIDE DEF l, g, m, o
  <2>5. Leads(v, <<l, g>>, Up(a, m), Up(a, o + 1))
    BY <2>3, <2>4, LeadsPair
  <2> QED
    BY <2>2, <2>5 DEF m, o
<1>4. Leads(v, <<c, Dec(2)>>, Up(a, z + 3), Up(a, 1))
  <2>1. Leads(v, <<c, Dec(2)>>, Up(a, (z + 1) + 2), Up(a, 1))
    BY CallDecLeads
  <2>2. (z + 1) + 2 = z + 3
    BY <1>0
  <2> QED
    BY <2>1, <2>2
<1>5. Leads(v, <<Store>>, Up(a, 1), Up(a, 0))
  <2>1. Takes(v, Store, 1, 0)
    BY DoesWriting DEF Takes
  <2> QED
    BY <2>1, RoomsAbove, Moves
<1>6. Leads(v, <<PushNull, Name>>, Up(a, 0), Up(a, z + 1))
  BY NullNameLeads
<1>7. Leads(v, values, Up(a, z + 1), Up(a, (z + 1) + n))
  <2> DEFINE m == z + 1
             S == {Block(attrs[i]) : i \in 1 .. n}
  <2>1. \A i \in 1 .. n : Does(v, Block(attrs[i]), 1)
    BY DoesCalling
  <2>2. values \in Seq(S) /\ Len(values) = n /\ \A i \in 1 .. n : values[i] = Block(attrs[i])
    BY <1>0
  <2>3. Room(a, m) /\ m \in Int
    BY <1>0, RoomsAbove
  <2> HIDE DEF S, m, values, n
  <2>4. \A i \in 1 .. Len(values) : Does(v, values[i], 1)
    BY <2>1, <2>2
  <2>5. Leads(v, values, Up(a, m), Up(a, m + Len(values)))
    BY <2>2, <2>3, <2>4, Rises
  <2> QED
    BY <2>2, <2>5 DEF m
<1>8. Leads(v, d, Up(a, (z + 1) + n), Up(a, 1))
  <2> HIDE DEF n
  <2> QED
    BY <1>0, CallDecLeads
<1>9. r = ((<<l, g>> \o <<c, Dec(2)>>) \o <<Store>>) \o <<PushNull, Name>>
  <2> DEFINE t == Dec(2)
  <2> HIDE DEF l, g, c, t
  <2>1. <<l, g, c, t>> = <<l, g>> \o <<c, t>>
    OBVIOUS
  <2>2. <<l, g, c, t, Store>> = <<l, g, c, t>> \o <<Store>>
    OBVIOUS
  <2>3. <<l, g, c, t, Store, PushNull, Name>> = <<l, g, c, t, Store>> \o <<PushNull, Name>>
    OBVIOUS
  <2> QED
    BY <2>1, <2>2, <2>3 DEF t
<1> HIDE DEF l, g, c
<1>10. Leads(v, r, Up(a, (z + 2) + n), Up(a, z + 1))
  BY <1>3, <1>4, <1>5, <1>6, <1>9, LeadsOn4, ZenonT(60)
<1>11. RecordSteps(attrs) = (((q \o names) \o r) \o values) \o d
  BY DEF RecordSteps, l, g, c
<1> HIDE DEF q, names, r, values, d, n, z
<1>12. Leads(v, ((q \o names) \o r) \o values, Up(a, 0), Up(a, (z + 1) + n))
  BY <1>1, <1>2, <1>7, <1>10, LeadsOn4
<1>13. Leads(v, (((q \o names) \o r) \o values) \o d, Up(a, 0), Up(a, 1))
  BY <1>8, <1>12, LeadsOn
<1> QED
  BY <1>11, <1>13

\* obj[index] (emit_index_args).
LEMMA IndexLeads ==
  ASSUME NEW v, NEW a \in Height, NEW e, IsValue(Hir, e.obj), AreValues(Hir, e.args.pos)
  PROVE  Leads(v, <<Expr(e.obj)>> \o IndexSteps(e.args), Up(a, 0), Up(a, 1))
<1> DEFINE n == Len(e.args.pos)
           es == Exprs(e.args.pos)
           m == 1 + n
           t == IF n > 1 THEN <<Put("BUILD_TUPLE", n)>> ELSE <<>>
           b == Put("BINARY_SUBSCR", 0)
           d == Dec(n)
<1>1. Leads(v, <<Expr(e.obj)>>, Up(a, 0), Up(a, 1))
  <2>1. Leads(v, <<Expr(e.obj)>>, Up(a, 0), Up(a, 0 + 1))
    BY ExprLeads
  <2> QED
    BY <2>1
<1>2. Leads(v, es, Up(a, 1), Up(a, m)) /\ n \in Nat
  BY ExprsLead
<1>3. m \in Nat
  BY <1>2
<1>4. Does(v, Put("BUILD_TUPLE", n), 0) /\ Does(v, b, 0)
  BY DoesWriting
<1>5. Leads(v, t, Up(a, m), Up(a, m)) /\ Leads(v, <<b>>, Up(a, m), Up(a, m))
  <2> DEFINE p == Put("BUILD_TUPLE", n)
  <2> HIDE DEF m, b, p
  <2>1. Leads(v, <<p>>, Up(a, m), Up(a, m)) /\ Leads(v, <<b>>, Up(a, m), Up(a, m))
    BY <1>3, <1>4, StayLeads DEF p
  <2>2. Leads(v, <<>>, Up(a, m), Up(a, m))
    BY <1>3, RoomsAbove, LeadsNowhere
  <2> QED
    BY <2>1, <2>2 DEF p
<1>6. Leads(v, <<d>>, Up(a, m), Up(a, 1))
  <2> HIDE DEF n
  <2> QED
    BY <1>2, DecLeads
<1>7. IndexSteps(e.args) = (es \o t) \o <<b, d>>
  BY DEF IndexSteps
<1> HIDE DEF n, m, es, t, b, d
<1>8. Leads(v, <<b, d>>, Up(a, m), Up(a, 1))
  BY <1>5, <1>6, LeadsPair
<1>9. Leads(v, (es \o t) \o <<b, d>>, Up(a, 1), Up(a, 1))
  BY <1>2, <1>5, <1>8, LeadsOn3
<1> QED
  BY <1>1, <1>7, <1>9, LeadsOn

-----------------------------------------------------------------------------
(* The arguments of a call: the function, and before 3.11 nothing below    *)
(* it, are on the stack.                                                   *)

\* What * spreads is made one tuple with the positional arguments.
LEMMA VarArgLeads ==
  ASSUME NEW v, NEW a \in Height, NEW n \in Nat, NEW arg, IsValue(Hir, arg), NEW k \in Nat
  PROVE  Leads(v, VarArgSteps(v, n, arg), Up(a, k), Up(a, k))
<1> DEFINE p == Put(IF v >= 9 THEN "BUILD_LIST" ELSE "BUILD_TUPLE", n)
           x == Put("LIST_EXTEND", 1)
           y == Put("LIST_TO_TUPLE", 0)
           w == Put("BUILD_TUPLE_UNPACK_WITH_CALL", 2)
           before == When(n # 0, <<p>>)
           after == When(n # 0, IF v >= 9 THEN <<x, y>> ELSE <<w>>)
           l == k + 1
<1>1. Does(v, p, 0) /\ Does(v, x, 0) /\ Does(v, y, 0) /\ Does(v, w, 0)
  BY DoesWriting
<1>2. k \in Nat /\ l \in Nat
  OBVIOUS
<1>3. VarArgSteps(v, n, arg) = ((before \o <<Expr(arg)>>) \o after) \o <<Dec(1)>>
  BY DEF VarArgSteps
<1>4. Leads(v, before, Up(a, k), Up(a, k))
  <2> HIDE DEF p
  <2>1. Leads(v, <<p>>, Up(a, k), Up(a, k))
    BY <1>1, StayLeads
  <2>2. Leads(v, <<>>, Up(a, k), Up(a, k))
    BY RoomsAbove, LeadsNowhere
  <2> QED
    BY <2>1, <2>2 DEF When
<1>5. Leads(v, <<Expr(arg)>>, Up(a, k), Up(a, l))
  BY ExprLeads
<1>6. Leads(v, after, Up(a, l), Up(a, l))
  <2> HIDE DEF l, x, y, w
  <2>1. /\ Leads(v, <<x>>, Up(a, l), Up(a, l)) /\ Leads(v, <<y>>, Up(a, l), Up(a, l))
        /\ Leads(v, <<w>>, Up(a, l), Up(a, l))
    BY <1>1, <1>2, StayLeads
  <2>2. Leads(v, <<x, y>>, Up(a, l), Up(a, l))
    BY <2>1, LeadsPair
  <2>3. Leads(v, <<>>, Up(a, l), Up(a, l))
    BY <1>2, RoomsAbove, LeadsNowhere
  <2> QED
    BY <2>1, <2>2, <2>3 DEF When
<1>7. Leads(v, <<Dec(1)>>, Up(a, l), Up(a, k))
  BY DecLeads
<1> HIDE DEF before, after, l
<1> QED
  BY <1>3, <1>4, <1>5, <1>6, <1>7, LeadsOn4

\* What ** spreads adds one to what was counted.
LEMMA KwVarArgLeads ==
  ASSUME NEW v, NEW a \in Height, NEW n \in {0, 1}, NEW arg, IsValue(Hir, arg), NEW k \in Nat
  PROVE  Leads(v, KwVarArgSteps(v, n, arg), Up(a, k), Up(a, k + 1))
<1> DEFINE p == Put("BUILD_TUPLE", n)
           d == Dec(0)
           m == Put("BUILD_MAP", 0)
           s == Expr(arg)
           u == Put("DICT_MERGE", 1)
           l == k + 1
<1>0. MaxOf(n - 1, 0) = 0
  BY DEF MaxOf
<1>1. Does(v, p, 0) /\ Does(v, m, 0) /\ Does(v, u, 0)
  BY DoesWriting
<1>2. k \in Nat /\ l \in Nat
  OBVIOUS
<1>3. Leads(v, <<s>>, Up(a, k), Up(a, l))
  BY ExprLeads
<1>4. Leads(v, <<d>>, Up(a, k), Up(a, k)) /\ Leads(v, <<d>>, Up(a, l), Up(a, l))
  <2>1. k + 0 = k /\ l + 0 = l /\ 0 \in Nat
    OBVIOUS
  <2> HIDE DEF l
  <2>2. Leads(v, <<Dec(0)>>, Up(a, k + 0), Up(a, k)) /\ Leads(v, <<Dec(0)>>, Up(a, l + 0), Up(a, l))
    BY <1>2, <2>1, DecLeads
  <2> QED
    BY <2>1, <2>2
<1> HIDE DEF p, d, m, s, u, l
<1>5. /\ Leads(v, <<p>>, Up(a, k), Up(a, k)) /\ Leads(v, <<m>>, Up(a, k), Up(a, k))
      /\ Leads(v, <<u>>, Up(a, l), Up(a, l))
  BY <1>1, <1>2, StayLeads
<1>6. CASE v >= 9
  <2>1. Leads(v, <<p, d>>, Up(a, k), Up(a, k))
    BY <1>4, <1>5, LeadsPair
  <2>2. Leads(v, <<m, s>>, Up(a, k), Up(a, l))
    BY <1>3, <1>5, LeadsPair
  <2>3. Leads(v, (<<p, d>> \o <<m, s>>) \o <<u>>, Up(a, k), Up(a, l))
    BY <1>5, <2>1, <2>2, LeadsOn3
  <2>4. KwVarArgSteps(v, n, arg) = <<p>> \o (<<d>> \o <<m, s, u>>)
    BY <1>0, <1>6 DEF KwVarArgSteps, p, d, m, s, u
  <2>5. <<p>> \o (<<d>> \o <<m, s, u>>) = (<<p, d>> \o <<m, s>>) \o <<u>>
    <3>1. <<d, m, s, u>> = <<d>> \o <<m, s, u>>
      OBVIOUS
    <3>2. <<p, d, m, s, u>> = <<p>> \o <<d, m, s, u>>
      OBVIOUS
    <3>3. <<p, d, m, s>> = <<p, d>> \o <<m, s>>
      OBVIOUS
    <3>4. <<p, d, m, s, u>> = <<p, d, m, s>> \o <<u>>
      OBVIOUS
    <3> QED
      BY <3>1, <3>2, <3>3, <3>4
  <2> QED
    BY <2>3, <2>4, <2>5 DEF l
<1>7. CASE ~(v >= 9)
  <2>1. Leads(v, <<s, d>>, Up(a, k), Up(a, l))
    BY <1>3, <1>4, LeadsPair
  <2>2. Leads(v, <<p>> \o <<s, d>>, Up(a, k), Up(a, l))
    BY <1>5, <2>1, LeadsOn
  <2>3. KwVarArgSteps(v, n, arg) = <<p>> \o (<<s>> \o <<d>>)
    BY <1>0, <1>7 DEF KwVarArgSteps, p, d, s
  <2> QED
    BY <2>2, <2>3, Pair DEF l
<1> QED
  BY <1>6, <1>7

ArgCount(args) == Len(args.pos) + Len(args.kw)
ArgExtra(v, args) ==
  IF args.kw # <<>> THEN (IF v >= 11 THEN 0 ELSE 1) ELSE Len(args.kwVar)
GivenSteps(v, args) ==
  Exprs(args.pos)
    \o When(args.var # <<>>, VarArgSteps(v, Len(args.pos), args.var[1]))
    \o Exprs(args.kw)
    \o When(args.kwVar # <<>>, KwVarArgSteps(v, Len(args.pos), args.kwVar[1]))
CallingSteps(v, args, op) ==
  IF args.kw # <<>>
  THEN IF v >= 11 THEN <<Put("KW_NAMES", 0), CallInstr(ArgCount(args), op)>>
       ELSE <<Const("obj"), Put("CALL_FUNCTION_KW", ArgCount(args))>>
  ELSE IF args.var # <<>> \/ args.kwVar # <<>>
  THEN <<Put("CALL_FUNCTION_EX", Len(args.kwVar))>> \o When(v >= 11, <<Dec(1)>>)
  ELSE <<CallInstr(ArgCount(args), op)>>

\* Arguments the generator does not miscount: ** comes after one positional at most.
TameArgs(args) ==
  /\ FormedArgs(Hir, args)
  /\ args.kwVar # <<>> => args.kw = <<>> /\ Len(args.pos) <= 1

\* Arguments are given, then called with, then counted off.
LEMMA ArgStepsParts ==
  ASSUME NEW v, NEW args, NEW op
  PROVE  ArgSteps(v, args, op) =
           (GivenSteps(v, args) \o CallingSteps(v, args, op))
             \o <<Dec(ArgCount(args) + ArgExtra(v, args))>>
BY DEF ArgSteps, GivenSteps, CallingSteps, ArgCount, ArgExtra

\* The parts of arguments.
LEMMA ArgCounts ==
  ASSUME NEW args, TameArgs(args)
  PROVE  /\ AreValues(Hir, args.pos) /\ AreValues(Hir, args.var)
         /\ AreValues(Hir, args.kw) /\ AreValues(Hir, args.kwVar)
         /\ Len(args.pos) \in Nat /\ Len(args.kw) \in Nat /\ Len(args.kwVar) \in Nat
         /\ args.kwVar = <<>> <=> Len(args.kwVar) = 0
         /\ args.kw = <<>> => Len(args.kw) = 0
         /\ args.kwVar # <<>> =>
              args.kw = <<>> /\ Len(args.pos) \in {0, 1} /\ Len(args.kwVar) = 1
<1>1. /\ AreValues(Hir, args.pos) /\ AreValues(Hir, args.var)
      /\ AreValues(Hir, args.kw) /\ AreValues(Hir, args.kwVar)
      /\ args.kwVar # <<>> => args.kw = <<>> /\ Len(args.pos) <= 1 /\ Len(args.kwVar) = 1
  <2>1. AreValues(Hir, args.kwVar) /\ Len(args.kwVar) <= 1
    BY DEF TameArgs, FormedArgs
  <2>2. args.kwVar # <<>> => Len(args.kwVar) = 1
    <3> DEFINE n == Len(args.kwVar)
    <3>1. args.kwVar \in Seq(Hir) /\ n \in Nat /\ (args.kwVar = <<>> <=> n = 0)
      BY <2>1, NoElements DEF AreValues
    <3>2. n <= 1
      BY <2>1
    <3> HIDE DEF n
    <3>3. args.kwVar # <<>> => n = 1
      BY <3>1, <3>2
    <3> QED
      BY <3>3 DEF n
  <2> QED
    BY <2>2 DEF TameArgs, FormedArgs
<1>2. ASSUME NEW es, AreValues(Hir, es)
      PROVE  es \in Seq(Hir) /\ Len(es) \in Nat /\ (es = <<>> <=> Len(es) = 0)
  <2>1. es \in Seq(Hir)
    BY <1>2 DEF AreValues
  <2> QED
    BY <2>1, NoElements
<1>3. /\ Len(args.pos) \in Nat /\ Len(args.kw) \in Nat /\ Len(args.kwVar) \in Nat
      /\ args.kwVar = <<>> <=> Len(args.kwVar) = 0
      /\ args.kw = <<>> => Len(args.kw) = 0
  BY <1>1, <1>2
<1>4. Len(args.pos) <= 1 => Len(args.pos) \in {0, 1}
  <2> DEFINE n == Len(args.pos)
  <2>1. n \in Nat
    BY <1>3
  <2> HIDE DEF n
  <2>2. n <= 1 => n \in {0, 1}
    BY <2>1
  <2> QED
    BY <2>2 DEF n
<1> QED
  BY <1>1, <1>3, <1>4

\* The first of some values is a value.
LEMMA FirstValue ==
  ASSUME NEW es, AreValues(Hir, es), es # <<>>
  PROVE  IsValue(Hir, es[1])
<1>1. es \in Seq(Hir) /\ \A i \in 1 .. Len(es) : IsValue(Hir, es[i])
  BY DEF AreValues
<1>2. 1 \in 1 .. Len(es)
  BY <1>1
<1> QED
  BY <1>1, <1>2

\* Every argument given is counted, but what * spreads.
LEMMA GivenLead ==
  ASSUME NEW v, NEW a \in Height, NEW args, TameArgs(args), NEW k \in Nat
  PROVE  Leads(v, GivenSteps(v, args), Up(a, k),
               Up(a, ((k + Len(args.pos)) + Len(args.kw)) + Len(args.kwVar)))
<1> DEFINE n == Len(args.pos)
           l == k + n
           m == l + Len(args.kw)
           q == Exprs(args.pos)
           r == When(args.var # <<>>, VarArgSteps(v, n, args.var[1]))
           s == Exprs(args.kw)
           t == When(args.kwVar # <<>>, KwVarArgSteps(v, n, args.kwVar[1]))
<1>1. /\ AreValues(Hir, args.pos) /\ AreValues(Hir, args.var)
      /\ AreValues(Hir, args.kw) /\ AreValues(Hir, args.kwVar)
      /\ n \in Nat /\ Len(args.kw) \in Nat /\ Len(args.kwVar) \in Nat
      /\ (args.kwVar = <<>> <=> Len(args.kwVar) = 0)
      /\ (args.kwVar # <<>> => n \in {0, 1} /\ Len(args.kwVar) = 1)
  BY ArgCounts
<1>2. l \in Nat /\ m \in Nat
  <2> DEFINE w == Len(args.kw)
  <2>1. n \in Nat /\ w \in Nat
    BY <1>1
  <2> HIDE DEF n, w
  <2>2. l \in Nat /\ l + w \in Nat
    BY <2>1
  <2> QED
    BY <2>2 DEF w
<1>3. GivenSteps(v, args) = ((q \o r) \o s) \o t
  BY DEF GivenSteps
<1>4. Leads(v, q, Up(a, k), Up(a, l))
  BY <1>1, ExprsLead
<1>5. Leads(v, r, Up(a, l), Up(a, l))
  <2> HIDE DEF l, n
  <2>1. CASE args.var = <<>>
    BY <1>2, <2>1, RoomsAbove, LeadsNowhere DEF When
  <2>2. CASE args.var # <<>>
    BY <1>1, <1>2, <2>2, FirstValue, VarArgLeads DEF When
  <2> QED
    BY <2>1, <2>2
<1>6. Leads(v, s, Up(a, l), Up(a, m))
  <2> HIDE DEF l
  <2> QED
    BY <1>1, <1>2, ExprsLead
<1>7. Leads(v, t, Up(a, m), Up(a, m + Len(args.kwVar)))
  <2> HIDE DEF m, n
  <2>1. CASE args.kwVar = <<>>
    <3>1. m + Len(args.kwVar) = m
      BY <1>1, <1>2, <2>1
    <3>2. Leads(v, t, Up(a, m), Up(a, m))
      BY <1>2, <2>1, RoomsAbove, LeadsNowhere DEF When
    <3> QED
      BY <3>1, <3>2
  <2>2. CASE args.kwVar # <<>>
    <3>1. Leads(v, t, Up(a, m), Up(a, m + 1))
      BY <1>1, <1>2, <2>2, FirstValue, KwVarArgLeads DEF When
    <3>2. Len(args.kwVar) = 1
      BY <1>1, <2>2
    <3> QED
      BY <3>1, <3>2
  <2> QED
    BY <2>1, <2>2
<1> HIDE DEF q, r, s, t, l, m
<1>8. Leads(v, ((q \o r) \o s) \o t, Up(a, k), Up(a, m + Len(args.kwVar)))
  BY <1>4, <1>5, <1>6, <1>7, LeadsOn4
<1> QED
  BY <1>3, <1>8 DEF l, m, n

\* The call leaves its result, and what emit_args counts off.
LEMMA CallingLead ==
  ASSUME NEW v, NEW a \in Height, NEW args, TameArgs(args), NEW op
  PROVE  Leads(v, CallingSteps(v, args, op),
               Up(a, (((Null(v) + 1) + Len(args.pos)) + Len(args.kw)) + Len(args.kwVar)),
               Up(a, 1 + (ArgCount(args) + ArgExtra(v, args))))
<1> DEFINE z == Null(v)
           k == (((z + 1) + Len(args.pos)) + Len(args.kw)) + Len(args.kwVar)
           m == 1 + (ArgCount(args) + ArgExtra(v, args))
           c == CallInstr(ArgCount(args), op)
           q == CallingSteps(v, args, op)
<1>1. /\ Len(args.pos) \in Nat /\ Len(args.kw) \in Nat /\ Len(args.kwVar) \in Nat
      /\ (args.kwVar = <<>> <=> Len(args.kwVar) = 0)
      /\ (args.kw = <<>> => Len(args.kw) = 0)
      /\ (args.kwVar # <<>> => args.kw = <<>>)
  BY ArgCounts
<1>2. z = IF v >= 11 THEN 1 ELSE 0
  BY DEF Null
<1>3. k \in Nat /\ m \in Nat
      /\ (args.kw # <<>> /\ v >= 11 => k = z + m)
      /\ (args.kw # <<>> /\ ~(v >= 11) => m = k + 1)
      /\ (args.kw = <<>> => k = z + m)
  <2> DEFINE p == Len(args.pos)
             w == Len(args.kw)
             x == Len(args.kwVar)
  <2>1. /\ args.kw # <<>> /\ v >= 11 => ArgExtra(v, args) = 0 /\ x = 0
        /\ args.kw # <<>> /\ ~(v >= 11) => ArgExtra(v, args) = 1 /\ x = 0
        /\ args.kw = <<>> => ArgExtra(v, args) = x /\ w = 0
    BY <1>1 DEF ArgExtra
  <2>2. ArgCount(args) = p + w
    BY DEF ArgCount
  <2> DEFINE y == ArgExtra(v, args)
             u == ArgCount(args)
  <2>3. /\ z \in {0, 1} /\ (v >= 11 => z = 1) /\ (~(v >= 11) => z = 0)
        /\ p \in Nat /\ w \in Nat /\ x \in Nat
    BY <1>1, <1>2
  <2>4. k = (((z + 1) + p) + w) + x /\ m = 1 + (u + y)
    OBVIOUS
  <2> HIDE DEF p, w, x, y, u, z, k, m
  <2>5. CASE args.kw # <<>> /\ v >= 11
    BY <2>1, <2>2, <2>3, <2>4, <2>5 DEF y, u
  <2>6. CASE args.kw # <<>> /\ ~(v >= 11)
    BY <2>1, <2>2, <2>3, <2>4, <2>6 DEF y, u
  <2>7. CASE args.kw = <<>>
    BY <2>1, <2>2, <2>3, <2>4, <2>7 DEF y, u
  <2> QED
    BY <2>5, <2>6, <2>7
<1> HIDE DEF k, m
<1>4. ASSUME k = z + m
      PROVE  Leads(v, <<c>>, Up(a, k), Up(a, m))
  BY <1>3, <1>4, CallLeads
<1>5. CASE args.kw # <<>> /\ v >= 11
  <2> DEFINE p == Put("KW_NAMES", 0)
  <2>0. q = <<p, c>>
    BY <1>5 DEF CallingSteps
  <2>1. Does(v, p, 0) /\ q = <<p, c>>
    BY ONLY <2>0, DoesWriting
  <2> HIDE DEF p
  <2>2. Leads(v, <<p>>, Up(a, k), Up(a, k))
    BY <1>3, <2>1, StayLeads
  <2>3. Leads(v, <<c>>, Up(a, k), Up(a, m))
    BY <1>3, <1>4, <1>5
  <2>4. Leads(v, <<p, c>>, Up(a, k), Up(a, m))
    <3> HIDE DEF c
    <3> QED
      BY <2>2, <2>3, LeadsPair
  <2> QED
    BY <2>1, <2>4 DEF k, m
<1>6. CASE args.kw # <<>> /\ ~(v >= 11)
  <2> DEFINE p == Put("CALL_FUNCTION_KW", ArgCount(args))
             o == Const("obj")
  <2>0. q = <<o, p>>
    BY <1>6 DEF CallingSteps
  <2>1. Does(v, p, 0) /\ q = <<o, p>>
    BY ONLY <2>0, DoesWriting
  <2>2. Leads(v, <<o>>, Up(a, k), Up(a, k + 1))
    BY <1>3, ConstLeads
  <2> HIDE DEF p, o
  <2>3. Leads(v, <<p>>, Up(a, m), Up(a, m))
    BY <1>3, <2>1, StayLeads
  <2>4. Leads(v, <<o, p>>, Up(a, k), Up(a, m))
    BY <1>3, <1>6, <2>2, <2>3, LeadsPair
  <2> QED
    BY <2>1, <2>4 DEF k, m
<1>7. CASE args.kw = <<>> /\ (args.var # <<>> \/ args.kwVar # <<>>)
  <2> DEFINE p == Put("CALL_FUNCTION_EX", Len(args.kwVar))
             r == When(v >= 11, <<Dec(1)>>)
  <2>1. Does(v, p, 0) /\ q = <<p>> \o r
    BY <1>7, DoesWriting DEF CallingSteps
  <2>2. Leads(v, <<p>>, Up(a, k), Up(a, k))
    <3> HIDE DEF p
    <3> QED
      BY <1>3, <2>1, StayLeads
  <2>3. Leads(v, r, Up(a, k), Up(a, m))
    <3>1. CASE v >= 11
      <4>1. k = m + 1
        BY <1>2, <1>3, <1>7, <3>1
      <4>2. Leads(v, <<Dec(1)>>, Up(a, m + 1), Up(a, m))
        BY <1>3, DecLeads
      <4> QED
        BY <3>1, <4>1, <4>2 DEF When
    <3>2. CASE ~(v >= 11)
      <4>1. k = m
        BY <1>2, <1>3, <1>7, <3>2
      <4>2. Leads(v, <<>>, Up(a, k), Up(a, k))
        BY <1>3, RoomsAbove, LeadsNowhere
      <4> QED
        BY <3>2, <4>1, <4>2 DEF When
    <3> QED
      BY <3>1, <3>2
  <2> HIDE DEF p, r
  <2>4. Leads(v, <<p>> \o r, Up(a, k), Up(a, m))
    BY <2>2, <2>3, LeadsOn
  <2> QED
    BY <2>1, <2>4 DEF k, m
<1>8. CASE args.kw = <<>> /\ ~(args.var # <<>> \/ args.kwVar # <<>>)
  <2>1. q = <<c>>
    BY <1>8 DEF CallingSteps
  <2>2. Leads(v, <<c>>, Up(a, k), Up(a, m))
    BY <1>3, <1>4, <1>8
  <2> QED
    BY <2>1, <2>2 DEF k, m
<1> QED
  BY <1>5, <1>6, <1>7, <1>8

\* Arguments and the call leave the result alone (emit_args_311, emit_args).
LEMMA ArgsLead ==
  ASSUME NEW v, NEW a \in Height, NEW args, TameArgs(args), NEW op
  PROVE  Leads(v, ArgSteps(v, args, op), Up(a, Null(v) + 1), Up(a, 1))
<1> DEFINE l == Null(v) + 1
           k == ((l + Len(args.pos)) + Len(args.kw)) + Len(args.kwVar)
           j == ArgCount(args) + ArgExtra(v, args)
           m == 1 + j
<1>1. Leads(v, GivenSteps(v, args), Up(a, l), Up(a, k))
  <2>1. l \in Nat
    BY DoesNull
  <2> HIDE DEF l
  <2> QED
    BY <2>1, GivenLead
<1>2. Leads(v, CallingSteps(v, args, op), Up(a, k), Up(a, m))
  BY CallingLead
<1>3. j \in Nat
  <2>1. Len(args.pos) \in Nat /\ Len(args.kw) \in Nat /\ Len(args.kwVar) \in Nat
    BY ArgCounts
  <2> DEFINE p == Len(args.pos)
             w == Len(args.kw)
             x == Len(args.kwVar)
             e == ArgExtra(v, args)
  <2>2. e = 0 \/ e = 1 \/ e = x
    BY DEF ArgExtra
  <2>3. j = (p + w) + e
    BY DEF ArgCount
  <2>4. p \in Nat /\ w \in Nat /\ x \in Nat
    BY <2>1
  <2> HIDE DEF p, w, x, e, j
  <2> QED
    BY <2>2, <2>3, <2>4
<1> HIDE DEF j
<1>4. Leads(v, <<Dec(j)>>, Up(a, m), Up(a, 1))
  BY <1>3, DecLeads
<1>5. ArgSteps(v, args, op) = (GivenSteps(v, args) \o CallingSteps(v, args, op)) \o <<Dec(j)>>
  BY ArgStepsParts DEF j
<1> HIDE DEF k, l, m
<1>6. Leads(v, (GivenSteps(v, args) \o CallingSteps(v, args, op)) \o <<Dec(j)>>, Up(a, l), Up(a, 1))
  BY <1>1, <1>2, <1>4, LeadsOn3
<1> QED
  BY <1>5, <1>6 DEF l

-----------------------------------------------------------------------------
(* Single steps, and a few of them one after the other.                    *)

\* A step, between heights a number of values above another.
LEMMA Move ==
  ASSUME NEW v, NEW a \in Height, NEW s, NEW d \in Int, Does(v, s, d),
         NEW k \in Nat, NEW m \in Nat, m = k + d
  PROVE  Leads(v, <<s>>, Up(a, k), Up(a, m))
<1>1. Takes(v, s, k, m)
  BY TakesBy
<1> QED
  BY <1>1, RoomsAbove, Moves

\* A step that adds one.
LEMMA OneUp ==
  ASSUME NEW v, NEW a \in Height, NEW s, Does(v, s, 1)
  PROVE  /\ Leads(v, <<s>>, Up(a, 0), Up(a, 1)) /\ Leads(v, <<s>>, Up(a, 1), Up(a, 2))
         /\ Leads(v, <<s>>, Up(a, 2), Up(a, 3)) /\ Leads(v, <<s>>, Up(a, 3), Up(a, 4))
         /\ Leads(v, <<s>>, Up(a, 4), Up(a, 5))
         /\ \A k \in Nat : Leads(v, <<s>>, Up(a, k), Up(a, k + 1))
<1>1. Leads(v, <<s>>, Up(a, 0), Up(a, 1))
  <2>1. 0 \in Nat /\ 1 \in Nat /\ 1 = 0 + (1) /\ 1 \in Int
    OBVIOUS
  <2> QED
    BY <2>1, Move
<1>2. Leads(v, <<s>>, Up(a, 1), Up(a, 2))
  <2>1. 1 \in Nat /\ 2 \in Nat /\ 2 = 1 + (1) /\ 1 \in Int
    OBVIOUS
  <2> QED
    BY <2>1, Move
<1>3. Leads(v, <<s>>, Up(a, 2), Up(a, 3))
  <2>1. 2 \in Nat /\ 3 \in Nat /\ 3 = 2 + (1) /\ 1 \in Int
    OBVIOUS
  <2> QED
    BY <2>1, Move
<1>4. Leads(v, <<s>>, Up(a, 3), Up(a, 4))
  <2>1. 3 \in Nat /\ 4 \in Nat /\ 4 = 3 + (1) /\ 1 \in Int
    OBVIOUS
  <2> QED
    BY <2>1, Move
<1>5. Leads(v, <<s>>, Up(a, 4), Up(a, 5))
  <2>1. 4 \in Nat /\ 5 \in Nat /\ 5 = 4 + (1) /\ 1 \in Int
    OBVIOUS
  <2> QED
    BY <2>1, Move
<1>g. \A k \in Nat : Leads(v, <<s>>, Up(a, k), Up(a, k + 1))
  <2> SUFFICES ASSUME NEW k \in Nat
               PROVE  Leads(v, <<s>>, Up(a, k), Up(a, k + 1))
    OBVIOUS
  <2>1. k + 1 \in Nat /\ 1 \in Int
    OBVIOUS
  <2> QED
    BY <2>1, Move
<1> QED
  BY <1>1, <1>2, <1>3, <1>4, <1>5, <1>g

\* A step that adds nothing.
LEMMA NoMove ==
  ASSUME NEW v, NEW a \in Height, NEW s, Does(v, s, 0)
  PROVE  /\ Leads(v, <<s>>, Up(a, 0), Up(a, 0)) /\ Leads(v, <<s>>, Up(a, 1), Up(a, 1))
         /\ Leads(v, <<s>>, Up(a, 2), Up(a, 2)) /\ Leads(v, <<s>>, Up(a, 3), Up(a, 3))
         /\ Leads(v, <<s>>, Up(a, 4), Up(a, 4)) /\ Leads(v, <<s>>, Up(a, 5), Up(a, 5))
         /\ \A k \in Nat : Leads(v, <<s>>, Up(a, k), Up(a, k))
<1>1. Leads(v, <<s>>, Up(a, 0), Up(a, 0))
  <2>1. 0 \in Nat /\ 0 \in Nat /\ 0 = 0 + (0) /\ 0 \in Int
    OBVIOUS
  <2> QED
    BY <2>1, Move
<1>2. Leads(v, <<s>>, Up(a, 1), Up(a, 1))
  <2>1. 1 \in Nat /\ 1 \in Nat /\ 1 = 1 + (0) /\ 0 \in Int
    OBVIOUS
  <2> QED
    BY <2>1, Move
<1>3. Leads(v, <<s>>, Up(a, 2), Up(a, 2))
  <2>1. 2 \in Nat /\ 2 \in Nat /\ 2 = 2 + (0) /\ 0 \in Int
    OBVIOUS
  <2> QED
    BY <2>1, Move
<1>4. Leads(v, <<s>>, Up(a, 3), Up(a, 3))
  <2>1. 3 \in Nat /\ 3 \in Nat /\ 3 = 3 + (0) /\ 0 \in Int
    OBVIOUS
  <2> QED
    BY <2>1, Move
<1>5. Leads(v, <<s>>, Up(a, 4), Up(a, 4))
  <2>1. 4 \in Nat /\ 4 \in Nat /\ 4 = 4 + (0) /\ 0 \in Int
    OBVIOUS
  <2> QED
    BY <2>1, Move
<1>6. Leads(v, <<s>>, Up(a, 5), Up(a, 5))
  <2>1. 5 \in Nat /\ 5 \in Nat /\ 5 = 5 + (0) /\ 0 \in Int
    OBVIOUS
  <2> QED
    BY <2>1, Move
<1>g. \A k \in Nat : Leads(v, <<s>>, Up(a, k), Up(a, k))
  <2> SUFFICES ASSUME NEW k \in Nat
               PROVE  Leads(v, <<s>>, Up(a, k), Up(a, k))
    OBVIOUS
  <2>1. k = k + 0 /\ 0 \in Int
    OBVIOUS
  <2> QED
    BY <2>1, Move
<1> QED
  BY <1>1, <1>2, <1>3, <1>4, <1>5, <1>6, <1>g

\* A step that takes one.
LEMMA OneDown ==
  ASSUME NEW v, NEW a \in Height, NEW s, Does(v, s, 0 - 1)
  PROVE  /\ Leads(v, <<s>>, Up(a, 1), Up(a, 0)) /\ Leads(v, <<s>>, Up(a, 2), Up(a, 1))
         /\ Leads(v, <<s>>, Up(a, 3), Up(a, 2)) /\ Leads(v, <<s>>, Up(a, 4), Up(a, 3))
         /\ Leads(v, <<s>>, Up(a, 5), Up(a, 4))
         /\ \A k \in Nat : Leads(v, <<s>>, Up(a, k + 1), Up(a, k))
<1>1. Leads(v, <<s>>, Up(a, 1), Up(a, 0))
  <2>1. 1 \in Nat /\ 0 \in Nat /\ 0 = 1 + (0 - 1) /\ 0 - 1 \in Int
    OBVIOUS
  <2> QED
    BY <2>1, Move
<1>2. Leads(v, <<s>>, Up(a, 2), Up(a, 1))
  <2>1. 2 \in Nat /\ 1 \in Nat /\ 1 = 2 + (0 - 1) /\ 0 - 1 \in Int
    OBVIOUS
  <2> QED
    BY <2>1, Move
<1>3. Leads(v, <<s>>, Up(a, 3), Up(a, 2))
  <2>1. 3 \in Nat /\ 2 \in Nat /\ 2 = 3 + (0 - 1) /\ 0 - 1 \in Int
    OBVIOUS
  <2> QED
    BY <2>1, Move
<1>4. Leads(v, <<s>>, Up(a, 4), Up(a, 3))
  <2>1. 4 \in Nat /\ 3 \in Nat /\ 3 = 4 + (0 - 1) /\ 0 - 1 \in Int
    OBVIOUS
  <2> QED
    BY <2>1, Move
<1>5. Leads(v, <<s>>, Up(a, 5), Up(a, 4))
  <2>1. 5 \in Nat /\ 4 \in Nat /\ 4 = 5 + (0 - 1) /\ 0 - 1 \in Int
    OBVIOUS
  <2> QED
    BY <2>1, Move
<1>g. \A k \in Nat : Leads(v, <<s>>, Up(a, k + 1), Up(a, k))
  <2> SUFFICES ASSUME NEW k \in Nat
               PROVE  Leads(v, <<s>>, Up(a, k + 1), Up(a, k))
    OBVIOUS
  <2>1. k + 1 \in Nat /\ k = (k + 1) + (0 - 1) /\ 0 - 1 \in Int
    OBVIOUS
  <2> QED
    BY <2>1, Move
<1> QED
  BY <1>1, <1>2, <1>3, <1>4, <1>5, <1>g

\* Three to eight single steps in a row, each with its own proof.
LEMMA LeadsBy3 ==
  ASSUME NEW v, NEW s, NEW t, NEW u,
         NEW a, NEW b, NEW c, NEW d,
         Leads(v, <<s>>, a, b),
         Leads(v, <<t>>, b, c),
         Leads(v, <<u>>, c, d)
  PROVE  Leads(v, <<s, t, u>>, a, d)
<1>1. Leads(v, <<s, t>>, a, c)
  BY LeadsPair
<1>2. <<s, t, u>> = <<s, t>> \o <<u>>
  OBVIOUS
<1> QED
  BY <1>1, <1>2, LeadsOn

\* Four.
LEMMA LeadsBy4 ==
  ASSUME NEW v, NEW s, NEW t, NEW u, NEW w,
         NEW a, NEW b, NEW c, NEW d, NEW e,
         Leads(v, <<s>>, a, b),
         Leads(v, <<t>>, b, c),
         Leads(v, <<u>>, c, d),
         Leads(v, <<w>>, d, e)
  PROVE  Leads(v, <<s, t, u, w>>, a, e)
<1>1. Leads(v, <<s, t, u>>, a, d)
  BY LeadsBy3
<1>2. <<s, t, u, w>> = <<s, t, u>> \o <<w>>
  OBVIOUS
<1> QED
  BY <1>1, <1>2, LeadsOn

\* Five.
LEMMA LeadsBy5 ==
  ASSUME NEW v, NEW s, NEW t, NEW u, NEW w, NEW x,
         NEW a, NEW b, NEW c, NEW d, NEW e, NEW f,
         Leads(v, <<s>>, a, b),
         Leads(v, <<t>>, b, c),
         Leads(v, <<u>>, c, d),
         Leads(v, <<w>>, d, e),
         Leads(v, <<x>>, e, f)
  PROVE  Leads(v, <<s, t, u, w, x>>, a, f)
<1>1. Leads(v, <<s, t, u, w>>, a, e)
  BY LeadsBy4
<1>2. <<s, t, u, w, x>> = <<s, t, u, w>> \o <<x>>
  OBVIOUS
<1> QED
  BY <1>1, <1>2, LeadsOn

\* Six.
LEMMA LeadsBy6 ==
  ASSUME NEW v, NEW s, NEW t, NEW u, NEW w, NEW x, NEW y,
         NEW a, NEW b, NEW c, NEW d, NEW e, NEW f, NEW g,
         Leads(v, <<s>>, a, b),
         Leads(v, <<t>>, b, c),
         Leads(v, <<u>>, c, d),
         Leads(v, <<w>>, d, e),
         Leads(v, <<x>>, e, f),
         Leads(v, <<y>>, f, g)
  PROVE  Leads(v, <<s, t, u, w, x, y>>, a, g)
<1>1. Leads(v, <<s, t, u, w, x>>, a, f)
  BY LeadsBy5
<1>2. <<s, t, u, w, x, y>> = <<s, t, u, w, x>> \o <<y>>
  OBVIOUS
<1> QED
  BY <1>1, <1>2, LeadsOn

\* Seven.
LEMMA LeadsBy7 ==
  ASSUME NEW v, NEW s, NEW t, NEW u, NEW w, NEW x, NEW y, NEW z,
         NEW a, NEW b, NEW c, NEW d, NEW e, NEW f, NEW g, NEW h,
         Leads(v, <<s>>, a, b),
         Leads(v, <<t>>, b, c),
         Leads(v, <<u>>, c, d),
         Leads(v, <<w>>, d, e),
         Leads(v, <<x>>, e, f),
         Leads(v, <<y>>, f, g),
         Leads(v, <<z>>, g, h)
  PROVE  Leads(v, <<s, t, u, w, x, y, z>>, a, h)
<1>1. Leads(v, <<s, t, u, w, x, y>>, a, g)
  BY LeadsBy6
<1>2. <<s, t, u, w, x, y, z>> = <<s, t, u, w, x, y>> \o <<z>>
  OBVIOUS
<1> QED
  BY <1>1, <1>2, LeadsOn

\* Eight.
LEMMA LeadsBy8 ==
  ASSUME NEW v, NEW s, NEW t, NEW u, NEW w, NEW x, NEW y, NEW z, NEW p,
         NEW a, NEW b, NEW c, NEW d, NEW e, NEW f, NEW g, NEW h, NEW i,
         Leads(v, <<s>>, a, b),
         Leads(v, <<t>>, b, c),
         Leads(v, <<u>>, c, d),
         Leads(v, <<w>>, d, e),
         Leads(v, <<x>>, e, f),
         Leads(v, <<y>>, f, g),
         Leads(v, <<z>>, g, h),
         Leads(v, <<p>>, h, i)
  PROVE  Leads(v, <<s, t, u, w, x, y, z, p>>, a, i)
<1>1. Leads(v, <<s, t, u, w, x, y, z>>, a, h)
  BY LeadsBy7
<1>2. <<s, t, u, w, x, y, z, p>> = <<s, t, u, w, x, y, z>> \o <<p>>
  OBVIOUS
<1> QED
  BY <1>1, <1>2, LeadsOn

\* Five sequences in a row.
LEMMA LeadsOn5 ==
  ASSUME NEW v, NEW q, NEW r, NEW s, NEW t, NEW u, NEW a, NEW b, NEW c, NEW d, NEW e, NEW f,
         Leads(v, q, a, b), Leads(v, r, b, c), Leads(v, s, c, d), Leads(v, t, d, e),
         Leads(v, u, e, f)
  PROVE  Leads(v, (((q \o r) \o s) \o t) \o u, a, f)
<1>1. Leads(v, ((q \o r) \o s) \o t, a, e)
  BY LeadsOn4
<1> QED
  BY <1>1, LeadsOn

\* A branch adds one, but if it is a block that leaves nothing.
LEMMA BranchDoes ==
  ASSUME NEW v, NEW e, IsValue(Hir, e), e.k = "lambda" => ~Mute(e.body)
  PROVE  \E n \in {0, 1} : Does(v, Branch(e), n)
<1>1. CASE e.k = "lambda"
  <2>1. e \in Hir
    BY DEF IsValue
  <2>2. FormedBlocks(Hir, e)
    BY <1>1, <2>1, HirAssumption DEF WellFormed, FormedOperation
  <2>3. IsBody(Hir, e.body)
    BY <1>1, <2>2 DEF FormedBlocks, FormedFunction
  <2> QED
    BY <1>1, <2>3, DoesCalling DEF Branch
<1>2. CASE e.k # "lambda"
  BY <1>2, DoesCalling DEF Branch
<1> QED
  BY <1>1, <1>2

\* A step that adds one or nothing.
LEMMA OneOrNone ==
  ASSUME NEW v, NEW a \in Height, NEW s, NEW n \in {0, 1}, Does(v, s, n), NEW k \in Nat
  PROVE  Leads(v, <<s>>, Up(a, k), Up(a, k + n)) /\ k + n \in Nat
<1>1. CASE n = 0
  BY <1>1, NoMove
<1>2. CASE n = 1
  BY <1>2, OneUp
<1> QED
  BY <1>1, <1>2

\* A Store, and what only counts after it, leave no POP_TOP.
LEMMA StoreKept ==
  ASSUME NEW v, NEW a \in Height, NEW k \in Nat
  PROVE  Leads(v, <<Store>>, Up(a, k + 1), Kept(a, k))
<1> DEFINE x == Up(a, k + 1)
           y == Kept(a, k)
<1>0. Room(a, k) /\ Room(a, k + 1) /\ k \in Int /\ k + 1 \in Int /\ a.len \in Nat
  BY RoomsAbove, HeightParts
<1>1. x \in Height /\ x.len = a.len + (k + 1) /\ x.frames = a.frames /\ x.outer = a.outer
  <2> DEFINE n == k + 1
  <2> HIDE DEF n
  <2>1. LET z == Up(a, n)
        IN  z \in Height /\ z.len = a.len + n /\ z.frames = a.frames /\ z.outer = a.outer
    BY <1>0, UpParts DEF n
  <2> QED
    BY <2>1 DEF n
<1>2. /\ y \in Height /\ y.len = a.len + k /\ y.pop = "no" /\ y.frames = a.frames
      /\ y.outer = a.outer
  BY <1>0, UpParts
<1> HIDE DEF x, y
<1>3. Counting(Store) /\ Gain(v, Store) = 0 - 1 /\ Flag(x, Store) = "no" /\ Store.do # "block"
  BY DEF Counting, Gain, Flag, Store
<1>4. y.len = x.len + (0 - 1)
  BY <1>0, <1>1, <1>2
<1>5. Counts(v, x, Store, y)
  BY <1>1, <1>2, <1>3, <1>4 DEF Counts
<1>6. Goes(v, x, Store, y)
  BY <1>1, <1>2, <1>5 DEF Goes
<1> QED
  BY <1>6, LeadsOne DEF x, y

\* stack_dec_n does not make the last unit a POP_TOP.
LEMMA DecKept ==
  ASSUME NEW v, NEW a \in Height, NEW k \in Nat, NEW n \in Nat
  PROVE  Leads(v, <<Dec(n)>>, Kept(a, k + n), Kept(a, k))
<1> DEFINE x == Kept(a, k + n)
           y == Kept(a, k)
           s == Dec(n)
<1>0. Room(a, k) /\ Room(a, k + n) /\ k \in Int /\ k + n \in Int /\ a.len \in Nat
  BY RoomsAbove, HeightParts
<1>1. /\ x \in Height /\ x.len = a.len + (k + n) /\ x.pop = "no" /\ x.frames = a.frames
      /\ x.outer = a.outer
  <2> DEFINE m == k + n
  <2> HIDE DEF m
  <2>1. LET z == Kept(a, m)
        IN  /\ z \in Height /\ z.len = a.len + m /\ z.pop = "no" /\ z.frames = a.frames
            /\ z.outer = a.outer
    BY <1>0, UpParts DEF m
  <2> QED
    BY <2>1 DEF m
<1>2. /\ y \in Height /\ y.len = a.len + k /\ y.pop = "no" /\ y.frames = a.frames
      /\ y.outer = a.outer
  BY <1>0, UpParts
<1>3. Counting(s) /\ Gain(v, s) = 0 - n /\ Flag(x, s) = x.pop /\ s.do # "block"
  BY DEF Counting, Gain, Flag, Dec
<1> HIDE DEF x, y, s
<1>4. y.len = x.len + (0 - n)
  BY <1>0, <1>1, <1>2
<1>5. Counts(v, x, s, y)
  BY <1>1, <1>2, <1>3, <1>4 DEF Counts
<1>6. Goes(v, x, s, y)
  BY <1>1, <1>2, <1>5 DEF Goes
<1> QED
  BY <1>6, LeadsOne DEF x, y, s

-----------------------------------------------------------------------------
(* Calls, and what is written as one.                                      *)

\* emit_call_method
LEMMA MethodLeads ==
  ASSUME NEW v, NEW a \in Height, NEW e, IsValue(Hir, e.obj), TameArgs(e.args)
  PROVE  Leads(v, MethodSteps(v, e), Up(a, 0), Up(a, 1))
<1> DEFINE bound == v >= 11 \/ (e.isMethod /\ e.args.kw = <<>>)
           o == Expr(e.obj)
           p == Put(IF bound THEN "LOAD_METHOD" ELSE "LOAD_ATTR", 0)
           r == When(v >= 11, <<Inc(1)>>)
           t == ArgSteps(v, e.args, IF bound THEN "CALL_METHOD" ELSE "CALL_FUNCTION")
           z == Null(v) + 1
<1>1. Does(v, o, 1) /\ Does(v, p, 0) /\ Does(v, Inc(1), 1)
  BY DoesCalling, DoesWriting
<1>2. Leads(v, <<o>>, Up(a, 0), Up(a, 1)) /\ Leads(v, <<p>>, Up(a, 1), Up(a, 1))
  <2> HIDE DEF o, p
  <2> QED
    BY <1>1, OneUp, NoMove
<1>3. Leads(v, r, Up(a, 1), Up(a, z))
  <2>1. CASE v >= 11
    <3>1. z = 2 /\ r = <<Inc(1)>>
      BY <2>1 DEF Null, When
    <3>2. Leads(v, <<Inc(1)>>, Up(a, 1), Up(a, 2))
      BY <1>1, OneUp
    <3> QED
      BY <3>1, <3>2
  <2>2. CASE ~(v >= 11)
    <3>1. z = 1 /\ r = <<>>
      BY <2>2 DEF Null, When
    <3>2. Leads(v, <<>>, Up(a, 1), Up(a, 1))
      BY RoomsAbove, LeadsNowhere
    <3> QED
      BY <3>1, <3>2
  <2> QED
    BY <2>1, <2>2
<1>4. Leads(v, t, Up(a, z), Up(a, 1))
  BY ArgsLead
<1>5. MethodSteps(v, e) = ((<<o>> \o <<p>>) \o r) \o t
  BY DEF MethodSteps
<1> HIDE DEF o, p, r, t, z
<1> QED
  BY <1>2, <1>3, <1>4, <1>5, LeadsOn4

\* emit_call_local
LEMMA CallOfLeads ==
  ASSUME NEW v, NEW a \in Height, NEW e, IsValue(Hir, e.obj), TameArgs(e.args)
  PROVE  Leads(v, <<PushNull, IF e.obj.k = "name" THEN Name ELSE Expr(e.obj)>>
                    \o ArgSteps(v, e.args, "CALL_FUNCTION"), Up(a, 0), Up(a, 1))
<1> DEFINE o == IF e.obj.k = "name" THEN Name ELSE Expr(e.obj)
           z == Null(v)
           t == ArgSteps(v, e.args, "CALL_FUNCTION")
<1>1. Does(v, o, 1) /\ Does(v, PushNull, z) /\ z \in Nat
  <2>1. Does(v, Name, 1) /\ Does(v, Expr(e.obj), 1)
    BY DoesCalling, DoesWriting
  <2> QED
    BY <2>1, DoesNull
<1>2. Leads(v, <<PushNull>>, Up(a, 0), Up(a, z)) /\ Leads(v, <<o>>, Up(a, z), Up(a, z + 1))
  <2> HIDE DEF o, z
  <2>1. 0 \in Nat /\ z \in Int /\ z = 0 + z
    BY <1>1
  <2>2. Leads(v, <<PushNull>>, Up(a, 0), Up(a, z))
    BY <1>1, <2>1, Move
  <2> QED
    BY <1>1, <2>2, OneUp
<1>3. Leads(v, t, Up(a, z + 1), Up(a, 1))
  BY ArgsLead
<1> HIDE DEF o, t, z
<1>4. Leads(v, <<PushNull, o>>, Up(a, 0), Up(a, z + 1))
  BY <1>2, LeadsPair
<1>5. Leads(v, <<PushNull, o>> \o t, Up(a, 0), Up(a, 1))
  BY <1>3, <1>4, LeadsOn
<1> QED
  BY <1>5 DEF o, t

\* discard: each argument is evaluated and popped.
LEMMA DiscardLeads ==
  ASSUME NEW v, NEW a \in Height, a.pop = "any", NEW es, AreValues(Hir, es)
  PROVE  Leads(v, Each(Exprs(es), PopTop) \o <<Const("obj")>>, Up(a, 0), Up(a, 1))
<1> DEFINE n == Len(es)
           steps == Exprs(es)
           T == {Expr(es[i]) : i \in 1 .. n}
           q == Each(steps, PopTop)
<1>1. n \in Nat /\ \A i \in 1 .. n : IsValue(Hir, es[i])
  BY DEF AreValues
<1>2. steps \in Seq(T) /\ Len(steps) = n /\ \A i \in 1 .. n : steps[i] = Expr(es[i])
  BY <1>1 DEF Exprs
<1>3. \A i \in 1 .. n : Does(v, steps[i], 1)
  <2> HIDE DEF steps, n, T
  <2> QED
    BY <1>1, <1>2, DoesCalling
<1>4. Does(v, PopTop, 0 - 1)
  BY DoesWriting
<1> DEFINE x == Up(a, 0)
           y == Up(a, 1)
<1>5. /\ x \in Height /\ x.len = a.len /\ x.pop = "any" /\ x.frames = a.frames /\ x.outer = a.outer
      /\ y \in Height /\ y.len = a.len + 1 /\ y.pop = "any" /\ y.frames = a.frames
      /\ y.outer = a.outer /\ a.len \in Nat
  BY RestParts, HeightParts
<1> HIDE DEF x, y, steps, n, T
<1>6. \A i \in 1 .. n : Goes(v, x, steps[i], y)
  BY <1>3, <1>5, DoesGoes
<1>7. Goes(v, y, PopTop, x)
  <2>1. x.len = y.len + (0 - 1) /\ 0 - 1 \in Int
    BY <1>5
  <2> QED
    BY <1>4, <1>5, <2>1, DoesGoes
<1> DEFINE p == [i \in 1 .. n + 1 |-> x]
           m == [i \in 1 .. n |-> y]
<1>8. /\ p \in Seq(Height) /\ Len(p) = n + 1 /\ \A i \in 1 .. n + 1 : p[i] = x
      /\ m \in Seq(Height) /\ Len(m) = n /\ \A i \in 1 .. n : m[i] = y
  BY <1>1, <1>5
<1> HIDE DEF p, m
<1>9. \A i \in 1 .. n : Goes(v, p[i], steps[i], m[i]) /\ Goes(v, m[i], PopTop, p[i + 1])
  <2> SUFFICES ASSUME NEW i \in 1 .. n
               PROVE  Goes(v, p[i], steps[i], m[i]) /\ Goes(v, m[i], PopTop, p[i + 1])
    OBVIOUS
  <2>1. p[i] = x /\ p[i + 1] = x /\ m[i] = y
    BY <1>1, <1>8
  <2> QED
    BY <1>6, <1>7, <2>1
<1>10. Leads(v, q, p[1], p[n + 1])
  BY <1>2, <1>8, <1>9, EachLeads
<1>11. Leads(v, q, x, x)
  <2>1. p[1] = x /\ p[n + 1] = x
    BY <1>1, <1>8
  <2> QED
    BY <1>10, <2>1
<1>12. Leads(v, <<Const("obj")>>, x, y)
  <2>1. Leads(v, <<Const("obj")>>, Up(a, 0), Up(a, 0 + 1))
    BY ConstLeads
  <2> QED
    BY <2>1 DEF x, y
<1> HIDE DEF q
<1>13. Leads(v, q \o <<Const("obj")>>, x, y)
  BY <1>11, <1>12, LeadsOn
<1> QED
  BY <1>13 DEF q, x, y, steps

-----------------------------------------------------------------------------
(* if and assert.                                                          *)

\* emit_if_instr: both ways put a third one on the count, which is balanced.
LEMMA IfLeads ==
  ASSUME NEW v, NEW a, Opened(a), NEW e, IsValue(Hir, e.cond), IsValue(Hir, e.then),
         AreValues(Hir, e.else), e.then.k = "lambda" => ~Mute(e.then.body),
         e.else # <<>> /\ e.else[1].k = "lambda" => ~Mute(e.else[1].body)
  PROVE  Leads(v, IfSteps(v, e), Up(a, 0), Up(a, 1))
<1> DEFINE c == Expr(e.cond)
           j == Jump("POP_JUMP_IF_FALSE")
           b == Branch(e.then)
           f == Put("JUMP_FORWARD", IF v >= 10 THEN 1 ELSE 2)
           t == FillTest(1, 3)
           o == Const("obj")
           g == Jump("JUMP_FORWARD")
           u == FillTest(1, 4)
           d == Branch(e.else[1])
           w == FillForward(2, 2 + 1)
           rest == IF e.else = <<>> THEN <<f, t, o>> ELSE <<g, u, d, w>>
<1>1. a \in Height
  BY DEF Opened
<1>2. /\ Does(v, c, 1) /\ Does(v, j, 0) /\ Does(v, f, 0) /\ Does(v, t, 0)
      /\ Does(v, o, 1) /\ Does(v, g, 0) /\ Does(v, u, 0) /\ Does(v, w, 0)
  BY DoesCalling, DoesJumping, DoesWriting
<1>b. PICK m \in {0, 1} : Does(v, b, m)
  BY BranchDoes
<1>3. e.else # <<>> => \E n \in {0, 1} : Does(v, d, n)
  BY FirstValue, BranchDoes
<1>4. IfSteps(v, e) = (<<c, j, b>> \o rest) \o <<Balance, AssertOne>>
  BY DEF IfSteps
<1>5. /\ \A n \in Nat \ {0} : Leads(v, <<Balance>>, Up(a, n), Up(a, 1))
      /\ Leads(v, <<AssertOne>>, Up(a, 1), Up(a, 1))
  BY BalanceLeads, AssertLeads
<1> HIDE DEF c, j, b, f, t, o, g, u, d, w
<1> DEFINE k == 1 + m
<1>6. Leads(v, <<c, j, b>>, Up(a, 0), Up(a, k)) /\ k \in Nat \ {0}
  <2>1. /\ Leads(v, <<c>>, Up(a, 0), Up(a, 1)) /\ Leads(v, <<j>>, Up(a, 1), Up(a, 1))
    BY <1>1, <1>2, OneUp, NoMove
  <2>2. 1 \in Nat
    OBVIOUS
  <2>3. Leads(v, <<b>>, Up(a, 1), Up(a, 1 + m))
    BY <1>1, <1>b, <2>2, OneOrNone
  <2> QED
    BY <2>1, <2>3, LeadsBy3
<1> HIDE DEF k
<1>7. \E n \in Nat \ {0} : Leads(v, rest, Up(a, k), Up(a, n))
  <2>1. CASE e.else = <<>>
    <3>1. /\ Leads(v, <<f>>, Up(a, k), Up(a, k)) /\ Leads(v, <<t>>, Up(a, k), Up(a, k))
          /\ Leads(v, <<o>>, Up(a, k), Up(a, k + 1))
      BY <1>1, <1>2, <1>6, OneUp, NoMove
    <3>3. k + 1 \in Nat \ {0}
      BY <1>6
    <3>2. Leads(v, <<f, t, o>>, Up(a, k), Up(a, k + 1))
      BY <3>1, LeadsBy3
    <3> QED
      BY <2>1, <3>2, <3>3
  <2>2. CASE e.else # <<>>
    <3>1. PICK n \in {0, 1} : Does(v, d, n)
      BY <1>3, <2>2
    <3> DEFINE l == k + n
    <3>2. Leads(v, <<d>>, Up(a, k), Up(a, l)) /\ l \in Nat \ {0}
      <4>1. Leads(v, <<d>>, Up(a, k), Up(a, l))
        BY <1>1, <1>6, <3>1, OneOrNone
      <4>2. l \in Nat \ {0}
        BY <1>6
      <4> QED
        BY <4>1, <4>2
    <3> HIDE DEF l
    <3>3. /\ Leads(v, <<g>>, Up(a, k), Up(a, k)) /\ Leads(v, <<u>>, Up(a, k), Up(a, k))
          /\ Leads(v, <<w>>, Up(a, l), Up(a, l))
      BY <1>1, <1>2, <1>6, <3>2, NoMove
    <3>4. Leads(v, <<g, u, d, w>>, Up(a, k), Up(a, l))
      BY <3>2, <3>3, LeadsBy4
    <3> QED
      BY <2>2, <3>2, <3>4
  <2> QED
    BY <2>1, <2>2
<1>n. PICK n \in Nat \ {0} : Leads(v, rest, Up(a, k), Up(a, n))
  BY <1>7
<1>8. Leads(v, <<Balance, AssertOne>>, Up(a, n), Up(a, 1))
  BY <1>5, LeadsPair
<1> HIDE DEF rest
<1> QED
  BY <1>4, <1>6, <1>n, <1>8, LeadsOn3

\* emit_assert_instr: with the exception on the stack, the message is passed to it.
LEMMA MessageLeads ==
  ASSUME NEW v, NEW a \in Height, NEW msg, AreValues(Hir, msg), Len(msg) <= 1
  PROVE  Leads(v, When(msg # <<>>,
                       Exprs(msg) \o (IF Is311(v) THEN <<CallInstr(0, "CALL")>>
                                      ELSE <<CallInstr(1, "CALL_FUNCTION"), Dec(1)>>)),
               Up(a, 1), Up(a, 1))
<1> DEFINE q == Exprs(msg)
           c == CallInstr(0, "CALL")
           f == CallInstr(1, "CALL_FUNCTION")
           d == Dec(1)
           r == IF Is311(v) THEN <<c>> ELSE <<f, d>>
<1>1. CASE msg = <<>>
  BY <1>1, RoomsAbove, LeadsNowhere DEF When
<1>2. CASE msg # <<>>
  <2>1. msg \in Seq(Hir)
    BY DEF AreValues
  <2>2. Len(msg) = 1
    <3> DEFINE n == Len(msg)
    <3>1. n \in Nat /\ n # 0
      BY <1>2, <2>1, NoElements
    <3> HIDE DEF n
    <3>2. n <= 1 => n = 1
      BY <3>1
    <3> QED
      BY <3>2 DEF n
  <2>3. Leads(v, q, Up(a, 1), Up(a, 2))
    <3>1. Leads(v, q, Up(a, 1), Up(a, 1 + Len(msg)))
      BY ExprsLead
    <3> QED
      BY <2>2, <3>1
  <2>4. Leads(v, r, Up(a, 2), Up(a, 1))
    <3>1. CASE v >= 11
      <4>1. Does(v, c, 0 - 1) /\ r = <<c>>
        BY <3>1, DoesNull DEF Null, Is311
      <4> HIDE DEF c, r
      <4> QED
        BY <4>1, OneDown
    <3>2. CASE ~(v >= 11)
      <4>1. Does(v, f, 0) /\ r = <<f, d>>
        <5>1. Does(v, f, 0 - Null(v)) /\ Null(v) = 0
          BY <3>2, DoesNull DEF Null
        <5> HIDE DEF f, d, c
        <5> QED
          BY <3>2, <5>1 DEF Is311
      <4>2. Does(v, d, 0 - 1)
        BY DoesWriting
      <4> HIDE DEF f, d, r
      <4>3. Leads(v, <<f>>, Up(a, 2), Up(a, 2)) /\ Leads(v, <<d>>, Up(a, 2), Up(a, 1))
        BY <4>1, <4>2, OneDown, NoMove
      <4> QED
        BY <4>1, <4>3, LeadsPair
    <3> QED
      BY <3>1, <3>2
  <2> HIDE DEF q, r
  <2>5. Leads(v, q \o r, Up(a, 1), Up(a, 1))
    BY <2>3, <2>4, LeadsOn
  <2> QED
    BY <1>2, <2>5 DEF When, q, r
<1> QED
  BY <1>1, <1>2

\* assert (emit_assert_instr): the None it leaves is its value.
LEMMA AssertStepsLead ==
  ASSUME NEW v, NEW a, Opened(a), NEW e, IsValue(Hir, e.cond), AreValues(Hir, e.msg),
         Len(e.msg) <= 1
  PROVE  Leads(v, AssertSteps(v, e), Up(a, 0), Up(a, 1))
<1> DEFINE c == Expr(e.cond)
           j == Jump("POP_JUMP_IF_TRUE")
           d == Dec(1)
           l == Put(IF v >= 10 THEN "LOAD_ASSERTION_ERROR" ELSE "LOAD_GLOBAL", 0)
           i == Inc(1)
           m == When(e.msg # <<>>,
                     Exprs(e.msg) \o (IF Is311(v) THEN <<CallInstr(0, "CALL")>>
                                      ELSE <<CallInstr(1, "CALL_FUNCTION"), Dec(1)>>))
           r == Put("RAISE_VARARGS", 1)
           t == FillTest(1, 4)
           o == Const("obj")
<1>1. a \in Height
  BY DEF Opened
<1>2. /\ Does(v, c, 1) /\ Does(v, j, 0) /\ Does(v, d, 0 - 1) /\ Does(v, l, 0) /\ Does(v, i, 1)
      /\ Does(v, r, 0) /\ Does(v, t, 0) /\ Does(v, o, 1)
  BY DoesCalling, DoesJumping, DoesWriting
<1>3. Leads(v, m, Up(a, 1), Up(a, 1))
  BY <1>1, MessageLeads
<1>4. Leads(v, <<AssertOne>>, Up(a, 1), Up(a, 1))
  BY AssertLeads
<1>5. AssertSteps(v, e) = (<<c, j, d, l, i>> \o m) \o <<r, d, t, o, AssertOne>>
  BY DEF AssertSteps
<1> HIDE DEF c, j, d, l, i, m, r, t, o
<1>6. Leads(v, <<c, j, d, l, i>>, Up(a, 0), Up(a, 1))
  <2>1. /\ Leads(v, <<c>>, Up(a, 0), Up(a, 1)) /\ Leads(v, <<j>>, Up(a, 1), Up(a, 1))
        /\ Leads(v, <<d>>, Up(a, 1), Up(a, 0)) /\ Leads(v, <<l>>, Up(a, 0), Up(a, 0))
        /\ Leads(v, <<i>>, Up(a, 0), Up(a, 1))
    BY <1>1, <1>2, OneUp, NoMove, OneDown
  <2> QED
    BY <2>1, LeadsBy5
<1>7. Leads(v, <<r, d, t, o, AssertOne>>, Up(a, 1), Up(a, 1))
  <2>1. /\ Leads(v, <<r>>, Up(a, 1), Up(a, 1)) /\ Leads(v, <<d>>, Up(a, 1), Up(a, 0))
        /\ Leads(v, <<t>>, Up(a, 0), Up(a, 0)) /\ Leads(v, <<o>>, Up(a, 0), Up(a, 1))
    BY <1>1, <1>2, OneUp, NoMove, OneDown
  <2> QED
    BY <1>4, <2>1, LeadsBy5
<1> QED
  BY <1>3, <1>5, <1>6, <1>7, LeadsOn3

-----------------------------------------------------------------------------
(* Loops, and blocks that are given parameters.                            *)

\* In a loop: n are on the stack when its body begins.
Looping(a, n) ==
  [a EXCEPT !.frames = [a.frames EXCEPT ![Len(a.frames)] = [len |-> a.len, base |-> a.len + n]]]

\* The height in the body of a loop.
LEMMA LoopingParts ==
  ASSUME NEW a, Opened(a), NEW n \in Nat
  PROVE  LET d == Looping(a, n)
         IN  /\ d \in Height /\ d.len = a.len /\ d.pop = "any" /\ d.outer = a.outer
             /\ d.frames = [a.frames EXCEPT ![Len(a.frames)] = [len |-> a.len, base |-> a.len + n]]
             /\ d.frames # <<>> /\ Front(d.frames) = Front(a.frames)
             /\ Top(d).len = a.len /\ Top(d).base = a.len + n
<1> DEFINE f == a.frames
           x == [len |-> a.len, base |-> a.len + n]
           h == [f EXCEPT ![Len(f)] = x]
           d == Looping(a, n)
<1>1. a \in Height /\ a.pop = "any" /\ f # <<>>
  BY DEF Opened
<1>2. f \in Seq(HeightFrame) /\ a.len \in Nat
  BY <1>1, HeightParts
<1>3. x \in HeightFrame
  <2> DEFINE b == a.len + n
  <2>1. b \in Nat
    BY <1>2
  <2> HIDE DEF b
  <2> QED
    BY <1>2, <2>1 DEF HeightFrame
<1>4. /\ Len(f) \in Nat \ {0}
      /\ Front(f) \in Seq(HeightFrame) /\ Len(Front(f)) = Len(f) - 1
      /\ \A i \in 1 .. Len(f) - 1 : Front(f)[i] = f[i]
  BY <1>1, <1>2, LastOfSeq
<1> HIDE DEF f, x
<1>5. /\ h \in Seq(HeightFrame) /\ Len(h) = Len(f)
      /\ \A i \in 1 .. Len(f) : h[i] = IF i = Len(f) THEN x ELSE f[i]
  BY <1>2, <1>3, ElementKept
<1> HIDE DEF h
<1>6. h # <<>>
  BY <1>4, <1>5
<1>7. /\ Len(Front(h)) = Len(h) - 1 /\ Front(h) \in Seq(HeightFrame)
      /\ \A i \in 1 .. Len(h) - 1 : Front(h)[i] = h[i]
      /\ Last(h) = h[Len(h)]
  BY <1>5, <1>6, LastOfSeq
<1>8. Front(h) = Front(f)
  <2> DEFINE p == Front(h)
             q == Front(f)
             n1 == Len(f)
  <2>1. p \in Seq(HeightFrame) /\ q \in Seq(HeightFrame) /\ Len(p) = n1 - 1 /\ Len(q) = n1 - 1
    BY <1>4, <1>5, <1>7
  <2>2. ASSUME NEW i \in 1 .. n1 - 1 PROVE p[i] = q[i]
    <3>1. p[i] = h[i] /\ q[i] = f[i]
      BY <1>4, <1>5, <1>7
    <3>2. i \in 1 .. n1 /\ i # n1
      BY <1>4
    <3> QED
      BY <1>5, <3>1, <3>2
  <2> HIDE DEF p, q, n1
  <2> QED
    BY <2>1, <2>2, SeqEqual DEF p, q
<1>9. Last(h) = x
  BY <1>4, <1>5, <1>7
<1>10. d \in Height /\ d.len = a.len /\ d.pop = a.pop /\ d.outer = a.outer /\ d.frames = h
  <2>1. d = [a EXCEPT !.frames = h]
    BY DEF Looping, h, f, x
  <2> HIDE DEF d
  <2> QED
    BY <1>1, <1>5, <2>1 DEF Height
<1>11. Top(d).len = a.len /\ Top(d).base = a.len + n
  <2>1. Top(d) = x
    BY <1>9, <1>10 DEF Top
  <2> HIDE DEF d
  <2> QED
    BY <2>1 DEF x
<1> HIDE DEF d
<1> QED
  BY <1>1, <1>6, <1>8, <1>10, <1>11 DEF f, h, x, d

\* A loop remembers the count its body begins with.
LEMMA BaseLeads ==
  ASSUME NEW v, NEW a, Opened(a), NEW n \in Nat
  PROVE  Leads(v, <<Base>>, Up(a, n), Up(Looping(a, n), n))
<1> DEFINE d == Looping(a, n)
           x == Up(a, n)
           y == Up(d, n)
           h == [a.frames EXCEPT ![Len(a.frames)] = [len |-> a.len, base |-> a.len + n]]
<1>0. a \in Height /\ a.frames # <<>> /\ Top(a).len = a.len /\ a.len \in Nat
  BY HeightParts DEF Opened
<1>1. d \in Height /\ d.len = a.len /\ d.outer = a.outer /\ d.frames = h
  BY LoopingParts
<1> HIDE DEF d, h
<1>2. /\ x \in Height /\ x.len = a.len + n /\ x.pop = "any" /\ x.frames = a.frames
      /\ x.outer = a.outer
      /\ y \in Height /\ y.len = d.len + n /\ y.pop = "any" /\ y.frames = d.frames
      /\ y.outer = d.outer
  BY <1>0, <1>1, RoomsAbove, UpParts, ZenonT(60)
<1> HIDE DEF x, y
<1>3. Based(x) = h
  <2>1. Top(x).len = a.len
    BY <1>0, <1>2 DEF Top
  <2> QED
    BY <1>2, <2>1 DEF Based, h
<1>4. Frames(x, Base, y)
  BY <1>0, <1>1, <1>2, <1>3 DEF Frames, Base
<1>5. Goes(v, x, Base, y)
  BY <1>2, <1>4 DEF Goes
<1> QED
  BY <1>5, LeadsOne DEF x, y, d

\* What the body has left is popped; m is what the loop itself takes.
LEMMA PopLoopLeads ==
  ASSUME NEW v, NEW a, Opened(a), NEW n \in Nat, NEW m \in 0 .. n, NEW k \in Nat,
         k \in {n - m, (n - m) + 1}
  PROVE  Leads(v, <<PopLoop(m)>>, Up(Looping(a, n), k), Up(Looping(a, n), n - m))
<1> DEFINE d == Looping(a, n)
           j == n - m
           x == Up(d, k)
           y == Up(d, j)
<1>0. a.len \in Nat /\ j \in Nat /\ m \in Nat
  BY HeightParts DEF Opened
<1>1. d \in Height /\ d.len = a.len /\ d.frames # <<>> /\ Top(d).base = a.len + n
  BY LoopingParts
<1> HIDE DEF d, j
<1>2. /\ x \in Height /\ x.len = d.len + k /\ x.frames = d.frames /\ x.outer = d.outer
      /\ y \in Height /\ y.len = d.len + j /\ y.pop = "any" /\ y.frames = d.frames
      /\ y.outer = d.outer
  BY <1>0, <1>1, RoomsAbove, UpParts, ZenonT(60)
<1> HIDE DEF x, y
<1>3. x.frames # <<>> /\ Top(x).base = a.len + n
  BY <1>1, <1>2 DEF Top
<1> DEFINE l == Top(x).base - m
<1>4. l = a.len + j /\ Top(x).base >= m /\ x.len \in {l, l + 1} /\ l \in Nat
  BY <1>0, <1>1, <1>2, <1>3 DEF j
<1>5. y = Level(x, l, "any")
  <2> HIDE DEF l
  <2>1. y.len = l /\ y.pop = "any" /\ y.frames = x.frames /\ y.outer = x.outer
    BY <1>1, <1>2, <1>4
  <2> QED
    BY <1>2, <1>4, <2>1, LevelIs
<1>6. Frames(x, PopLoop(m), y)
  BY <1>0, <1>2, <1>3, <1>4, <1>5 DEF Frames, PopLoop
<1>7. Goes(v, x, PopLoop(m), y)
  BY <1>2, <1>6 DEF Goes
<1> QED
  BY <1>7, LeadsOne DEF x, y, d, j

\* At the end of a loop the length is asserted.
LEMMA LoopEnds ==
  ASSUME NEW v, NEW a, Opened(a), NEW n \in Nat
  PROVE  /\ Leads(v, <<AssertOne>>, Up(Looping(a, n), 1), Up(Looping(a, n), 1))
         /\ Ended(a, Up(Looping(a, n), 1), 1, "any")
<1> DEFINE d == Looping(a, n)
           x == Up(d, 1)
<1>1. d \in Height /\ d.len = a.len /\ d.outer = a.outer /\ d.frames # <<>>
      /\ Front(d.frames) = Front(a.frames) /\ Top(d).len = a.len
  BY LoopingParts
<1> HIDE DEF d
<1>2. x \in Height /\ x.len = d.len + 1 /\ x.frames = d.frames /\ x.outer = d.outer
      /\ x.pop = "any"
  BY <1>1, RestParts
<1> HIDE DEF x
<1>3. Frames(x, AssertOne, x)
  <2>1. x.frames # <<>> /\ x.len = Top(x).len + 1
    BY <1>1, <1>2 DEF Top
  <2> QED
    BY <1>2, <2>1 DEF Frames, AssertOne
<1>4. Goes(v, x, AssertOne, x)
  BY <1>2, <1>3 DEF Goes
<1>5. Leads(v, <<AssertOne>>, x, x)
  BY <1>4, LeadsOne
<1>6. Ended(a, x, 1, "any")
  BY <1>1, <1>2 DEF Ended
<1> QED
  BY <1>5, <1>6 DEF x, d

\* What a lambda is made of.
LEMMA BodyOfLambda ==
  ASSUME NEW e, NEW params, IsLambda(Hir, e, params)
  PROVE  IsBody(Hir, e.body) /\ AreDefinitions(Hir, e.guards)
<1>1. e \in Hir /\ e.k = "lambda"
  BY DEF IsLambda
<1>2. FormedBlocks(Hir, e)
  BY <1>1, HirAssumption DEF WellFormed, FormedOperation
<1> QED
  BY <1>1, <1>2 DEF FormedBlocks, FormedFunction

\* emit_control_block, with one parameter or none.
LEMMA ControlBlockLeads ==
  ASSUME NEW v, NEW a \in Height, NEW e, NEW n \in {0, 1}, IsLambda(Hir, e, n),
         ~Mute(e.body), NEW k \in Nat
  PROVE  \E m \in {0, 1} :
           k + m \in Nat /\ Leads(v, ControlBlockSteps(e), Up(a, k + n), Up(a, k + m))
<1> DEFINE q == Repeat(n, Store)
           g == GuardDefinitions(e)
           b == Block(e.body)
           i == k + n
<1>b. PICK m \in {0, 1} : Does(v, b, m)
  BY BodyOfLambda, DoesCalling
<1>1. Does(v, Store, 0 - 1)
  BY DoesWriting
<1>2. i \in Int /\ i - n = k /\ n \in Nat
  OBVIOUS
<1>3. Leads(v, q, Up(a, i), Up(a, k))
  <2>1. Room(a, i - n)
    BY <1>2, RoomsAbove
  <2> HIDE DEF i
  <2>2. Leads(v, q, Up(a, i), Up(a, i - n))
    BY <1>1, <1>2, <2>1, RepeatSinks
  <2> QED
    BY <1>2, <2>2
<1>4. Leads(v, <<b>>, Up(a, k), Up(a, k + m)) /\ k + m \in Nat
  <2> HIDE DEF b
  <2> QED
    BY <1>b, OneOrNone
<1>g. Leads(v, g, Up(a, k), Up(a, k))
  BY BodyOfLambda, GuardsStay
<1>5. ControlBlockSteps(e) = (q \o g) \o <<b>>
  BY DEF ControlBlockSteps, IsLambda
<1> HIDE DEF q, g, b, i
<1>6. Leads(v, (q \o g) \o <<b>>, Up(a, i), Up(a, k + m))
  BY <1>3, <1>g, <1>4, LeadsOn3
<1> QED
  BY <1>4, <1>5, <1>6 DEF i

\* emit_for_instr
LEMMA ForLeads ==
  ASSUME NEW v, NEW a, Opened(a), NEW e, IsValue(Hir, e.iter), IsLambda(Hir, e.body, 1),
         ~Mute(e.body.body)
  PROVE  \E b : Leads(v, ForSteps(v, e), Up(a, 0), b) /\ Ended(a, b, 1, "any")
<1> DEFINE c == Expr(e.iter)
           g == Put("GET_ITER", 0)
           j == Jump("FOR_ITER")
           i == Inc(1)
           body == ControlBlockSteps(e.body)
           l == PopLoop(1)
           w == Jump(IF Is311(v) THEN "JUMP_BACKWARD" ELSE "JUMP_ABSOLUTE")
           f == FillForward(1, 2 + 2)
           x == Dec(1)
           o == Const("obj")
           d == Looping(a, 2)
<1>1. a \in Height /\ d \in Height
  <2>1. 2 \in Nat
    OBVIOUS
  <2> QED
    BY <2>1, LoopingParts DEF Opened
<1>2. /\ Does(v, c, 1) /\ Does(v, g, 0) /\ Does(v, j, 0) /\ Does(v, i, 1)
      /\ Does(v, w, 0) /\ Does(v, FillBack, 0) /\ Does(v, f, 0) /\ Does(v, x, 0 - 1)
      /\ Does(v, o, 1)
  BY DoesCalling, DoesJumping, DoesWriting
<1>3. Leads(v, <<Base>>, Up(a, 2), Up(d, 2))
  <2>1. 2 \in Nat
    OBVIOUS
  <2> QED
    BY <2>1, BaseLeads
<1>4. \E m \in {1, 2} : Leads(v, body, Up(d, 2), Up(d, m))
  <2> HIDE DEF d
  <2>1. 1 \in Nat /\ 1 \in {0, 1} /\ 1 + 1 = 2 /\ 1 + 0 = 1
    OBVIOUS
  <2>2. PICK m \in {0, 1} : Leads(v, body, Up(d, 1 + 1), Up(d, 1 + m))
    BY <1>1, <2>1, ControlBlockLeads
  <2> QED
    BY <2>1, <2>2
<1>m. PICK m \in {1, 2} : Leads(v, body, Up(d, 2), Up(d, m))
  BY <1>4
<1>5. Leads(v, <<l>>, Up(d, m), Up(d, 1))
  <2>1. 2 \in Nat /\ 1 \in 0 .. 2 /\ 2 - 1 = 1 /\ m \in Nat /\ m \in {2 - 1, (2 - 1) + 1}
    OBVIOUS
  <2>2. Leads(v, <<PopLoop(1)>>, Up(Looping(a, 2), m), Up(Looping(a, 2), 2 - 1))
    BY <2>1, PopLoopLeads
  <2> QED
    BY <2>1, <2>2
<1>6. Leads(v, <<AssertOne>>, Up(d, 1), Up(d, 1)) /\ Ended(a, Up(d, 1), 1, "any")
  <2>1. 2 \in Nat
    OBVIOUS
  <2> QED
    BY <2>1, LoopEnds
<1>7. ForSteps(v, e) =
        (<<c, g, j, i, Base>> \o body) \o <<l, w, FillBack, f, x, o, AssertOne>>
  BY DEF ForSteps
<1> HIDE DEF c, g, j, i, body, l, w, f, x, o, d
<1>8. Leads(v, <<c, g, j, i, Base>>, Up(a, 0), Up(d, 2))
  <2>1. /\ Leads(v, <<c>>, Up(a, 0), Up(a, 1)) /\ Leads(v, <<g>>, Up(a, 1), Up(a, 1))
        /\ Leads(v, <<j>>, Up(a, 1), Up(a, 1)) /\ Leads(v, <<i>>, Up(a, 1), Up(a, 2))
    BY <1>1, <1>2, OneUp, NoMove
  <2> QED
    BY <1>3, <2>1, LeadsBy5
<1>9. Leads(v, <<l, w, FillBack, f, x, o, AssertOne>>, Up(d, m), Up(d, 1))
  <2>1. /\ Leads(v, <<w>>, Up(d, 1), Up(d, 1)) /\ Leads(v, <<FillBack>>, Up(d, 1), Up(d, 1))
        /\ Leads(v, <<f>>, Up(d, 1), Up(d, 1)) /\ Leads(v, <<x>>, Up(d, 1), Up(d, 0))
        /\ Leads(v, <<o>>, Up(d, 0), Up(d, 1))
    BY <1>1, <1>2, OneUp, NoMove, OneDown
  <2> QED
    BY <1>5, <1>6, <2>1, LeadsBy7
<1>10. Leads(v, ForSteps(v, e), Up(a, 0), Up(d, 1))
  BY <1>m, <1>7, <1>8, <1>9, LeadsOn3
<1> QED
  BY <1>6, <1>10

\* emit_while_instr
LEMMA WhileLeads ==
  ASSUME NEW v, NEW a, Opened(a), NEW e, IsValue(Hir, e.cond), IsLambda(Hir, e.body, 0),
         ~Mute(e.body.body)
  PROVE  \E b : Leads(v, WhileSteps(v, e), Up(a, 0), b) /\ Ended(a, b, 1, "any")
<1> DEFINE c == Expr(e.cond)
           j == Jump("POP_JUMP_IF_FALSE")
           x == Dec(1)
           body == ControlBlockSteps(e.body)
           l == PopLoop(0)
           w == Jump(IF Is311(v) THEN "POP_JUMP_BACKWARD_IF_TRUE" ELSE "POP_JUMP_IF_TRUE")
           f == FillTest(1, 3)
           o == Const("obj")
           d == Looping(a, 0)
<1>1. a \in Height /\ d \in Height
  <2>1. 0 \in Nat
    OBVIOUS
  <2> QED
    BY <2>1, LoopingParts DEF Opened
<1>2. /\ Does(v, c, 1) /\ Does(v, j, 0) /\ Does(v, x, 0 - 1) /\ Does(v, w, 0)
      /\ Does(v, FillBackTest, 0) /\ Does(v, f, 0) /\ Does(v, o, 1)
  BY DoesCalling, DoesJumping, DoesWriting
<1>3. Leads(v, <<Base>>, Up(a, 0), Up(d, 0))
  <2>1. 0 \in Nat
    OBVIOUS
  <2> QED
    BY <2>1, BaseLeads
<1>4. \E m \in {0, 1} : Leads(v, body, Up(d, 0), Up(d, m))
  <2> HIDE DEF d
  <2>1. 0 \in Nat /\ 0 \in {0, 1} /\ 0 + 1 = 1 /\ 0 + 0 = 0
    OBVIOUS
  <2>2. PICK m \in {0, 1} : Leads(v, body, Up(d, 0 + 0), Up(d, 0 + m))
    BY <1>1, <2>1, ControlBlockLeads
  <2> QED
    BY <2>1, <2>2
<1>m. PICK m \in {0, 1} : Leads(v, body, Up(d, 0), Up(d, m))
  BY <1>4
<1>5. Leads(v, <<l>>, Up(d, m), Up(d, 0))
  <2>1. 0 \in Nat /\ m \in Nat /\ 0 \in 0 .. 0 /\ 0 - 0 = 0 /\ m \in {0 - 0, (0 - 0) + 1}
    OBVIOUS
  <2>2. Leads(v, <<PopLoop(0)>>, Up(Looping(a, 0), m), Up(Looping(a, 0), 0 - 0))
    BY <2>1, PopLoopLeads
  <2> QED
    BY <2>1, <2>2
<1>6. Leads(v, <<AssertOne>>, Up(d, 1), Up(d, 1)) /\ Ended(a, Up(d, 1), 1, "any")
  <2>1. 0 \in Nat
    OBVIOUS
  <2> QED
    BY <2>1, LoopEnds
<1>7. WhileSteps(v, e) =
        (<<c, j, x, Base>> \o body) \o <<l, c, w, FillBackTest, x, f, o, AssertOne>>
  BY DEF WhileSteps
<1> HIDE DEF c, j, x, body, l, w, f, o, d
<1>8. Leads(v, <<c, j, x, Base>>, Up(a, 0), Up(d, 0))
  <2>1. /\ Leads(v, <<c>>, Up(a, 0), Up(a, 1)) /\ Leads(v, <<j>>, Up(a, 1), Up(a, 1))
        /\ Leads(v, <<x>>, Up(a, 1), Up(a, 0))
    BY <1>1, <1>2, OneUp, NoMove, OneDown
  <2> QED
    BY <1>3, <2>1, LeadsBy4
<1>9. Leads(v, <<l, c, w, FillBackTest, x, f, o, AssertOne>>, Up(d, m), Up(d, 1))
  <2>1. /\ Leads(v, <<c>>, Up(d, 0), Up(d, 1)) /\ Leads(v, <<w>>, Up(d, 1), Up(d, 1))
        /\ Leads(v, <<FillBackTest>>, Up(d, 1), Up(d, 1))
        /\ Leads(v, <<x>>, Up(d, 1), Up(d, 0)) /\ Leads(v, <<f>>, Up(d, 0), Up(d, 0))
        /\ Leads(v, <<o>>, Up(d, 0), Up(d, 1))
    BY <1>1, <1>2, OneUp, NoMove, OneDown
  <2> QED
    BY <1>5, <1>6, <2>1, LeadsBy8
<1>10. Leads(v, WhileSteps(v, e), Up(a, 0), Up(d, 1))
  BY <1>m, <1>7, <1>8, <1>9, LeadsOn3
<1> QED
  BY <1>6, <1>10

-----------------------------------------------------------------------------
(* with: what is on the stack with the value of the block differs from one *)
(* version to the other.                                                   *)

\* The block of emit_with_instr, its value stashed.
LEMMA WithBlockLeads ==
  ASSUME NEW v, NEW a \in Height, NEW e, IsLambda(Hir, e, 1), Leaves(e.body), NEW k \in {0, 2}
  PROVE  /\ Leads(v, WithBlockSteps(e), Up(a, k + 1), Up(a, k + 1))
         /\ Leads(v, <<Store>>, Up(a, k + 1), Up(a, k))
<1> DEFINE q == Repeat(1, Store)
           b == Block(e.body)
<1>1. Does(v, b, 1) /\ Does(v, Store, 0 - 1) /\ k \in Nat
  BY BodyOfLambda, DoesCalling, DoesWriting
<1>2. Leads(v, <<Store>>, Up(a, k + 1), Up(a, k))
  BY <1>1, OneDown
<1>3. q = <<Store>>
  BY DEF Repeat
<1>4. Leads(v, <<b>>, Up(a, k), Up(a, k + 1))
  <2> HIDE DEF b
  <2> QED
    BY <1>1, OneUp
<1>5. WithBlockSteps(e) = q \o <<b>>
  BY DEF WithBlockSteps, IsLambda
<1> HIDE DEF q, b
<1>6. Leads(v, q \o <<b>>, Up(a, k + 1), Up(a, k + 1))
  BY <1>2, <1>3, <1>4, LeadsOn
<1> QED
  BY <1>2, <1>5, <1>6

\* Up to 3.8 the machine itself clears up after the block.
LEMMA OldExitLeads ==
  ASSUME NEW v \in {7, 8}, NEW a \in Height
  PROVE  /\ Leads(v, ExitSteps(v), Up(a, 0), Up(a, 0))
         /\ Leads(v, <<EditSetup, Put("WITH_CLEANUP_FINISH", 0), Put("END_FINALLY", 0)>>,
                  Up(a, 0), Up(a, 0))
<1> DEFINE p == Put("POP_BLOCK", 0)
           o == Const("obj")
           d == Dec(1)
           c == Put("WITH_CLEANUP_START", 0)
           b == Put("BEGIN_FINALLY", 0)
           f == Put("WITH_CLEANUP_FINISH", 0)
           g == Put("END_FINALLY", 0)
           exit == ExitSteps(v)
<1>1. /\ Does(v, p, 0) /\ Does(v, o, 1) /\ Does(v, d, 0 - 1) /\ Does(v, c, 0) /\ Does(v, b, 0)
      /\ Does(v, f, 0) /\ Does(v, g, 0) /\ Does(v, EditSetup, 0)
  BY DoesWriting, DoesJumping
<1>2. (v = 7 => exit = <<p, o, d, c>>) /\ (v = 8 => exit = <<p, b, c>>)
  BY DEF ExitSteps
<1> HIDE DEF p, o, d, c, b, f, g
<1>3. /\ Leads(v, <<p>>, Up(a, 0), Up(a, 0)) /\ Leads(v, <<o>>, Up(a, 0), Up(a, 1))
      /\ Leads(v, <<d>>, Up(a, 1), Up(a, 0)) /\ Leads(v, <<c>>, Up(a, 0), Up(a, 0))
      /\ Leads(v, <<b>>, Up(a, 0), Up(a, 0)) /\ Leads(v, <<f>>, Up(a, 0), Up(a, 0))
      /\ Leads(v, <<g>>, Up(a, 0), Up(a, 0)) /\ Leads(v, <<EditSetup>>, Up(a, 0), Up(a, 0))
  BY <1>1, OneUp, NoMove, OneDown
<1>4. Leads(v, exit, Up(a, 0), Up(a, 0))
  <2>1. CASE v = 7
    <3>1. Leads(v, <<p, o, d, c>>, Up(a, 0), Up(a, 0))
      BY <1>3, LeadsBy4
    <3> QED
      BY <1>2, <2>1, <3>1
  <2>2. CASE v = 8
    <3>1. Leads(v, <<p, b, c>>, Up(a, 0), Up(a, 0))
      BY <1>3, LeadsBy3
    <3> QED
      BY <1>2, <2>2, <3>1
  <2> QED
    BY <2>1, <2>2
<1>5. Leads(v, <<EditSetup, f, g>>, Up(a, 0), Up(a, 0))
  BY <1>3, LeadsBy3
<1> QED
  BY <1>4, <1>5 DEF f, g

\* Since 3.9 __exit__ is called with three arguments, and then again in the handler.
LEMMA ExitLeads ==
  ASSUME NEW v \in {9, 10}, NEW a \in Height
  PROVE  /\ Leads(v, ExitSteps(v), Up(a, 2), Up(a, 1))
         /\ Leads(v, <<Mark, Put("JUMP_FORWARD", 0)>> \o HandlerSteps(v), Up(a, 1), Up(a, 0))
<1> DEFINE p == Put("POP_BLOCK", 0)
           o == Const("obj")
           t == Put("DUP_TOP", 0)
           i == Inc(1)
           c == Put("CALL_FUNCTION", 3)
           d == Dec(3)
           j == Put("JUMP_FORWARD", 0)
           w == Put("WITH_EXCEPT_START", 0)
           x == Put("POP_JUMP_IF_TRUE", 0)
           r == Put("RERAISE", 1)
           f == Put("POP_EXCEPT", 0)
<1>1. /\ Does(v, p, 0) /\ Does(v, o, 1) /\ Does(v, t, 0) /\ Does(v, i, 1) /\ Does(v, c, 0)
      /\ Does(v, PopTop, 0 - 1) /\ Does(v, Mark, 0) /\ Does(v, j, 0) /\ Does(v, w, 0)
      /\ Does(v, x, 0) /\ Does(v, r, 0) /\ Does(v, f, 0)
  BY DoesWriting, DoesJumping
<1>2. Leads(v, <<d>>, Up(a, 5), Up(a, 2))
  <2>1. 2 \in Nat /\ 3 \in Nat /\ 2 + 3 = 5
    OBVIOUS
  <2>2. Leads(v, <<Dec(3)>>, Up(a, 2 + 3), Up(a, 2))
    BY <2>1, DecLeads
  <2> QED
    BY <2>1, <2>2
<1>3. ExitSteps(v) = <<p, o, t, i, t, i, c, d, PopTop>>
  BY DEF ExitSteps
<1>4. HandlerSteps(v) = <<w, x, r, PopTop, f>>
  BY DEF HandlerSteps, Is311
<1> HIDE DEF p, o, t, i, c, d, j, w, x, r, f
<1>5. Leads(v, <<p, o, t, i, t, i, c, d>>, Up(a, 2), Up(a, 2))
  <2>1. /\ Leads(v, <<p>>, Up(a, 2), Up(a, 2)) /\ Leads(v, <<o>>, Up(a, 2), Up(a, 3))
        /\ Leads(v, <<t>>, Up(a, 3), Up(a, 3)) /\ Leads(v, <<i>>, Up(a, 3), Up(a, 4))
        /\ Leads(v, <<t>>, Up(a, 4), Up(a, 4)) /\ Leads(v, <<i>>, Up(a, 4), Up(a, 5))
        /\ Leads(v, <<c>>, Up(a, 5), Up(a, 5))
    BY <1>1, OneUp, NoMove
  <2> QED
    BY <1>2, <2>1, LeadsBy8
<1>6. Leads(v, <<PopTop>>, Up(a, 2), Up(a, 1)) /\ Leads(v, <<PopTop>>, Up(a, 1), Up(a, 0))
  BY <1>1, OneDown
<1>7. Leads(v, ExitSteps(v), Up(a, 2), Up(a, 1))
  <2>1. <<p, o, t, i, t, i, c, d, PopTop>> = <<p, o, t, i, t, i, c, d>> \o <<PopTop>>
    OBVIOUS
  <2> QED
    BY <1>3, <1>5, <1>6, <2>1, LeadsOn
<1>8. Leads(v, <<Mark, j>>, Up(a, 1), Up(a, 1))
  <2>1. Leads(v, <<Mark>>, Up(a, 1), Up(a, 1)) /\ Leads(v, <<j>>, Up(a, 1), Up(a, 1))
    BY <1>1, NoMove
  <2> QED
    BY <2>1, LeadsPair
<1>9. Leads(v, HandlerSteps(v), Up(a, 1), Up(a, 0))
  <2>1. /\ Leads(v, <<w>>, Up(a, 1), Up(a, 1)) /\ Leads(v, <<x>>, Up(a, 1), Up(a, 1))
        /\ Leads(v, <<r>>, Up(a, 1), Up(a, 1)) /\ Leads(v, <<f>>, Up(a, 0), Up(a, 0))
    BY <1>1, NoMove
  <2> QED
    BY <1>4, <1>6, <2>1, LeadsBy5
<1>10. Leads(v, <<Mark, j>> \o HandlerSteps(v), Up(a, 1), Up(a, 0))
  BY <1>8, <1>9, LeadsOn
<1> QED
  BY <1>7, <1>10 DEF j

\* The exit of a with and its exception handler, in 3.11.
LEMMA NewExitLeads ==
  ASSUME NEW a \in Height
  PROVE  /\ Leads(11, ExitSteps(11), Up(a, 2), Up(a, 3))
         /\ Leads(11, <<Mark, Put("JUMP_FORWARD", 0)>> \o HandlerSteps(11), Up(a, 3), Up(a, 0))
<1> DEFINE o == Const("obj")
           c == CallInstr(2, "CALL")
           j == Put("JUMP_FORWARD", 0)
           h == Put("PUSH_EXC_INFO", 0)
           w == Put("WITH_EXCEPT_START", 0)
           x == Put("POP_JUMP_IF_TRUE", 4)
           r == Put("RERAISE", 0)
           y == Put("COPY", 3)
           f == Put("POP_EXCEPT", 0)
           s == Put("RERAISE", 1)
<1>1. /\ Does(11, o, 1) /\ Does(11, PopTop, 0 - 1) /\ Does(11, Mark, 0) /\ Does(11, j, 0)
      /\ Does(11, h, 0) /\ Does(11, w, 0) /\ Does(11, x, 0) /\ Does(11, r, 0) /\ Does(11, y, 0)
      /\ Does(11, f, 0) /\ Does(11, s, 0)
  BY DoesWriting, DoesJumping
<1>2. Does(11, c, 0 - 1)
  BY DoesNull DEF Null
<1>3. ExitSteps(11) = <<o, o, o, c, PopTop>>
  BY DEF ExitSteps
<1>4. HandlerSteps(11) = <<h, w, x, r, y, f, s, PopTop, f, PopTop, PopTop>>
  BY DEF HandlerSteps, Is311
<1> HIDE DEF o, c, j, h, w, x, r, y, f, s
<1>5. Leads(11, ExitSteps(11), Up(a, 2), Up(a, 3))
  <2>1. /\ Leads(11, <<o>>, Up(a, 2), Up(a, 3)) /\ Leads(11, <<o>>, Up(a, 3), Up(a, 4))
        /\ Leads(11, <<o>>, Up(a, 4), Up(a, 5)) /\ Leads(11, <<c>>, Up(a, 5), Up(a, 4))
        /\ Leads(11, <<PopTop>>, Up(a, 4), Up(a, 3))
    BY <1>1, <1>2, OneUp, OneDown
  <2> QED
    BY <1>3, <2>1, LeadsBy5
<1>6. Leads(11, <<Mark, j>>, Up(a, 3), Up(a, 3))
  <2>1. Leads(11, <<Mark>>, Up(a, 3), Up(a, 3)) /\ Leads(11, <<j>>, Up(a, 3), Up(a, 3))
    BY <1>1, NoMove
  <2> QED
    BY <2>1, LeadsPair
<1>7. Leads(11, HandlerSteps(11), Up(a, 3), Up(a, 0))
  <2>1. /\ Leads(11, <<h>>, Up(a, 3), Up(a, 3)) /\ Leads(11, <<w>>, Up(a, 3), Up(a, 3))
        /\ Leads(11, <<x>>, Up(a, 3), Up(a, 3)) /\ Leads(11, <<r>>, Up(a, 3), Up(a, 3))
    BY <1>1, NoMove
  <2>2. /\ Leads(11, <<y>>, Up(a, 3), Up(a, 3)) /\ Leads(11, <<f>>, Up(a, 3), Up(a, 3))
        /\ Leads(11, <<s>>, Up(a, 3), Up(a, 3)) /\ Leads(11, <<f>>, Up(a, 2), Up(a, 2))
    BY <1>1, NoMove
  <2>3. /\ Leads(11, <<PopTop>>, Up(a, 3), Up(a, 2)) /\ Leads(11, <<PopTop>>, Up(a, 2), Up(a, 1))
        /\ Leads(11, <<PopTop>>, Up(a, 1), Up(a, 0))
    BY <1>1, OneDown
  <2>4. Leads(11, <<h, w, x, r>>, Up(a, 3), Up(a, 3))
    BY <2>1, LeadsBy4
  <2>5. Leads(11, <<y, f, s, PopTop>>, Up(a, 3), Up(a, 2))
    BY <2>2, <2>3, LeadsBy4
  <2>6. Leads(11, <<f, PopTop, PopTop>>, Up(a, 2), Up(a, 0))
    BY <2>2, <2>3, LeadsBy3
  <2>7. <<h, w, x, r, y, f, s, PopTop, f, PopTop, PopTop>>
          = (<<h, w, x, r>> \o <<y, f, s, PopTop>>) \o <<f, PopTop, PopTop>>
    <3>1. <<h, w, x, r, y, f, s, PopTop, f, PopTop, PopTop>>
            = <<h, w, x, r, y, f, s, PopTop>> \o <<f, PopTop, PopTop>>
      OBVIOUS
    <3>2. <<h, w, x, r, y, f, s, PopTop>> = <<h, w, x, r>> \o <<y, f, s, PopTop>>
      OBVIOUS
    <3> QED
      BY <3>1, <3>2
  <2> QED
    BY <1>4, <2>4, <2>5, <2>6, <2>7, LeadsOn3
<1>8. Leads(11, <<Mark, j>> \o HandlerSteps(11), Up(a, 3), Up(a, 0))
  BY <1>6, <1>7, LeadsOn
<1> QED
  BY <1>5, <1>8 DEF j

\* emit_with_instr, after the block.
LEMMA AfterBlockLeads ==
  ASSUME NEW v \in Versions, NEW a \in Height
  PROVE  \E b : /\ Leads(v, ExitSteps(v), Up(a, IF v <= 8 THEN 0 ELSE 2), b)
                /\ Leads(v, IF v <= 8
                            THEN <<EditSetup, Put("WITH_CLEANUP_FINISH", 0),
                                   Put("END_FINALLY", 0)>>
                            ELSE <<Mark, Put("JUMP_FORWARD", 0)>> \o HandlerSteps(v)
                                   \o <<EditForward>>, b, Up(a, 0))
<1> DEFINE exit == ExitSteps(v)
           h == <<Mark, Put("JUMP_FORWARD", 0)>> \o HandlerSteps(v)
           old == <<EditSetup, Put("WITH_CLEANUP_FINISH", 0), Put("END_FINALLY", 0)>>
<1>1. v \in {7, 8} \/ v \in {9, 10} \/ v = 11
  BY DEF Versions
<1>2. CASE v \in {7, 8}
  <2>1. v <= 8
    BY <1>2
  <2>2. Leads(v, exit, Up(a, 0), Up(a, 0)) /\ Leads(v, old, Up(a, 0), Up(a, 0))
    BY <1>2, OldExitLeads
  <2> QED
    BY <2>1, <2>2
<1>3. CASE v \in {9, 10} \/ v = 11
  <2>1. ~(v <= 8)
    BY <1>3
  <2>2. PICK b : Leads(v, exit, Up(a, 2), b) /\ Leads(v, h, b, Up(a, 0))
    BY <1>3, ExitLeads, NewExitLeads
  <2>3. Leads(v, <<EditForward>>, Up(a, 0), Up(a, 0))
    BY DoesJumping, NoMove
  <2> HIDE DEF exit, h, old
  <2>4. Leads(v, h \o <<EditForward>>, b, Up(a, 0))
    BY <2>2, <2>3, LeadsOn
  <2> QED
    BY <2>1, <2>2, <2>4 DEF exit, h, old
<1> QED
  BY <1>1, <1>2, <1>3

\* with (emit_with_instr_311, _310, _309, _308, _307).
LEMMA WithLeads ==
  ASSUME NEW v \in Versions, NEW a, Opened(a), NEW e, IsValue(Hir, e.expr),
         IsLambda(Hir, e.body, 1), Leaves(e.body.body)
  PROVE  Leads(v, WithSteps(v, e), Up(a, 0), Up(a, 1))
<1> DEFINE k == IF v <= 8 THEN 0 ELSE 2
           c == Expr(e.expr)
           p == Put(IF Is311(v) THEN "BEFORE_WITH" ELSE "SETUP_WITH", 0)
           q == <<c, Mark, p>>
           i == When(v >= 9, <<Inc(2)>>)
           body == WithBlockSteps(e.body)
           s == <<Store>>
           exit == ExitSteps(v)
           tail == IF v <= 8
                   THEN <<EditSetup, Put("WITH_CLEANUP_FINISH", 0), Put("END_FINALLY", 0)>>
                   ELSE <<Mark, Put("JUMP_FORWARD", 0)>> \o HandlerSteps(v) \o <<EditForward>>
           end == <<Name, AssertOne>>
<1>1. a \in Height
  BY DEF Opened
<1>2. Leads(v, q, Up(a, 0), Up(a, 1))
  <2>1. Does(v, c, 1) /\ Does(v, Mark, 0) /\ Does(v, p, 0)
    BY DoesCalling, DoesJumping, DoesWriting
  <2> HIDE DEF c, p
  <2>2. /\ Leads(v, <<c>>, Up(a, 0), Up(a, 1)) /\ Leads(v, <<Mark>>, Up(a, 1), Up(a, 1))
        /\ Leads(v, <<p>>, Up(a, 1), Up(a, 1))
    BY <1>1, <2>1, OneUp, NoMove
  <2> QED
    BY <2>2, LeadsBy3
<1>3. Leads(v, i, Up(a, 1), Up(a, k + 1))
  <2>1. CASE v <= 8
    <3>1. ~(v >= 9) /\ k = 0
      BY <2>1 DEF Versions
    <3>2. Leads(v, <<>>, Up(a, 1), Up(a, 1))
      BY <1>1, RoomsAbove, LeadsNowhere
    <3> QED
      BY <3>1, <3>2 DEF When
  <2>2. CASE ~(v <= 8)
    <3>1. v >= 9 /\ k = 2
      BY <2>2 DEF Versions
    <3>2. Leads(v, <<Inc(2)>>, Up(a, 1), Up(a, 3))
      <4> DEFINE t == Inc(2)
      <4>1. Does(v, t, 2)
        BY DoesWriting
      <4>2. 1 \in Nat /\ 3 \in Nat /\ 2 \in Int /\ 3 = 1 + 2
        OBVIOUS
      <4> HIDE DEF t
      <4>3. Leads(v, <<t>>, Up(a, 1), Up(a, 3))
        BY <1>1, <4>1, <4>2, Move
      <4> QED
        BY <4>3 DEF t
    <3> QED
      BY <3>1, <3>2 DEF When
  <2> QED
    BY <2>1, <2>2
<1>4. Leads(v, body, Up(a, k + 1), Up(a, k + 1)) /\ Leads(v, s, Up(a, k + 1), Up(a, k))
  <2>1. k \in {0, 2}
    OBVIOUS
  <2> HIDE DEF k
  <2> QED
    BY <1>1, <2>1, WithBlockLeads
<1>5. PICK b : Leads(v, exit, Up(a, k), b) /\ Leads(v, tail, b, Up(a, 0))
  BY <1>1, AfterBlockLeads
<1>6. Leads(v, end, Up(a, 0), Up(a, 1))
  <2>1. Leads(v, <<Name>>, Up(a, 0), Up(a, 1))
    BY <1>1, DoesWriting, OneUp
  <2> QED
    BY <2>1, AssertLeads, LeadsPair
<1>7. WithSteps(v, e) = (((((q \o i) \o body) \o s) \o exit) \o tail) \o end
  BY DEF WithSteps
<1> HIDE DEF q, i, body, s, exit, tail, end, k
<1>8. Leads(v, ((q \o i) \o body) \o s, Up(a, 0), Up(a, k))
  BY <1>2, <1>3, <1>4, LeadsOn4
<1>9. Leads(v, (((((q \o i) \o body) \o s) \o exit) \o tail) \o end, Up(a, 0), Up(a, 1))
  BY <1>5, <1>6, <1>8, LeadsOn4
<1> QED
  BY <1>7, <1>9

-----------------------------------------------------------------------------
(* match                                                                   *)

\* An arm leaves the matched value for the next one, the last arm consumes it.
LEMMA DoesMatching ==
  ASSUME NEW v, NEW arm, FormedArm(Hir, arm), NEW isLast \in BOOLEAN
  PROVE  /\ Leaves(arm.body) => Does(v, Arm(arm, isLast), IF isLast THEN 0 - 1 ELSE 0)
         /\ \A i \in 1 .. Len(arm.guards) : Does(v, Guard(arm, i, isLast), 0)
BY DEF Does, Counting, Gain, Arm, Guard

\* emit_match_pattern: what is tested is popped, or its count taken.
LEMMA GuardLeads ==
  ASSUME NEW v, NEW a \in Height, NEW arm, FormedArm(Hir, arm), NEW i \in 1 .. Len(arm.guards),
         NEW isLast \in BOOLEAN
  PROVE  Leads(v, GuardSteps(arm, i, isLast), Up(a, 0), Up(a, 0))
<1> DEFINE guard == arm.guards[i]
           c == Expr(guard.cond)
           d == Chunk(guard.def)
           j == Jump("POP_JUMP_IF_FALSE")
           h == GuardHeld(arm, i)
           tested == IF isLast THEN <<PopTop>> ELSE <<j, h>>
<1>1. FormedGuard(Hir, guard)
  BY DEF FormedArm
<1>2. Does(v, j, 0) /\ Does(v, PopTop, 0 - 1) /\ Does(v, Dec(1), 0 - 1)
  BY DoesJumping, DoesWriting
<1>3. Does(v, h, 0 - 1)
  BY <1>2 DEF GuardHeld
<1>4. CASE guard.k = "bind"
  <2>1. Does(v, d, 0)
    BY <1>1, <1>4, DoesCalling DEF FormedGuard
  <2> HIDE DEF d
  <2>2. Leads(v, <<d>>, Up(a, 0), Up(a, 0))
    BY <2>1, NoMove
  <2>3. GuardSteps(arm, i, isLast) = <<d>>
    BY <1>4 DEF GuardSteps, d
  <2> QED
    BY <2>2, <2>3
<1>5. CASE guard.k = "condition"
  <2>1. Does(v, c, 1)
    BY <1>1, <1>5, DoesCalling DEF FormedGuard
  <2>2. GuardSteps(arm, i, isLast) = <<c>> \o tested
    BY <1>5 DEF GuardSteps
  <2> HIDE DEF c, j, h
  <2>3. Leads(v, <<c>>, Up(a, 0), Up(a, 1))
    BY <2>1, OneUp
  <2>4. Leads(v, tested, Up(a, 1), Up(a, 0))
    <3>1. /\ Leads(v, <<j>>, Up(a, 1), Up(a, 1)) /\ Leads(v, <<h>>, Up(a, 1), Up(a, 0))
          /\ Leads(v, <<PopTop>>, Up(a, 1), Up(a, 0))
      BY <1>2, <1>3, NoMove, OneDown
    <3> QED
      BY <3>1, LeadsPair
  <2> HIDE DEF tested
  <2> QED
    BY <2>2, <2>3, <2>4, LeadsOn
<1>6. CASE guard.k = "skipped"
  <2>1. GuardSteps(arm, i, isLast) = <<>>
    BY <1>6 DEF GuardSteps
  <2> QED
    BY <2>1, RoomsAbove, LeadsNowhere
<1> QED
  BY <1>1, <1>4, <1>5, <1>6 DEF FormedGuard

\* The object that is matched, or its copy, is gone when the block begins.
LEMMA PatternLeads ==
  ASSUME NEW v, NEW a \in Height, NEW arm, FormedArm(Hir, arm), NEW isLast \in BOOLEAN
  PROVE  Leads(v, PatternSteps(arm, isLast), Up(a, 1), Up(a, 0))
<1> DEFINE n == Len(arm.guards)
           s == IF arm.named THEN Store ELSE PopTop
           q == [i \in 1 .. n |-> Guard(arm, i, isLast)]
           T == {Guard(arm, i, isLast) : i \in 1 .. n}
<1>1. n \in Nat /\ \A i \in 1 .. n : Does(v, Guard(arm, i, isLast), 0)
  BY DoesMatching DEF FormedArm
<1>2. Does(v, s, 0 - 1)
  BY DoesWriting
<1>3. q \in Seq(T) /\ Len(q) = n /\ \A i \in 1 .. n : q[i] = Guard(arm, i, isLast)
  BY <1>1
<1>4. PatternSteps(arm, isLast) = <<s>> \o q
  BY DEF PatternSteps
<1> HIDE DEF s, q, T, n
<1>5. Leads(v, <<s>>, Up(a, 1), Up(a, 0))
  BY <1>2, OneDown
<1>6. Leads(v, q, Up(a, 0), Up(a, 0))
  <2>1. \A i \in 1 .. Len(q) : Does(v, q[i], 0)
    BY <1>1, <1>3
  <2>2. Room(a, 0) /\ 0 \in Int
    BY RoomsAbove
  <2> QED
    BY <1>3, <2>1, <2>2, Stays
<1> QED
  BY <1>4, <1>5, <1>6, LeadsOn

\* An arm that is not the last works on a copy.
LEMMA ArmLeads ==
  ASSUME NEW v, NEW a \in Height, NEW arm, FormedArm(Hir, arm), Leaves(arm.body)
  PROVE  /\ Leads(v, ArmSteps(arm, FALSE), Up(a, 0), Up(a, 0))
         /\ Leads(v, ArmSteps(arm, TRUE), Up(a, 1), Up(a, 0))
<1> DEFINE t == Put("DUP_TOP", 0)
           i == Inc(1)
           b == Block(arm.body)
           d == Dec(1)
           tail == <<b, d, FillArm, JumpToEnd>>
<1>1. /\ Does(v, t, 0) /\ Does(v, i, 1) /\ Does(v, d, 0 - 1) /\ Does(v, FillArm, 0)
      /\ Does(v, JumpToEnd, 0)
  BY DoesWriting, DoesJumping
<1>2. Does(v, b, 1)
  BY DoesCalling DEF FormedArm
<1>3. /\ ArmSteps(arm, FALSE) = (<<t, i>> \o PatternSteps(arm, FALSE)) \o tail
      /\ ArmSteps(arm, TRUE) = (<<>> \o PatternSteps(arm, TRUE)) \o tail
  BY DEF ArmSteps, When
<1> HIDE DEF t, i, b, d
<1>4. Leads(v, tail, Up(a, 0), Up(a, 0))
  <2>1. /\ Leads(v, <<b>>, Up(a, 0), Up(a, 1)) /\ Leads(v, <<d>>, Up(a, 1), Up(a, 0))
        /\ Leads(v, <<FillArm>>, Up(a, 0), Up(a, 0)) /\ Leads(v, <<JumpToEnd>>, Up(a, 0), Up(a, 0))
    BY <1>1, <1>2, OneUp, NoMove, OneDown
  <2> QED
    BY <2>1, LeadsBy4
<1>5. Leads(v, <<t, i>>, Up(a, 0), Up(a, 1))
  <2>1. Leads(v, <<t>>, Up(a, 0), Up(a, 0)) /\ Leads(v, <<i>>, Up(a, 0), Up(a, 1))
    BY <1>1, OneUp, NoMove
  <2> QED
    BY <2>1, LeadsPair
<1>6. Leads(v, <<>>, Up(a, 1), Up(a, 1))
  BY RoomsAbove, LeadsNowhere
<1> HIDE DEF tail
<1> QED
  BY <1>3, <1>4, <1>5, <1>6, PatternLeads, LeadsOn3

\* emit_match_instr
LEMMA MatchLeads ==
  ASSUME NEW v, NEW a, Opened(a), NEW e, IsValue(Hir, e.expr), Len(e.arms) \in Nat \ {0},
         \A i \in 1 .. Len(e.arms) : FormedArm(Hir, e.arms[i]) /\ Leaves(e.arms[i].body)
  PROVE  Leads(v, MatchSteps(e), Up(a, 0), Up(a, 1))
<1> DEFINE n == Len(e.arms)
           c == Expr(e.expr)
           q == [i \in 1 .. n |-> Arm(e.arms[i], i = n)]
           T == {Arm(e.arms[i], i = n) : i \in 1 .. n}
           h == [i \in 1 .. n + 1 |-> IF i <= n THEN 1 ELSE 0]
           i1 == Inc(1)
           end == <<FillEnds, i1, AssertOne>>
<1>1. a \in Height /\ n \in Nat \ {0}
  BY DEF Opened
<1>2. Does(v, c, 1) /\ Does(v, FillEnds, 0) /\ Does(v, i1, 1)
  BY DoesCalling, DoesJumping, DoesWriting
<1>3. MatchSteps(e) = (<<c>> \o q) \o end
  BY DEF MatchSteps
<1>4. ASSUME NEW i \in 1 .. n
      PROVE  Does(v, Arm(e.arms[i], i = n), IF i = n THEN 0 - 1 ELSE 0)
  <2> DEFINE isLast == i = n
             arm == e.arms[i]
  <2>1. FormedArm(Hir, arm) /\ Leaves(arm.body) /\ isLast \in BOOLEAN
    OBVIOUS
  <2> HIDE DEF isLast, arm
  <2>2. Does(v, Arm(arm, isLast), IF isLast THEN 0 - 1 ELSE 0)
    BY <2>1, DoesMatching
  <2> QED
    BY <2>2 DEF isLast, arm
<1>5. q \in Seq(T) /\ Len(q) = n /\ \A i \in 1 .. n : q[i] = Arm(e.arms[i], i = n)
  BY <1>1
<1> HIDE DEF T, q, n
<1>6. /\ h \in Seq(Int) /\ Len(h) = n + 1
      /\ \A i \in 1 .. n + 1 : h[i] = IF i <= n THEN 1 ELSE 0
  BY <1>1
<1> HIDE DEF h
<1>7. Leads(v, q, Up(a, 1), Up(a, 0))
  <2>1. h[1] = 1 /\ h[Len(h)] = 0
    BY <1>1, <1>6
  <2>2. \A i \in 1 .. Len(h) : Room(a, h[i])
    <3>1. Room(a, 0) /\ Room(a, 1)
      BY <1>1, RoomsAbove
    <3> QED
      BY <1>6, <3>1
  <2>3. \A i \in 1 .. Len(q) : Takes(v, q[i], h[i], h[i + 1])
    <3> SUFFICES ASSUME NEW i \in 1 .. n PROVE Takes(v, q[i], h[i], h[i + 1])
      BY <1>5
    <3> DEFINE d == IF i = n THEN 0 - 1 ELSE 0
    <3>1. h[i] = 1 /\ h[i + 1] = h[i] + d /\ h[i + 1] \in Int /\ d \in Int
      BY <1>1, <1>6
    <3>2. Does(v, q[i], d)
      BY <1>4, <1>5
    <3> HIDE DEF d
    <3> QED
      BY <3>1, <3>2, TakesBy
  <2>4. Len(h) = Len(q) + 1
    BY <1>5, <1>6
  <2>5. Leads(v, q, Up(a, h[1]), Up(a, h[Len(h)]))
    BY <1>1, <1>5, <1>6, <2>2, <2>3, <2>4, Climbs
  <2> QED
    BY <2>1, <2>5
<1>8. Leads(v, end, Up(a, 0), Up(a, 1))
  <2> HIDE DEF i1
  <2>1. Leads(v, <<FillEnds>>, Up(a, 0), Up(a, 0)) /\ Leads(v, <<i1>>, Up(a, 0), Up(a, 1))
    BY <1>1, <1>2, OneUp, NoMove
  <2> QED
    BY <2>1, AssertLeads, LeadsBy3
<1>9. Leads(v, <<c>>, Up(a, 0), Up(a, 1))
  <2> HIDE DEF c
  <2> QED
    BY <1>1, <1>2, OneUp
<1> HIDE DEF c, end
<1> QED
  BY <1>3, <1>7, <1>8, <1>9, LeadsOn3

-----------------------------------------------------------------------------
(* What functions and classes are made of.                                 *)

\* An instruction other than POP_TOP is last.
LEMMA PutKept ==
  ASSUME NEW v, NEW a \in Height, NEW k \in Nat, NEW op, op # "POP_TOP", NEW arg
  PROVE  Leads(v, <<Put(op, arg)>>, Up(a, k), Kept(a, k))
<1> DEFINE x == Up(a, k)
           y == Kept(a, k)
           s == Put(op, arg)
<1>0. Room(a, k) /\ k \in Int /\ a.len \in Nat
  BY RoomsAbove, HeightParts
<1>1. /\ x \in Height /\ x.len = a.len + k /\ x.frames = a.frames /\ x.outer = a.outer
      /\ y \in Height /\ y.len = a.len + k /\ y.pop = "no" /\ y.frames = a.frames
      /\ y.outer = a.outer
  BY <1>0, UpParts
<1>2. Counting(s) /\ Gain(v, s) = 0 /\ Flag(x, s) = "no" /\ s.do # "block"
  BY DEF Counting, Gain, Flag, Put
<1> HIDE DEF x, y, s
<1>3. y.len = x.len + 0
  BY <1>0, <1>1
<1>4. Counts(v, x, s, y)
  BY <1>1, <1>2, <1>3 DEF Counts
<1>5. Goes(v, x, s, y)
  BY <1>1, <1>4 DEF Goes
<1> QED
  BY <1>5, LeadsOne DEF x, y, s

\* emit_params: the defaults become one object.
LEMMA ParamsLead ==
  ASSUME NEW v, NEW a \in Height, NEW es, AreValues(Hir, es), NEW varParams \in BOOLEAN
  PROVE  Leads(v, ParamSteps(es, varParams), Up(a, 0), Up(a, IF es = <<>> THEN 0 ELSE 1))
<1> DEFINE n == Len(es)
           q == Exprs(es)
           o == Const("obj")
           d == Dec(1)
           m == Put("BUILD_CONST_KEY_MAP", n)
           t == Put("BUILD_TUPLE", n)
           r == IF varParams THEN <<o, d, m>> ELSE <<t>>
           f == <<Dec(n - 1)>>
<1>1. CASE es = <<>>
  BY <1>1, RoomsAbove, LeadsNowhere DEF ParamSteps, When
<1>2. CASE es # <<>>
  <2>1. n \in Nat /\ n # 0 /\ es \in Seq(Hir)
    BY <1>2, NoElements DEF AreValues
  <2>2. Leads(v, q, Up(a, 0), Up(a, n))
    <3>1. Leads(v, q, Up(a, 0), Up(a, 0 + n))
      BY ExprsLead
    <3>2. 0 + n = n
      BY <2>1
    <3> QED
      BY <3>1, <3>2
  <2>3. Does(v, o, 1) /\ Does(v, d, 0 - 1) /\ Does(v, m, 0) /\ Does(v, t, 0)
    BY DoesWriting
  <2>4. Leads(v, f, Up(a, n), Up(a, 1))
    <3> DEFINE j == n - 1
    <3>1. j \in Nat /\ 1 + j = n
      BY <2>1
    <3> HIDE DEF j, n
    <3>2. Leads(v, <<Dec(j)>>, Up(a, 1 + j), Up(a, 1))
      BY <3>1, DecLeads
    <3> QED
      BY <3>1, <3>2 DEF j
  <2>5. ParamSteps(es, varParams) = (q \o r) \o f
    BY <1>2 DEF ParamSteps, When
  <2> HIDE DEF n, q, o, d, m, t, f
  <2>6. Leads(v, r, Up(a, n), Up(a, n))
    <3>1. /\ Leads(v, <<o>>, Up(a, n), Up(a, n + 1)) /\ Leads(v, <<d>>, Up(a, n + 1), Up(a, n))
          /\ Leads(v, <<m>>, Up(a, n), Up(a, n)) /\ Leads(v, <<t>>, Up(a, n), Up(a, n))
      BY <2>1, <2>3, OneUp, NoMove, OneDown
    <3>2. Leads(v, <<o, d, m>>, Up(a, n), Up(a, n))
      BY <3>1, LeadsBy3
    <3> QED
      BY <3>1, <3>2
  <2> HIDE DEF r
  <2>7. Leads(v, (q \o r) \o f, Up(a, 0), Up(a, 1))
    BY <2>2, <2>4, <2>6, LeadsOn3
  <2> QED
    BY <1>2, <2>5, <2>7
<1> QED
  BY <1>1, <1>2

\* enclose_vars counts nothing.
LEMMA EncloseLeads ==
  ASSUME NEW v, NEW a \in Height, NEW n \in Nat, NEW k \in Nat
  PROVE  Leads(v, EncloseSteps(n), Up(a, k), Up(a, k))
<1> DEFINE s == Put("LOAD_CLOSURE", 0)
           t == Put("BUILD_CLOSURE", n)
           q == Repeat(n, s)
<1>1. Does(v, s, 0) /\ Does(v, t, 0)
  BY DoesWriting
<1>2. Room(a, k) /\ k \in Int
  BY RoomsAbove
<1>3. EncloseSteps(n) = IF n > 0 THEN q \o <<t>> ELSE <<>>
  BY DEF EncloseSteps, When
<1> HIDE DEF s, t
<1>4. Leads(v, q, Up(a, k), Up(a, k))
  BY <1>1, <1>2, RepeatStays
<1>5. Leads(v, <<t>>, Up(a, k), Up(a, k))
  BY <1>1, NoMove
<1>6. Leads(v, <<>>, Up(a, k), Up(a, k))
  BY RoomsAbove, LeadsNowhere
<1> HIDE DEF q
<1>7. Leads(v, q \o <<t>>, Up(a, k), Up(a, k))
  BY <1>4, <1>5, LeadsOn
<1> QED
  BY <1>3, <1>6, <1>7

\* The code, and before 3.11 the name, are counted.
LEMMA MakeFunctionLeads ==
  ASSUME NEW v, NEW a \in Height, NEW flags, NEW k \in Nat
  PROVE  Leads(v, MakeFunctionSteps(v, flags), Up(a, k), Up(a, k + 2))
<1> DEFINE c == Const("code")
           i == IF Is311(v) THEN Inc(1) ELSE Const("obj")
           m == Put("MAKE_FUNCTION", flags)
           l == k + 1
<1>1. Does(v, c, 1) /\ Does(v, i, 1) /\ Does(v, m, 0)
  BY DoesWriting
<1>2. l \in Nat /\ k + 2 = l + 1 /\ l + 1 \in Nat
  OBVIOUS
<1>3. MakeFunctionSteps(v, flags) = <<c, i, m>>
  BY DEF MakeFunctionSteps
<1>4. Leads(v, <<c>>, Up(a, k), Up(a, l))
  <2> HIDE DEF c
  <2> QED
    BY <1>1, OneUp
<1> HIDE DEF c, i, m, l
<1>5. Leads(v, <<i>>, Up(a, l), Up(a, l + 1)) /\ Leads(v, <<m>>, Up(a, l + 1), Up(a, l + 1))
  BY <1>1, <1>2, OneUp, NoMove
<1>6. Leads(v, <<c, i, m>>, Up(a, k), Up(a, l + 1))
  BY <1>4, <1>5, LeadsBy3
<1> QED
  BY <1>2, <1>3, <1>6

\* Parameters, block and closure of a function.
FunctionParts(v, e) ==
  (ParamSteps(e.defaults, e.varParams) \o Nested(FunctionStart(v, e), e.body))
    \o EncloseSteps(e.captured)
DefaultsLen(e) == IF e.defaults = <<>> THEN 0 ELSE 1

\* The parts a function is made of: its defaults and its captured variables.
LEMMA FunctionPartsLead ==
  ASSUME NEW v, NEW a \in Height, NEW e, FormedFunction(Hir, e), ~Mute(e.body)
  PROVE  Leads(v, FunctionParts(v, e), Up(a, 0), Up(a, DefaultsLen(e)))
<1> DEFINE p == DefaultsLen(e)
           q == ParamSteps(e.defaults, e.varParams)
           r == Nested(FunctionStart(v, e), e.body)
           s == EncloseSteps(e.captured)
<1>1. p \in Nat
  BY DEF DefaultsLen
<1>2. /\ AreValues(Hir, e.defaults) /\ e.varParams \in BOOLEAN
      /\ e.captured \in Nat /\ e.body \in Seq(Hir)
  BY DEF FormedFunction, IsBody
<1>3. Leads(v, q, Up(a, 0), Up(a, p))
  BY <1>2, ParamsLead DEF DefaultsLen
<1>4. Leads(v, r, Up(a, p), Up(a, p))
  <2> DEFINE x == Up(a, p)
  <2>1. x \in Height /\ Up(x, 0) = x
    <3>1. Room(a, p) /\ p \in Int
      BY <1>1, RoomsAbove
    <3> HIDE DEF p
    <3> QED
      BY <3>1, UpAgain
  <2> HIDE DEF x
  <2>2. Leads(v, r, x, Up(x, 0))
    BY <1>2, <2>1, FunctionBlockLeads
  <2> QED
    BY <2>1, <2>2 DEF x
<1>5. Leads(v, s, Up(a, p), Up(a, p))
  <2> HIDE DEF p
  <2> QED
    BY <1>1, <1>2, EncloseLeads
<1>6. FunctionParts(v, e) = (q \o r) \o s
  BY DEF FunctionParts
<1> HIDE DEF p, q, r, s
<1>7. Leads(v, (q \o r) \o s, Up(a, 0), Up(a, p))
  BY <1>3, <1>4, <1>5, LeadsOn3
<1> QED
  BY <1>6, <1>7 DEF p

\* After MAKE_FUNCTION: what is counted too much is taken again.
LEMMA MadeLeads ==
  ASSUME NEW v, NEW a \in Height, NEW e
  PROVE  /\ Leads(v, <<Dec(1)>>, Up(a, DefaultsLen(e) + 2), Up(a, DefaultsLen(e) + 1))
         /\ Leads(v, When(e.defaults # <<>>, <<Dec(1)>>), Up(a, DefaultsLen(e) + 1), Up(a, 1))
<1> DEFINE d == Dec(1)
           r == When(e.defaults # <<>>, <<d>>)
<1>1. Does(v, d, 0 - 1)
  BY DoesWriting
<1> HIDE DEF d
<1>2. /\ Leads(v, <<d>>, Up(a, 3), Up(a, 2)) /\ Leads(v, <<d>>, Up(a, 2), Up(a, 1))
  BY <1>1, OneDown
<1>3. Leads(v, <<>>, Up(a, 1), Up(a, 1))
  BY RoomsAbove, LeadsNowhere
<1>4. CASE e.defaults = <<>>
  <2>1. r = <<>> /\ DefaultsLen(e) + 2 = 2 /\ DefaultsLen(e) + 1 = 1
    BY <1>4 DEF When, DefaultsLen
  <2> QED
    BY <1>2, <1>3, <2>1 DEF d
<1>5. CASE e.defaults # <<>>
  <2>1. r = <<d>> /\ DefaultsLen(e) + 2 = 3 /\ DefaultsLen(e) + 1 = 2
    BY <1>5 DEF When, DefaultsLen
  <2> QED
    BY <1>2, <2>1 DEF d
<1> QED
  BY <1>4, <1>5

-----------------------------------------------------------------------------
(* Definitions: at their end the count is as it was.                       *)

\* emit_lambda
LEMMA LambdaLeads ==
  ASSUME NEW v, NEW a \in Height, NEW e, FormedFunction(Hir, e), ~Mute(e.body),
         e.varParams => e.defaults = <<>>
  PROVE  Leads(v, LambdaSteps(v, e), Up(a, 0), Up(a, 1))
<1> DEFINE p == DefaultsLen(e)
           q == FunctionParts(v, e)
           m == MakeFunctionSteps(v, Flags(e))
           d == <<Dec(1)>>
           r == When(e.defaults # <<>>, <<Dec(1)>>)
<1>1. "defaults" \in Flags(e) <=> e.defaults # <<>>
  BY DEF Flags
<1>2. LambdaSteps(v, e) = ((q \o m) \o d) \o r
  BY <1>1 DEF LambdaSteps, FunctionParts, When
<1>3. Leads(v, q, Up(a, 0), Up(a, p))
  BY FunctionPartsLead
<1>4. Leads(v, m, Up(a, p), Up(a, p + 2))
  <2>1. p \in Nat
    BY DEF DefaultsLen
  <2> HIDE DEF p
  <2> QED
    BY <2>1, MakeFunctionLeads
<1>5. Leads(v, d, Up(a, p + 2), Up(a, p + 1)) /\ Leads(v, r, Up(a, p + 1), Up(a, 1))
  BY MadeLeads
<1> HIDE DEF p, q, m, d, r
<1>6. Leads(v, ((q \o m) \o d) \o r, Up(a, 0), Up(a, 1))
  BY <1>3, <1>4, <1>5, LeadsOn4
<1> QED
  BY <1>2, <1>6

\* The decorators are called, one after the other.
DecorateSteps(v, n) ==
  IF Is311(v) THEN Repeat(n, CallInstr(0, "CALL_FUNCTION"))
  ELSE Each(Repeat(n, Dec(1)), CallInstr(1, "CALL_FUNCTION"))

\* A decorator is called with what is below it.
LEMMA DecorateLeads ==
  ASSUME NEW v, NEW a \in Height, NEW n \in Nat, NEW k \in Nat
  PROVE  Leads(v, DecorateSteps(v, n), Up(a, k + n), Up(a, k))
<1> DEFINE c == CallInstr(0, "CALL_FUNCTION")
           f == CallInstr(1, "CALL_FUNCTION")
           d == Dec(1)
           j == k + n
           q == Repeat(n, d)
<1>1. j \in Int /\ j - n = k /\ j \in Nat
  OBVIOUS
<1>2. DecorateSteps(v, n) = IF v >= 11 THEN Repeat(n, c) ELSE Each(q, f)
  BY DEF DecorateSteps, Is311
<1>3. CASE v >= 11
  <2>1. Does(v, c, 0 - 1)
    BY <1>3, DoesNull DEF Null
  <2>2. Room(a, j - n)
    BY <1>1, RoomsAbove
  <2> HIDE DEF c, j
  <2>3. Leads(v, Repeat(n, c), Up(a, j), Up(a, j - n))
    BY <1>1, <2>1, <2>2, RepeatSinks
  <2> QED
    BY <1>1, <1>2, <1>3, <2>3 DEF j
<1>4. CASE ~(v >= 11)
  <2>1. Does(v, f, 0) /\ Does(v, d, 0 - 1)
    <3>1. Does(v, f, 0 - Null(v)) /\ Null(v) = 0
      BY <1>4, DoesNull DEF Null
    <3>2. Does(v, d, 0 - 1)
      BY DoesWriting
    <3> HIDE DEF f, d
    <3> QED
      BY <3>1, <3>2
  <2> HIDE DEF f, d, j
  <2>2. q \in Seq({d}) /\ Len(q) = n /\ \A i \in 1 .. n : q[i] = d
    BY RepeatParts
  <2> DEFINE p == [i \in 1 .. n + 1 |-> Up(a, (j - i) + 1)]
             m == [i \in 1 .. n |-> Up(a, j - i)]
  <2>3. ASSUME NEW i \in 0 .. n
        PROVE  /\ Up(a, j - i) \in Height /\ Up(a, j - i).len = a.len + (j - i)
               /\ Up(a, j - i).pop = "any" /\ Up(a, j - i).frames = a.frames
               /\ Up(a, j - i).outer = a.outer
    <3> DEFINE l == j - i
    <3>1. l \in Nat
      BY <1>1 DEF j
    <3> HIDE DEF l
    <3>2. /\ Up(a, l) \in Height /\ Up(a, l).len = a.len + l /\ Up(a, l).pop = "any"
          /\ Up(a, l).frames = a.frames /\ Up(a, l).outer = a.outer
      BY <3>1, RoomsAbove, UpParts
    <3> QED
      BY <3>2 DEF l
  <2>4. ASSUME NEW i \in 1 .. n + 1
        PROVE  p[i] \in Height /\ p[i] = Up(a, j - (i - 1))
    <3>1. i - 1 \in 0 .. n /\ (j - i) + 1 = j - (i - 1)
      BY <1>1
    <3>2. p[i] = Up(a, (j - i) + 1)
      OBVIOUS
    <3> QED
      BY <2>3, <3>1, <3>2
  <2>5. ASSUME NEW i \in 1 .. n
        PROVE  m[i] \in Height /\ m[i] = Up(a, j - i)
    BY <2>3
  <2>6. p \in Seq(Height) /\ Len(p) = n + 1 /\ m \in Seq(Height) /\ Len(m) = n
    BY <2>4, <2>5
  <2> HIDE DEF p, m
  <2>7. ASSUME NEW i \in 1 .. n
        PROVE  Goes(v, p[i], q[i], m[i]) /\ Goes(v, m[i], f, p[i + 1])
    <3> DEFINE x == Up(a, j - (i - 1))
               y == Up(a, j - i)
    <3>1. p[i] = x /\ m[i] = y /\ q[i] = d
      <4>1. i \in 1 .. n + 1
        OBVIOUS
      <4> QED
        BY <2>2, <2>4, <2>5, <4>1
    <3>2. p[i + 1] = y
      <4>1. i + 1 \in 1 .. n + 1 /\ (i + 1) - 1 = i
        OBVIOUS
      <4> QED
        BY <2>4, <4>1
    <3>3. /\ x \in Height /\ x.len = a.len + (j - (i - 1)) /\ x.pop = "any"
          /\ x.frames = a.frames /\ x.outer = a.outer
      <4>1. i - 1 \in 0 .. n
        OBVIOUS
      <4> QED
        BY <2>3, <4>1
    <3>4. /\ y \in Height /\ y.len = a.len + (j - i) /\ y.pop = "any"
          /\ y.frames = a.frames /\ y.outer = a.outer
      BY <2>3
    <3> HIDE DEF x, y
    <3>5. y.len = x.len + (0 - 1) /\ y.len = y.len + 0 /\ 0 - 1 \in Int /\ 0 \in Int
      BY <1>1, <3>3, <3>4, HeightParts
    <3>6. Goes(v, x, d, y)
      BY <2>1, <3>3, <3>4, <3>5, DoesGoes
    <3>7. Goes(v, y, f, y)
      BY <2>1, <3>4, <3>5, DoesGoes
    <3> QED
      BY <3>1, <3>2, <3>6, <3>7
  <2> HIDE DEF q
  <2>8. Leads(v, Each(q, f), p[1], p[n + 1])
    BY <2>2, <2>6, <2>7, EachLeads
  <2>9. p[1] = Up(a, j) /\ p[n + 1] = Up(a, k)
    <3>1. 1 \in 1 .. n + 1 /\ n + 1 \in 1 .. n + 1 /\ j - (1 - 1) = j /\ j - ((n + 1) - 1) = k
      BY <1>1
    <3>2. p[1] = Up(a, j - (1 - 1)) /\ p[n + 1] = Up(a, j - ((n + 1) - 1))
      BY <2>4, <3>1
    <3> QED
      BY <3>1, <3>2
  <2> QED
    BY <1>2, <1>4, <2>8, <2>9 DEF j
<1> QED
  BY <1>3, <1>4

\* emit_subr_def
LEMMA SubrDefLeads ==
  ASSUME NEW v, NEW a \in Height, NEW e, FormedFunction(Hir, e), ~Mute(e.body),
         AreValues(Hir, e.decorators)
  PROVE  Leads(v, SubrDefSteps(v, e), Up(a, 0), Kept(a, 0))
<1> DEFINE p == DefaultsLen(e)
           n == Len(e.decorators)
           q == FunctionParts(v, e)
           x == Exprs(e.decorators)
           m == MakeFunctionSteps(v, Flags(e))
           c == DecorateSteps(v, n)
           d == <<Dec(1)>>
           r == When(e.defaults # <<>>, <<Dec(1)>>)
           s == <<Store>>
<1>1. SubrDefSteps(v, e) = (((((q \o x) \o m) \o c) \o d) \o r) \o s
  BY DEF SubrDefSteps, FunctionParts, DecorateSteps
<1>2. Leads(v, q, Up(a, 0), Up(a, p))
  BY FunctionPartsLead
<1>3. p \in Nat
  BY DEF DefaultsLen
<1>4. Leads(v, x, Up(a, p), Up(a, p + n)) /\ n \in Nat
  <2> HIDE DEF p
  <2> QED
    BY <1>3, ExprsLead
<1>5. Leads(v, m, Up(a, p + n), Up(a, (p + 2) + n))
  <2> DEFINE k == p + n
  <2>1. k \in Nat /\ k + 2 = (p + 2) + n
    BY <1>3, <1>4
  <2> HIDE DEF k, p, n
  <2>2. Leads(v, m, Up(a, k), Up(a, k + 2))
    BY <2>1, MakeFunctionLeads
  <2> QED
    BY <2>1, <2>2 DEF k
<1>6. Leads(v, c, Up(a, (p + 2) + n), Up(a, p + 2))
  <2> DEFINE k == p + 2
  <2>1. k \in Nat
    BY <1>3
  <2> HIDE DEF k, p, n
  <2>2. Leads(v, c, Up(a, k + n), Up(a, k))
    BY <1>4, <2>1, DecorateLeads
  <2> QED
    BY <2>2 DEF k
<1>7. Leads(v, d, Up(a, p + 2), Up(a, p + 1)) /\ Leads(v, r, Up(a, p + 1), Up(a, 1))
  BY MadeLeads
<1>8. Leads(v, s, Up(a, 1), Kept(a, 0))
  <2>1. Leads(v, s, Up(a, 0 + 1), Kept(a, 0))
    BY StoreKept
  <2> QED
    BY <2>1
<1> HIDE DEF p, n, q, x, m, c, d, r, s
<1>9. Leads(v, ((q \o x) \o m) \o c, Up(a, 0), Up(a, p + 2))
  BY <1>2, <1>4, <1>5, <1>6, LeadsOn4
<1>10. Leads(v, (((((q \o x) \o m) \o c) \o d) \o r) \o s, Up(a, 0), Kept(a, 0))
  BY <1>7, <1>8, <1>9, LeadsOn4
<1> QED
  BY <1>1, <1>10

\* emit_var_def
LEMMA VarDefLeads ==
  ASSUME NEW v, NEW a \in Height, NEW e, IsBody(Hir, e.body),
         Len(e.body) = 1 \/ Leaves(e.body)
  PROVE  Leads(v, VarDefSteps(e), Up(a, 0), Kept(a, 0))
<1> DEFINE b == e.body
           s == IF Len(b) = 1 THEN Expr(b[1]) ELSE Block(b)
<1>1. Does(v, s, 1)
  <2>1. CASE Len(b) = 1
    <3>1. b[1] = Last(b)
      BY <2>1 DEF Last
    <3> QED
      BY <2>1, <3>1, DoesCalling DEF IsBody
  <2>2. CASE Len(b) # 1
    BY <2>2, DoesCalling
  <2> QED
    BY <2>1, <2>2
<1>2. Leads(v, <<Store>>, Up(a, 1), Kept(a, 0))
  <2>1. Leads(v, <<Store>>, Up(a, 0 + 1), Kept(a, 0))
    BY StoreKept
  <2> QED
    BY <2>1
<1>3. VarDefSteps(e) = <<s, Store>>
  BY DEF VarDefSteps
<1> HIDE DEF s
<1>4. Leads(v, <<s>>, Up(a, 0), Up(a, 1))
  BY <1>1, OneUp
<1> QED
  BY <1>2, <1>3, <1>4, LeadsPair

\* emit_redef
LEMMA ReDefLeads ==
  ASSUME NEW v, NEW a \in Height, NEW e, IsBody(Hir, e.body), Leaves(e.body),
         IsValue(Hir, e.obj)
  PROVE  Leads(v, ReDefSteps(e), Up(a, 0), Kept(a, 0))
<1> DEFINE b == Block(e.body)
           o == Expr(e.obj)
           p == Put("STORE_ATTR", 0)
           d == Dec(1)
<1>1. Does(v, b, 1) /\ Does(v, o, 1)
  BY DoesCalling
<1>2. Leads(v, <<p>>, Up(a, 2), Kept(a, 2))
  <2>1. 2 \in Nat
    OBVIOUS
  <2> QED
    BY <2>1, PutKept
<1>3. Leads(v, <<d>>, Kept(a, 2), Kept(a, 1)) /\ Leads(v, <<d>>, Kept(a, 1), Kept(a, 0))
  <2>1. Leads(v, <<d>>, Kept(a, 1 + 1), Kept(a, 1)) /\ Leads(v, <<d>>, Kept(a, 0 + 1), Kept(a, 0))
    BY DecKept
  <2> QED
    BY <2>1
<1>4. ReDefSteps(e) = <<b, o, p, d, d>>
  BY DEF ReDefSteps
<1> HIDE DEF b, o, p, d
<1>5. Leads(v, <<b>>, Up(a, 0), Up(a, 1)) /\ Leads(v, <<o>>, Up(a, 1), Up(a, 2))
  BY <1>1, OneUp
<1>6. Leads(v, <<b, o, p, d, d>>, Up(a, 0), Kept(a, 0))
  BY <1>2, <1>3, <1>5, LeadsBy5
<1> QED
  BY <1>4, <1>6

\* A definition that ends with two on the count: one is stored.
LEMMA StoredLeads ==
  ASSUME NEW v, NEW a \in Height
  PROVE  Leads(v, <<Store, Dec(1)>>, Up(a, 2), Kept(a, 0))
<1>1. /\ Leads(v, <<Store>>, Up(a, 1 + 1), Kept(a, 1))
      /\ Leads(v, <<Dec(1)>>, Kept(a, 0 + 1), Kept(a, 0))
  BY StoreKept, DecKept
<1>2. Leads(v, <<Store>>, Up(a, 2), Kept(a, 1)) /\ Leads(v, <<Dec(1)>>, Kept(a, 1), Kept(a, 0))
  BY <1>1
<1> QED
  BY <1>2, LeadsPair

\* import
LEMMA ImportLeads ==
  ASSUME NEW v, NEW a \in Height
  PROVE  Leads(v, <<Const("obj"), Const("obj"), Put("IMPORT_NAME", 0), Store, Dec(1)>>,
               Up(a, 0), Kept(a, 0))
<1> DEFINE c == Const("obj")
           p == Put("IMPORT_NAME", 0)
           d == Dec(1)
<1>1. Does(v, c, 1) /\ Does(v, p, 0)
  BY DoesWriting
<1>2. Leads(v, <<Store, d>>, Up(a, 2), Kept(a, 0))
  BY StoredLeads
<1> HIDE DEF c, p, d
<1>3. /\ Leads(v, <<c>>, Up(a, 0), Up(a, 1)) /\ Leads(v, <<c>>, Up(a, 1), Up(a, 2))
      /\ Leads(v, <<p>>, Up(a, 2), Up(a, 2))
  BY <1>1, OneUp, NoMove
<1>4. Leads(v, <<c, c, p>>, Up(a, 0), Up(a, 2))
  BY <1>3, LeadsBy3
<1>5. <<c, c, p, Store, d>> = <<c, c, p>> \o <<Store, d>>
  OBVIOUS
<1>6. Leads(v, <<c, c, p, Store, d>>, Up(a, 0), Kept(a, 0))
  BY <1>2, <1>4, <1>5, LeadsOn
<1> QED
  BY <1>6 DEF c, p, d

\* emit_class_def and emit_trait_def begin in the same way.
LEMMA BuildClassLeads ==
  ASSUME NEW v, NEW a \in Height, NEW start, NEW block \in Seq(Hir),
         block = <<>> \/ ~Mute(block),
         \A y \in Height : y.pop = "any" => Leads(v, start, Up(y, 0), Up(y, 0))
  PROVE  Leads(v, (<<PushNull, Put("LOAD_BUILD_CLASS", 0), Inc(1)>> \o Nested(start, block))
                    \o MakeFunctionSteps(v, {}), Up(a, 0), Up(a, Null(v) + 3))
         /\ Null(v) + 3 \in Nat
<1> DEFINE z == Null(v)
           p == Put("LOAD_BUILD_CLASS", 0)
           i == Inc(1)
           k == z + 1
           q == Nested(start, block)
           m == MakeFunctionSteps(v, {})
<1>1. Does(v, PushNull, z) /\ Does(v, p, 0) /\ Does(v, i, 1) /\ z \in {0, 1}
  BY DoesNull, DoesWriting
<1>2. k \in Nat /\ z \in Nat /\ k + 2 = z + 3 /\ z + 3 \in Nat
  BY <1>1
<1> HIDE DEF p, i, z
<1>3. Leads(v, <<PushNull, p, i>>, Up(a, 0), Up(a, k))
  <2>1. 0 \in Nat /\ z \in Int /\ z = 0 + z
    BY <1>2
  <2>2. Leads(v, <<PushNull>>, Up(a, 0), Up(a, z))
    BY <1>1, <1>2, <2>1, Move
  <2>3. Leads(v, <<p>>, Up(a, z), Up(a, z)) /\ Leads(v, <<i>>, Up(a, z), Up(a, z + 1))
    BY <1>1, <1>2, OneUp, NoMove
  <2> QED
    BY <2>2, <2>3, LeadsBy3
<1> HIDE DEF k
<1>4. Leads(v, q, Up(a, k), Up(a, k))
  <2> DEFINE x == Up(a, k)
  <2>1. x \in Height /\ Up(x, 0) = x
    <3>1. Room(a, k) /\ k \in Int
      BY <1>2, RoomsAbove
    <3> QED
      BY <3>1, UpAgain
  <2> HIDE DEF x
  <2>2. Leads(v, q, x, Up(x, 0))
    BY <2>1, NestedLeads
  <2> QED
    BY <2>1, <2>2 DEF x
<1>5. Leads(v, m, Up(a, k), Up(a, k + 2))
  BY <1>2, MakeFunctionLeads
<1> HIDE DEF q, m
<1>6. Leads(v, (<<PushNull, p, i>> \o q) \o m, Up(a, 0), Up(a, k + 2))
  BY <1>3, <1>4, <1>5, LeadsOn3
<1> QED
  BY <1>2, <1>6 DEF p, i, q, m, z

\* emit_class_def
LEMMA ClassLeads ==
  ASSUME NEW v, NEW a \in Height, NEW e, AreValues(Hir, e.base), e.methods \in Seq(Hir),
         e.methods = <<>> \/ ~Mute(e.methods)
  PROVE  Leads(v, ClassDefSteps(v, e), Up(a, 0), Kept(a, 0))
<1> DEFINE z == Null(v)
           b == e.base
           n == Len(b)
           q == (<<PushNull, Put("LOAD_BUILD_CLASS", 0), Inc(1)>> \o Nested(ClassHeader, e.methods))
                  \o MakeFunctionSteps(v, {})
           c == Const("obj")
           x == Exprs(b)
           k == 2 + n
           f == CallInstr(k, "CALL_FUNCTION")
           d == Dec(k)
           u == Dec(1)
<1>1. Leads(v, q, Up(a, 0), Up(a, z + 3)) /\ z + 3 \in Nat
  <2> DEFINE start == ClassHeader
  <2>1. \A y \in Height : y.pop = "any" => Leads(v, start, Up(y, 0), Up(y, 0))
    BY HeaderStays
  <2> HIDE DEF start, z
  <2>2. Leads(v, (<<PushNull, Put("LOAD_BUILD_CLASS", 0), Inc(1)>> \o Nested(start, e.methods))
                   \o MakeFunctionSteps(v, {}), Up(a, 0), Up(a, Null(v) + 3))
        /\ Null(v) + 3 \in Nat
    BY <2>1, BuildClassLeads
  <2> QED
    BY <2>2 DEF start, z
<1>2. Leads(v, <<c>>, Up(a, z + 3), Up(a, (z + 3) + 1))
  <2> DEFINE l == z + 3
  <2>1. l \in Nat
    BY <1>1
  <2> HIDE DEF l, c
  <2>2. Does(v, c, 1)
    BY DoesWriting DEF c
  <2>3. Leads(v, <<c>>, Up(a, l), Up(a, l + 1))
    BY <2>1, <2>2, OneUp
  <2> QED
    BY <2>3 DEF l
<1>3. z \in Nat
  BY DoesNull
<1>4. n \in Nat /\ Leads(v, x, Up(a, (z + 3) + 1), Up(a, ((z + 3) + 1) + n))
  <2> DEFINE l == (z + 3) + 1
  <2>1. l \in Nat
    BY <1>3
  <2> HIDE DEF l, z
  <2>2. Leads(v, x, Up(a, l), Up(a, l + n)) /\ n \in Nat
    BY <2>1, ExprsLead
  <2> QED
    BY <2>2 DEF l
<1>5. Leads(v, <<f, d>>, Up(a, ((z + 3) + 1) + n), Up(a, 2))
  <2>1. ((z + 3) + 1) + n = (z + 2) + k /\ k \in Nat /\ 2 \in Nat
    <3> HIDE DEF z, n, x
    <3> QED
      BY <1>3, <1>4 DEF k
  <2> HIDE DEF k
  <2>2. Leads(v, <<f, d>>, Up(a, (Null(v) + 2) + k), Up(a, 2))
    BY <2>1, CallDecLeads
  <2> QED
    BY <2>1, <2>2
<1>6. Leads(v, <<Store, u>>, Up(a, 2), Kept(a, 0))
  BY StoredLeads
<1>7. ClassDefSteps(v, e) = ((q \o <<c>>) \o x) \o <<f, d, Store, u>>
  BY DEF ClassDefSteps
<1> HIDE DEF q, c, x, k, f, d, u, n, z
<1>8. <<f, d, Store, u>> = <<f, d>> \o <<Store, u>>
  OBVIOUS
<1>9. Leads(v, <<f, d, Store, u>>, Up(a, ((z + 3) + 1) + n), Kept(a, 0))
  BY <1>5, <1>6, <1>8, LeadsOn
<1>10. Leads(v, ((q \o <<c>>) \o x) \o <<f, d, Store, u>>, Up(a, 0), Kept(a, 0))
  BY <1>1, <1>2, <1>4, <1>9, LeadsOn4
<1> QED
  BY <1>7, <1>10

\* emit_trait_def: an abstract method leaves the count as it was.
LEMMA TraitLeads ==
  ASSUME NEW v, NEW a \in Height, NEW e, e.requires \in Nat
  PROVE  Leads(v, TraitDefSteps(v, e), Up(a, 0), Kept(a, 0))
<1> DEFINE z == Null(v)
           start == ClassHeader \o Repeat(e.requires, Requirement)
           q == (<<PushNull, Put("LOAD_BUILD_CLASS", 0), Inc(1)>> \o Nested(start, <<>>))
                  \o MakeFunctionSteps(v, {})
           c == Const("obj")
           kw == Put("KW_NAMES", 0)
           f == CallInstr(3, "CALL")
           d == Dec(3)
           g == Put("CALL_FUNCTION_KW", 3)
           h == Dec(4)
           w == IF Is311(v) THEN <<kw, f, d>> ELSE <<c, g, h>>
           s == <<Store, Dec(1)>>
<1>1. Leads(v, q, Up(a, 0), Up(a, z + 3)) /\ z + 3 \in Nat
  <2>1. \A y \in Height : y.pop = "any" => Leads(v, start, Up(y, 0), Up(y, 0))
    <3> SUFFICES ASSUME NEW y \in Height
                 PROVE  Leads(v, start, Up(y, 0), Up(y, 0))
      OBVIOUS
    <3> DEFINE r == Repeat(e.requires, Requirement)
    <3>1. Leads(v, ClassHeader, Up(y, 0), Up(y, 0))
      BY HeaderStays
    <3>2. Leads(v, r, Up(y, 0), Up(y, 0))
      <4>1. Room(y, 0) /\ 0 \in Int
        BY RestParts
      <4> QED
        BY <4>1, DoesCalling, RepeatStays
    <3> HIDE DEF r
    <3>3. Leads(v, ClassHeader \o r, Up(y, 0), Up(y, 0))
      BY <3>1, <3>2, LeadsOn
    <3> QED
      BY <3>3 DEF r
  <2> HIDE DEF start, z
  <2>2. <<>> \in Seq(Hir)
    OBVIOUS
  <2>3. Leads(v, (<<PushNull, Put("LOAD_BUILD_CLASS", 0), Inc(1)>> \o Nested(start, <<>>))
                   \o MakeFunctionSteps(v, {}), Up(a, 0), Up(a, Null(v) + 3))
        /\ Null(v) + 3 \in Nat
    BY <2>1, <2>2, BuildClassLeads
  <2> QED
    BY <2>3 DEF z
<1>2. /\ Does(v, c, 1) /\ Does(v, Name, 1) /\ Does(v, kw, 0) /\ Does(v, g, 0)
      /\ Does(v, h, 0 - 4)
  BY DoesWriting
<1>3. z \in {0, 1}
  BY DoesNull
<1>4. Leads(v, s, Up(a, 2), Kept(a, 0))
  BY StoredLeads
<1>5. TraitDefSteps(v, e) = ((q \o <<c, Name>>) \o w) \o s
  BY DEF TraitDefSteps
<1>6. CASE Is311(v)
  <2>1. z = 1 /\ w = <<kw, f, d>>
    BY <1>6 DEF Null, Is311
  <2>2. Leads(v, <<f, d>>, Up(a, 6), Up(a, 2))
    <3>1. Leads(v, <<f, d>>, Up(a, (Null(v) + 2) + 3), Up(a, 2))
      <4>1. 2 \in Nat /\ 3 \in Nat
        OBVIOUS
      <4> QED
        BY <4>1, CallDecLeads
    <3>2. (Null(v) + 2) + 3 = 6
      BY <2>1
    <3> QED
      BY <3>1, <3>2
  <2>3. Up(a, z + 3) = Up(a, 4)
    BY <2>1
  <2> HIDE DEF q, c, kw, f, d, g, h, s, z, w
  <2>4. Leads(v, <<c>>, Up(a, 4), Up(a, 5))
    BY <1>2, OneUp
  <2>5. Leads(v, <<Name>>, Up(a, 5), Up(a, 6))
    <3>1. 5 \in Nat /\ 6 \in Nat /\ 6 = 5 + 1 /\ 1 \in Int
      OBVIOUS
    <3> QED
      BY <1>2, <3>1, Move
  <2>6. Leads(v, <<kw>>, Up(a, 6), Up(a, 6))
    <3>1. 6 \in Nat /\ 6 = 6 + 0 /\ 0 \in Int
      OBVIOUS
    <3> QED
      BY <1>2, <3>1, Move
  <2>7. Leads(v, <<c, Name>>, Up(a, 4), Up(a, 6))
    BY <2>4, <2>5, LeadsPair
  <2>8. Leads(v, w, Up(a, 6), Up(a, 2))
    <3>1. <<kw, f, d>> = <<kw>> \o <<f, d>>
      OBVIOUS
    <3> QED
      BY <2>1, <2>2, <2>6, <3>1, LeadsOn
  <2>9. Leads(v, q, Up(a, 0), Up(a, 4))
    BY <1>1, <2>3
  <2>10. Leads(v, ((q \o <<c, Name>>) \o w) \o s, Up(a, 0), Kept(a, 0))
    BY <1>4, <2>7, <2>8, <2>9, LeadsOn4
  <2> QED
    BY <1>5, <2>10
<1>7. CASE ~Is311(v)
  <2>1. z = 0 /\ w = <<c, g, h>>
    BY <1>7 DEF Null, Is311
  <2>3. Up(a, z + 3) = Up(a, 3)
    BY <2>1
  <2> HIDE DEF q, c, kw, f, d, g, h, s, z, w
  <2>4. Leads(v, <<c>>, Up(a, 3), Up(a, 4)) /\ Leads(v, <<Name>>, Up(a, 4), Up(a, 5))
    BY <1>2, OneUp
  <2>5. Leads(v, <<c>>, Up(a, 5), Up(a, 6))
    <3>1. 5 \in Nat /\ 6 \in Nat /\ 6 = 5 + 1 /\ 1 \in Int
      OBVIOUS
    <3> QED
      BY <1>2, <3>1, Move
  <2>6. Leads(v, <<g>>, Up(a, 6), Up(a, 6)) /\ Leads(v, <<h>>, Up(a, 6), Up(a, 2))
    <3>1. 6 \in Nat /\ 2 \in Nat /\ 6 = 6 + 0 /\ 0 \in Int /\ 0 - 4 \in Int /\ 2 = 6 + (0 - 4)
      OBVIOUS
    <3> QED
      BY <1>2, <3>1, Move
  <2>7. Leads(v, <<c, Name>>, Up(a, 3), Up(a, 5))
    BY <2>4, LeadsPair
  <2>8. Leads(v, w, Up(a, 5), Up(a, 2))
    BY <2>1, <2>5, <2>6, LeadsBy3
  <2>9. Leads(v, q, Up(a, 0), Up(a, 3))
    BY <1>1, <2>3
  <2>10. Leads(v, ((q \o <<c, Name>>) \o w) \o s, Up(a, 0), Kept(a, 0))
    BY <1>4, <2>7, <2>8, <2>9, LeadsOn4
  <2> QED
    BY <1>5, <2>10
<1> QED
  BY <1>6, <1>7

\* emit_empty_func, whose block is a constant.
LEMMA EmptyBlockLeads ==
  ASSUME NEW v, NEW a \in Height
  PROVE  Leads(v, Nested(<<Const("obj")>>, <<>>), a, Up(a, 0))
<1> DEFINE y == Entered(a, "any")
           c == Const("obj")
           s == Block(<<>>)
           x == Up(y, 1)
<1>1. y \in Height /\ y.len = 0 /\ y.pop = "any" /\ y.frames = a.frames
  BY EnteredParts
<1>2. Leads(v, <<EnterBlock>>, a, y)
  BY EnterLeads
<1>3. y = Up(y, 0)
  BY <1>1, NoRise
<1>4. Leads(v, <<c>>, y, x)
  <2> HIDE DEF y, c, x
  <2>1. Does(v, c, 1)
    BY DoesWriting DEF c
  <2>2. Leads(v, <<c>>, Up(y, 0), Up(y, 1))
    BY <1>1, <2>1, OneUp
  <2> QED
    BY <1>3, <2>2 DEF x
<1>5. x \in Height /\ x.len <= 1 /\ x.frames = a.frames /\ x.outer = y.outer /\ x.pop = "any"
  <2> HIDE DEF y
  <2> QED
    BY <1>1, RestParts
<1> HIDE DEF x
<1>6. Leads(v, <<s>>, x, x)
  <2>1. x.len \in Nat /\ x.len = x.len + 0
    BY <1>5, HeightParts
  <2>2. Gain(v, s) = 0 /\ Counting(s) /\ Flag(x, s) = "any"
    <3>1. s.do = "block" /\ s.b = <<>>
      BY DEF Block
    <3>2. ~Leaves(<<>>) /\ <<>> \in Seq(Hir)
      BY DEF Leaves
    <3> HIDE DEF s
    <3>3. Gain(v, s) = 0
      BY <3>1, <3>2 DEF Gain
    <3>4. Counting(s)
      BY <3>1, <3>2 DEF Counting
    <3>5. Flag(x, s) = "any"
      BY <3>1 DEF Flag
    <3> QED
      BY <3>3, <3>4, <3>5
  <2>3. Counts(v, x, s, x)
    BY <1>5, <2>1, <2>2 DEF Counts
  <2>4. Goes(v, x, s, x)
    BY <1>5, <2>3 DEF Goes
  <2> QED
    BY <2>4, LeadsOne
<1>7. Leads(v, <<LeaveBlock>>, x, Up(a, 0))
  BY <1>5, LeaveLeads
<1>8. Nested(<<c>>, <<>>) = (<<EnterBlock>> \o <<c>>) \o <<s, LeaveBlock>>
  BY DEF Nested
<1> HIDE DEF y, c, s
<1>9. Leads(v, <<s, LeaveBlock>>, x, Up(a, 0))
  BY <1>6, <1>7, LeadsPair
<1>10. Leads(v, (<<EnterBlock>> \o <<c>>) \o <<s, LeaveBlock>>, a, Up(a, 0))
  BY <1>2, <1>4, <1>9, LeadsOn3
<1> QED
  BY <1>8, <1>10 DEF c

\* emit_empty_func: the method is stored.
LEMMA AbstractMethodLeads ==
  ASSUME NEW v, NEW a \in Height
  PROVE  Leads(v, AbstractMethodSteps(v), Up(a, 0), Up(a, 0))
<1> DEFINE z == Null(v)
           k == z + 1
           n == Nested(<<Const("obj")>>, <<>>)
           m == MakeFunctionSteps(v, {})
           f == CallInstr(1, "CALL_FUNCTION")
           d == Dec(1)
<1>1. Leads(v, <<PushNull, Name>>, Up(a, 0), Up(a, k)) /\ z \in {0, 1}
  BY NullNameLeads
<1>2. k \in Nat /\ k + 2 = (z + 2) + 1
  BY <1>1
<1> HIDE DEF k
<1>3. Leads(v, n, Up(a, k), Up(a, k))
  <2> DEFINE x == Up(a, k)
  <2>1. x \in Height /\ Up(x, 0) = x
    <3>1. Room(a, k) /\ k \in Int
      BY <1>2, RoomsAbove
    <3> QED
      BY <3>1, UpAgain
  <2> HIDE DEF x
  <2>2. Leads(v, n, x, Up(x, 0))
    BY <2>1, EmptyBlockLeads
  <2> QED
    BY <2>1, <2>2 DEF x
<1>4. Leads(v, m, Up(a, k), Up(a, k + 2))
  BY <1>2, MakeFunctionLeads
<1>5. Leads(v, <<f, d>>, Up(a, k + 2), Up(a, 2))
  <2>1. 1 \in Nat /\ 2 \in Nat
    OBVIOUS
  <2>2. Leads(v, <<f, d>>, Up(a, (Null(v) + 2) + 1), Up(a, 2))
    BY <2>1, CallDecLeads
  <2> QED
    BY <1>2, <2>2
<1>6. Does(v, d, 0 - 1) /\ Does(v, Store, 0 - 1)
  BY DoesWriting
<1>8. AbstractMethodSteps(v) = ((<<PushNull, Name>> \o n) \o m) \o <<f, d, d, Store>>
  BY DEF AbstractMethodSteps
<1> HIDE DEF z, n, m, f, d
<1>9. Leads(v, <<d>>, Up(a, 2), Up(a, 1)) /\ Leads(v, <<Store>>, Up(a, 1), Up(a, 0))
  BY <1>6, OneDown
<1>10. Leads(v, <<d, Store>>, Up(a, 2), Up(a, 0))
  BY <1>9, LeadsPair
<1>11. <<f, d, d, Store>> = <<f, d>> \o <<d, Store>>
  OBVIOUS
<1>12. Leads(v, <<f, d, d, Store>>, Up(a, k + 2), Up(a, 0))
  BY <1>5, <1>10, <1>11, LeadsOn
<1>13. Leads(v, ((<<PushNull, Name>> \o n) \o m) \o <<f, d, d, Store>>, Up(a, 0), Up(a, 0))
  BY <1>1, <1>3, <1>4, <1>12, LeadsOn4
<1> QED
  BY <1>8, <1>13

\* What is not miscounted has the values it needs.
LEMMA ValuesLeft ==
  ASSUME NEW e, ~Miscounted(e), ~Unsure(e)
  PROVE  /\ \A b \in ValueBlocks(e) : b # <<>> => Leaves(b)
         /\ \A b \in BranchBlocks(e) \union Bodies(e) : b # <<>> => ~Mute(b)
<1>1. ASSUME NEW b \in ValueBlocks(e), b # <<>>
      PROVE  Leaves(b)
  BY <1>1 DEF Miscounted, Unsure
<1>2. ASSUME NEW b \in BranchBlocks(e) \union Bodies(e), b # <<>>
      PROVE  ~Mute(b)
  BY <1>2 DEF Unsure
<1> QED
  BY <1>1, <1>2

-----------------------------------------------------------------------------
(* Every handler, by the kind of the expression.                           *)

\* Literals, names, attributes and operators, ...
LEMMA OperatorsLead ==
  ASSUME NEW v, NEW a \in Height, NEW e, e.k \in Operators, FormedOperation(Hir, e)
  PROVE  Leads(v, OperatorSteps(e), Up(a, 0), Up(a, 1))
<1>1. CASE e.k \in {"unary", "not"}
  <2>1. IsValue(Hir, e.expr) /\ OperatorSteps(e) = <<Expr(e.expr), Put("UNARY_OP", 0)>>
    BY <1>1 DEF FormedOperation, OperatorSteps
  <2> QED
    BY <2>1, UnaryLeads
<1>2. CASE e.k = "mutate"
  <2>1. /\ IsValue(Hir, e.expr)
        /\ OperatorSteps(e)
             = <<PushNull, Name, Expr(e.expr), CallInstr(1, "CALL_FUNCTION"), Dec(1)>>
    BY <1>2 DEF FormedOperation, OperatorSteps
  <2> QED
    BY <2>1, MutateLeads
<1>3. CASE e.k = "binop"
  <2>1. /\ IsValue(Hir, e.lhs) /\ IsValue(Hir, e.rhs) /\ e.op # "POP_TOP"
        /\ OperatorSteps(e) = <<Expr(e.lhs), Expr(e.rhs), Put(e.op, 0), Dec(1)>>
    BY <1>3 DEF FormedOperation, OperatorSteps
  <2> QED
    BY <2>1, BinaryLeads
<1>4. CASE e.k = "contains"
  <2>1. /\ IsValue(Hir, e.lhs) /\ IsValue(Hir, e.rhs)
        /\ OperatorSteps(e) = <<PushNull, Name, Expr(e.lhs), Expr(e.rhs),
                                CallInstr(2, "CALL_FUNCTION"), Dec(1), Dec(1)>>
    BY <1>4 DEF FormedOperation, OperatorSteps
  <2> QED
    BY <2>1, ContainsLeads
<1>5. CASE e.k = "andor"
  <2>1. /\ IsValue(Hir, e.lhs) /\ IsValue(Hir, e.rhs)
        /\ OperatorSteps(e) = ShortCircuitSteps(e)
    BY <1>5 DEF FormedOperation, OperatorSteps
  <2> QED
    BY <2>1, ShortCircuitLeads
<1> QED
  BY <1>1, <1>2, <1>3, <1>4, <1>5 DEF Operators

\* ... calls, ...
LEMMA CallKindsLead ==
  ASSUME NEW v, NEW a, Opened(a), NEW e, e.k \in CallKinds, FormedOperation(Hir, e),
         ~Miscounted(e), ~Unsure(e)
  PROVE  Leads(v, CallSteps(v, e), Up(a, 0), Up(a, 1))
<1>a. a \in Height /\ a.pop = "any"
  BY DEF Opened
<1>t. e.k \in {"call", "method"} => TameArgs(e.args)
  BY DEF FormedOperation, TameArgs, Miscounted, Unsure
<1>1. CASE e.k = "call"
  <2>1. /\ IsValue(Hir, e.obj) /\ TameArgs(e.args)
        /\ CallSteps(v, e) = <<PushNull, IF e.obj.k = "name" THEN Name ELSE Expr(e.obj)>>
                               \o ArgSteps(v, e.args, "CALL_FUNCTION")
    BY <1>1, <1>t DEF FormedOperation, CallSteps
  <2> QED
    BY <1>a, <2>1, CallOfLeads
<1>2. CASE e.k = "index"
  <2>1. /\ IsValue(Hir, e.obj) /\ AreValues(Hir, e.args.pos)
        /\ CallSteps(v, e) = <<Expr(e.obj)>> \o IndexSteps(e.args)
    BY <1>2 DEF FormedOperation, CallSteps
  <2> QED
    BY <1>a, <2>1, IndexLeads
<1>3. CASE e.k = "method"
  <2>1. IsValue(Hir, e.obj) /\ TameArgs(e.args) /\ CallSteps(v, e) = MethodSteps(v, e)
    BY <1>3, <1>t DEF FormedOperation, CallSteps
  <2> QED
    BY <1>a, <2>1, MethodLeads
<1>4. CASE e.k = "return"
  <2>1. IsValue(Hir, e.expr) /\ CallSteps(v, e) = <<Expr(e.expr), Put("RETURN_VALUE", 0)>>
    BY <1>4 DEF FormedOperation, CallSteps
  <2> QED
    BY <1>a, <2>1, UnaryLeads
<1>5. CASE e.k = "yield"
  <2>1. IsValue(Hir, e.expr) /\ CallSteps(v, e) = <<Expr(e.expr), Put("YIELD_VALUE", 0)>>
    BY <1>5 DEF FormedOperation, CallSteps
  <2> QED
    BY <1>a, <2>1, UnaryLeads
<1>6. CASE e.k = "discard"
  <2>1. AreValues(Hir, e.args) /\ CallSteps(v, e) = Each(Exprs(e.args), PopTop) \o <<Const("obj")>>
    BY <1>6 DEF FormedOperation, CallSteps
  <2> QED
    BY <1>a, <2>1, DiscardLeads
<1> QED
  BY <1>1, <1>2, <1>3, <1>4, <1>5, <1>6 DEF CallKinds

\* ... containers, ...
LEMMA ContainersLead ==
  ASSUME NEW v, NEW a \in Height, NEW e, e.k \in Containers, FormedOperation(Hir, e),
         ~Miscounted(e), ~Unsure(e)
  PROVE  Leads(v, ContainerSteps(e), Up(a, 0), Up(a, 1))
<1>n. Null(v) + 1 \in Nat /\ 0 \in Nat /\ 0 + 1 = 1
  BY DoesNull
<1>1. CASE e.k \in {"list", "dict"}
  <2> DEFINE op == IF e.k = "list" THEN "BUILD_LIST" ELSE "BUILD_MAP"
             n == IF e.k = "list" THEN Len(e.elems) ELSE Len(e.elems) \div 2
             g == Gather(op, n, e.elems)
  <2>1. AreValues(Hir, e.elems) /\ ContainerSteps(e) = Constructed(g) /\ op # "POP_TOP"
    BY <1>1 DEF FormedOperation, ContainerSteps
  <2> HIDE DEF op, n
  <2>2. Leads(v, g, Up(a, Null(v) + 1), Up(a, (Null(v) + 1) + 1))
    BY <1>n, <2>1, GatherLeads
  <2> HIDE DEF g
  <2> QED
    BY <2>1, <2>2, ConstructedLeads
<1>2. CASE e.k \in {"tuple", "set"}
  <2> DEFINE op == IF e.k = "tuple" THEN "BUILD_TUPLE" ELSE "BUILD_SET"
             g == Gather(op, Len(e.elems), e.elems)
  <2>1. AreValues(Hir, e.elems) /\ ContainerSteps(e) = g /\ op # "POP_TOP"
    BY <1>2 DEF FormedOperation, ContainerSteps
  <2> HIDE DEF op
  <2>2. Leads(v, g, Up(a, 0), Up(a, 0 + 1))
    BY <1>n, <2>1, GatherLeads
  <2> HIDE DEF g
  <2> QED
    BY <1>n, <2>1, <2>2
<1>3. CASE e.k = "listlen"
  <2>1. /\ IsValue(Hir, e.elem) /\ IsValue(Hir, e.length)
        /\ ContainerSteps(e) = ListWithLengthSteps(e)
    BY <1>3 DEF FormedOperation, ContainerSteps
  <2> QED
    BY <2>1, ListWithLengthLeads
<1>4. CASE e.k = "record"
  <2>1. /\ Len(e.attrs) \in Nat
        /\ \A i \in 1 .. Len(e.attrs) : IsBody(Hir, e.attrs[i]) /\ Leaves(e.attrs[i])
        /\ ContainerSteps(e) = RecordSteps(e.attrs)
    <3>1. /\ Len(e.attrs) \in Nat /\ \A i \in 1 .. Len(e.attrs) : IsBody(Hir, e.attrs[i])
          /\ ContainerSteps(e) = RecordSteps(e.attrs)
      BY <1>4 DEF FormedOperation, ContainerSteps
    <3>2. ASSUME NEW i \in 1 .. Len(e.attrs)
          PROVE  Leaves(e.attrs[i])
      <4>1. e.attrs[i] \in ValueBlocks(e) /\ e.attrs[i] # <<>>
        BY <1>4, <3>1 DEF ValueBlocks, IsBody
      <4> QED
        BY <4>1, ValuesLeft
    <3> QED
      BY <3>1, <3>2
  <2> QED
    BY <2>1, RecordLeads
<1> QED
  BY <1>1, <1>2, <1>3, <1>4 DEF Containers

\* ... what is compiled to jumps: each adds one value, ...
LEMMA ControlsLead ==
  ASSUME NEW v \in Versions, NEW a, Opened(a), NEW e, e.k \in Controls, FormedBlocks(Hir, e),
         ~Miscounted(e), ~Unsure(e)
  PROVE  \E b : Leads(v, ControlSteps(v, e), Up(a, 0), b) /\ Ended(a, b, 1, "any")
<1>0. Ended(a, Up(a, 1), 1, "any")
  <2>1. Room(a, 1) /\ 1 \in Int
    BY RoomsAbove DEF Opened
  <2> QED
    BY <2>1, UpEnded
<1>1. CASE e.k = "if"
  <2>1. /\ IsValue(Hir, e.cond) /\ IsValue(Hir, e.then) /\ AreValues(Hir, e.else)
        /\ ControlSteps(v, e) = IfSteps(v, e)
    BY <1>1 DEF FormedBlocks, ControlSteps
  <2>2. ASSUME NEW c, IsValue(Hir, c), c.k = "lambda", c.body \in BranchBlocks(e)
        PROVE  ~Mute(c.body)
    <3>1. IsBody(Hir, c.body)
      BY <2>2, BodyOfLambda DEF IsLambda, IsValue
    <3> QED
      BY <2>2, <3>1, ValuesLeft DEF IsBody
  <2>3. e.then.k = "lambda" => ~Mute(e.then.body)
    BY <1>1, <2>1, <2>2 DEF BranchBlocks
  <2>4. e.else # <<>> /\ e.else[1].k = "lambda" => ~Mute(e.else[1].body)
    <3> SUFFICES ASSUME e.else # <<>>, e.else[1].k = "lambda"
                 PROVE  ~Mute(e.else[1].body)
      OBVIOUS
    <3>1. IsValue(Hir, e.else[1]) /\ 1 \in 1 .. Len(e.else)
      BY <2>1, FirstValue DEF AreValues
    <3> QED
      BY <1>1, <2>2, <3>1 DEF BranchBlocks
  <2> QED
    BY <1>0, <2>1, <2>3, <2>4, IfLeads
<1>2. CASE e.k = "for"
  <2>1. IsValue(Hir, e.iter) /\ IsLambda(Hir, e.body, 1) /\ ControlSteps(v, e) = ForSteps(v, e)
    BY <1>2 DEF FormedBlocks, ControlSteps
  <2>2. ~Mute(e.body.body)
    BY <1>2, <2>1, BodyOfLambda, ValuesLeft DEF Bodies, IsBody
  <2> QED
    BY <2>1, <2>2, ForLeads
<1>3. CASE e.k = "while"
  <2>1. IsValue(Hir, e.cond) /\ IsLambda(Hir, e.body, 0) /\ ControlSteps(v, e) = WhileSteps(v, e)
    BY <1>3 DEF FormedBlocks, ControlSteps
  <2>2. ~Mute(e.body.body)
    BY <1>3, <2>1, BodyOfLambda, ValuesLeft DEF Bodies, IsBody
  <2> QED
    BY <2>1, <2>2, WhileLeads
<1>4. CASE e.k = "match"
  <2>1. /\ IsValue(Hir, e.expr) /\ Len(e.arms) \in Nat \ {0}
        /\ \A i \in 1 .. Len(e.arms) : FormedArm(Hir, e.arms[i])
        /\ ControlSteps(v, e) = MatchSteps(e)
    BY <1>4 DEF FormedBlocks, ControlSteps
  <2>2. ASSUME NEW i \in 1 .. Len(e.arms)
        PROVE  Leaves(e.arms[i].body)
    <3>1. e.arms[i].body \in ValueBlocks(e) /\ e.arms[i].body # <<>>
      BY <1>4, <2>1 DEF ValueBlocks, FormedArm, IsBody
    <3> QED
      BY <3>1, ValuesLeft
  <2> QED
    BY <1>0, <2>1, <2>2, MatchLeads
<1>5. CASE e.k = "with"
  <2>1. IsValue(Hir, e.expr) /\ IsLambda(Hir, e.body, 1) /\ ControlSteps(v, e) = WithSteps(v, e)
    BY <1>5 DEF FormedBlocks, ControlSteps
  <2>2. Leaves(e.body.body)
    BY <1>5, <2>1, BodyOfLambda, ValuesLeft DEF ValueBlocks, IsBody
  <2> QED
    BY <1>0, <2>1, <2>2, WithLeads
<1>6. CASE e.k = "assert"
  <2>1. /\ IsValue(Hir, e.cond) /\ AreValues(Hir, e.msg) /\ Len(e.msg) <= 1
        /\ ControlSteps(v, e) = AssertSteps(v, e)
    BY <1>6 DEF FormedBlocks, ControlSteps
  <2> QED
    BY <1>0, <2>1, AssertStepsLead
<1> QED
  BY <1>1, <1>2, <1>3, <1>4, <1>5, <1>6 DEF Controls

\* ... and a definition adds none, its last unit being no POP_TOP.
LEMMA DefinitionsLead ==
  ASSUME NEW v, NEW a \in Height, NEW e, e.k \in DefinitionKinds,
         FormedOperation(Hir, e) \/ FormedBlocks(Hir, e), ~Miscounted(e), ~Unsure(e)
  PROVE  Leads(v, DefinitionSteps(v, e), Up(a, 0), Kept(a, 0))
<1>1. CASE e.k = "subr"
  <2>1. /\ FormedFunction(Hir, e) /\ AreValues(Hir, e.decorators)
        /\ DefinitionSteps(v, e) = SubrDefSteps(v, e)
    BY <1>1 DEF FormedOperation, FormedBlocks, DefinitionSteps
  <2>2. ~Mute(e.body)
    BY <1>1, <2>1, ValuesLeft DEF Bodies, FormedFunction, IsBody
  <2> QED
    BY <2>1, <2>2, SubrDefLeads
<1>2. CASE e.k = "var"
  <2>1. IsBody(Hir, e.body) /\ DefinitionSteps(v, e) = VarDefSteps(e)
    BY <1>2 DEF FormedOperation, FormedBlocks, DefinitionSteps
  <2>2. Len(e.body) = 1 \/ Leaves(e.body)
    BY <1>2, <2>1, ValuesLeft DEF ValueBlocks, IsBody
  <2> QED
    BY <2>1, <2>2, VarDefLeads
<1>3. CASE e.k = "redef"
  <2>1. IsBody(Hir, e.body) /\ IsValue(Hir, e.obj) /\ DefinitionSteps(v, e) = ReDefSteps(e)
    BY <1>3 DEF FormedOperation, FormedBlocks, DefinitionSteps
  <2>2. Leaves(e.body)
    BY <1>3, <2>1, ValuesLeft DEF ValueBlocks, IsBody
  <2> QED
    BY <2>1, <2>2, ReDefLeads
<1>4. CASE e.k = "class"
  <2>1. /\ AreValues(Hir, e.base) /\ e.methods \in Seq(Hir)
        /\ DefinitionSteps(v, e) = ClassDefSteps(v, e)
    BY <1>4 DEF FormedOperation, FormedBlocks, DefinitionSteps
  <2>2. e.methods = <<>> \/ ~Mute(e.methods)
    BY <1>4, ValuesLeft DEF Bodies
  <2> QED
    BY <2>1, <2>2, ClassLeads
<1>5. CASE e.k = "trait"
  <2>1. e.requires \in Nat /\ DefinitionSteps(v, e) = TraitDefSteps(v, e)
    BY <1>5 DEF FormedOperation, FormedBlocks, DefinitionSteps
  <2> QED
    BY <2>1, TraitLeads
<1>6. CASE e.k = "import"
  <2>1. DefinitionSteps(v, e)
          = <<Const("obj"), Const("obj"), Put("IMPORT_NAME", 0), Store, Dec(1)>>
    BY <1>6 DEF DefinitionSteps
  <2> QED
    BY <2>1, ImportLeads
<1> QED
  BY <1>1, <1>2, <1>3, <1>4, <1>5, <1>6 DEF DefinitionKinds

\* What asserts that its value is on the stack.
LEMMA AssertedLeads ==
  ASSUME NEW v, NEW a, Opened(a), NEW steps, Leads(v, steps, Up(a, 0), Up(a, 1))
  PROVE  /\ Leads(v, steps \o <<AssertOne>>, Up(a, 0), Up(a, 1))
         /\ Ended(a, Up(a, 1), 1, "any")
<1>1. Leads(v, <<AssertOne>>, Up(a, 1), Up(a, 1))
  BY AssertLeads
<1>2. Room(a, 1) /\ 1 \in Int
  BY RoomsAbove DEF Opened
<1> QED
  BY <1>1, <1>2, LeadsOn, UpEnded

\* Which handler it is.
LEMMA HandlerParts ==
  ASSUME NEW v, NEW e
  PROVE  /\ e.k = "lit" => HandlerOf(v, e) = <<Const("obj")>>
         /\ e.k = "name" => HandlerOf(v, e) = <<Name>>
         /\ e.k = "attr" => HandlerOf(v, e) = <<Expr(e.obj), Put("LOAD_ATTR", 0), AssertOne>>
         /\ e.k = "compound" => HandlerOf(v, e) = <<Block(e.chunks)>>
         /\ e.k = "typeasc" => HandlerOf(v, e) = <<>>
         /\ e.k \in Operators => HandlerOf(v, e) = OperatorSteps(e) \o <<AssertOne>>
         /\ e.k \in CallKinds => HandlerOf(v, e) = CallSteps(v, e) \o <<AssertOne>>
         /\ e.k \in Controls => HandlerOf(v, e) = ControlSteps(v, e)
         /\ e.k \in Containers => HandlerOf(v, e) = ContainerSteps(e) \o <<AssertOne>>
         /\ e.k \in {"lambda"} \union DefinitionKinds => HandlerOf(v, e) = DefinitionSteps(v, e)
<1>1. CASE e.k \in {"lit", "name", "attr", "compound", "typeasc"}
  BY <1>1 DEF HandlerOf, Operators, CallKinds, Controls, Containers, DefinitionKinds
<1>2. CASE e.k \in Operators
  BY <1>2 DEF HandlerOf, Operators, CallKinds, Controls, Containers, DefinitionKinds
<1>3. CASE e.k \in CallKinds
  BY <1>3 DEF HandlerOf, Operators, CallKinds, Controls, Containers, DefinitionKinds
<1>4. CASE e.k \in Controls
  BY <1>4 DEF HandlerOf, Operators, CallKinds, Controls, Containers, DefinitionKinds
<1>5. CASE e.k \in Containers
  BY <1>5 DEF HandlerOf, Operators, CallKinds, Controls, Containers, DefinitionKinds
<1>6. CASE e.k \in {"lambda"} \union DefinitionKinds
  BY <1>6 DEF HandlerOf, Operators, CallKinds, Controls, Containers, DefinitionKinds
<1> QED
  BY <1>1, <1>2, <1>3, <1>4, <1>5, <1>6

\* A kind is of one form.
LEMMA KindForms ==
  ASSUME NEW e, FormedOperation(Hir, e) \/ FormedBlocks(Hir, e)
  PROVE  /\ e.k \in {"lit", "name", "attr", "compound", "typeasc", "lambda"} \union Operators \union CallKinds
                     \union Controls \union Containers \union DefinitionKinds
         /\ e.k = "attr" => IsValue(Hir, e.obj)
         /\ e.k = "typeasc" => IsValue(Hir, e.expr)
         /\ e.k \in Operators \union CallKinds \union Containers => FormedOperation(Hir, e)
         /\ e.k \in {"compound", "lambda"} \union Controls => FormedBlocks(Hir, e)
         /\ e.k \in {"lit", "name", "attr", "compound", "typeasc", "lambda"} \union Operators \union CallKinds
                     \union Controls \union Containers => e.k \notin DefinitionKinds
BY DEF FormedOperation, FormedBlocks, Operators, CallKinds, Controls, Containers, DefinitionKinds

\* emit_chunk: the value of an expression is on the stack, a definition
\* leaves nothing, and no POP_TOP at its end.
LEMMA HandlerLeads ==
  ASSUME NEW v \in Versions, NEW a, Opened(a), NEW e \in Hir, e.k # "typeasc",
         ~Miscounted(e), ~Unsure(e)
  PROVE  /\ IsValue(Hir, e)
              => \E b : Leads(v, HandlerOf(v, e), Up(a, 0), b) /\ Ended(a, b, 1, "any")
         /\ ~IsValue(Hir, e)
              => \E b : Leads(v, HandlerOf(v, e), Up(a, 0), b) /\ Ended(a, b, 0, "no")
<1>0. a \in Height /\ (FormedOperation(Hir, e) \/ FormedBlocks(Hir, e))
  BY HirAssumption DEF Opened, WellFormed
<1>1. Room(a, 0) /\ Room(a, 1) /\ 0 \in Int /\ 1 \in Int
  BY <1>0, RoomsAbove
<1>2. Ended(a, Up(a, 1), 1, "any") /\ Ended(a, Kept(a, 0), 0, "no")
  BY <1>1, UpEnded
<1>3. IsValue(Hir, e) <=> e.k \notin DefinitionKinds
  BY DEF IsValue
<1>k. /\ e.k \in {"lit", "name", "attr", "compound", "typeasc", "lambda"} \union Operators \union CallKinds
                  \union Controls \union Containers \union DefinitionKinds
      /\ e.k = "attr" => IsValue(Hir, e.obj)
      /\ e.k \in Operators \union CallKinds \union Containers => FormedOperation(Hir, e)
      /\ e.k \in {"compound", "lambda"} \union Controls => FormedBlocks(Hir, e)
      /\ e.k \in {"lit", "name", "attr", "compound", "typeasc", "lambda"} \union Operators \union CallKinds
                  \union Controls \union Containers => e.k \notin DefinitionKinds
  BY <1>0, KindForms
<1>4. CASE e.k = "lit"
  <2>1. HandlerOf(v, e) = <<Const("obj")>> /\ e.k \notin DefinitionKinds
    BY <1>k, <1>4, HandlerParts
  <2>2. Leads(v, <<Const("obj")>>, Up(a, 0), Up(a, 1))
    BY <1>0, OneUp, DoesWriting
  <2> QED
    BY <1>2, <1>3, <2>1, <2>2
<1>5. CASE e.k = "name"
  <2>1. HandlerOf(v, e) = <<Name>> /\ e.k \notin DefinitionKinds
    BY <1>k, <1>5, HandlerParts
  <2>2. Leads(v, <<Name>>, Up(a, 0), Up(a, 1))
    BY <1>0, OneUp, DoesWriting
  <2> QED
    BY <1>2, <1>3, <2>1, <2>2
<1>6. CASE e.k = "attr"
  <2> DEFINE s == <<Expr(e.obj), Put("LOAD_ATTR", 0)>>
  <2>1. HandlerOf(v, e) = s \o <<AssertOne>> /\ e.k \notin DefinitionKinds /\ IsValue(Hir, e.obj)
    BY <1>k, <1>6, HandlerParts
  <2>2. Leads(v, s, Up(a, 0), Up(a, 1))
    BY <1>0, <2>1, UnaryLeads
  <2> HIDE DEF s
  <2>3. Leads(v, s \o <<AssertOne>>, Up(a, 0), Up(a, 1))
    BY <2>2, AssertedLeads
  <2> QED
    BY <1>2, <1>3, <2>1, <2>3
<1>7. CASE e.k = "compound"
  <2>1. /\ HandlerOf(v, e) = <<Block(e.chunks)>> /\ e.k \notin DefinitionKinds
        /\ IsBody(Hir, e.chunks) /\ Leaves(e.chunks)
    BY <1>k, <1>7, HandlerParts DEF FormedBlocks, Unsure
  <2>2. Leads(v, <<Block(e.chunks)>>, Up(a, 0), Up(a, 1))
    BY <1>0, <2>1, OneUp, DoesCalling
  <2> QED
    BY <1>2, <1>3, <2>1, <2>2
<1>8. CASE e.k \in Operators
  <2> DEFINE s == OperatorSteps(e)
  <2>1. /\ HandlerOf(v, e) = s \o <<AssertOne>> /\ e.k \notin DefinitionKinds
        /\ FormedOperation(Hir, e)
    BY <1>k, <1>8, HandlerParts
  <2>2. Leads(v, s, Up(a, 0), Up(a, 1))
    BY <1>0, <1>8, <2>1, OperatorsLead
  <2> HIDE DEF s
  <2>3. Leads(v, s \o <<AssertOne>>, Up(a, 0), Up(a, 1))
    BY <2>2, AssertedLeads
  <2> QED
    BY <1>2, <1>3, <2>1, <2>3
<1>9. CASE e.k \in CallKinds
  <2> DEFINE s == CallSteps(v, e)
  <2>1. /\ HandlerOf(v, e) = s \o <<AssertOne>> /\ e.k \notin DefinitionKinds
        /\ FormedOperation(Hir, e)
    BY <1>k, <1>9, HandlerParts
  <2>2. Leads(v, s, Up(a, 0), Up(a, 1))
    BY <1>9, <2>1, CallKindsLead
  <2> HIDE DEF s
  <2>3. Leads(v, s \o <<AssertOne>>, Up(a, 0), Up(a, 1))
    BY <2>2, AssertedLeads
  <2> QED
    BY <1>2, <1>3, <2>1, <2>3
<1>10. CASE e.k \in Controls
  <2> DEFINE s == ControlSteps(v, e)
  <2>1. HandlerOf(v, e) = s /\ e.k \notin DefinitionKinds /\ FormedBlocks(Hir, e)
    BY <1>k, <1>10, HandlerParts
  <2>2. \E b : Leads(v, s, Up(a, 0), b) /\ Ended(a, b, 1, "any")
    BY <1>10, <2>1, ControlsLead
  <2> HIDE DEF s
  <2> QED
    BY <1>3, <2>1, <2>2
<1>11. CASE e.k \in Containers
  <2> DEFINE s == ContainerSteps(e)
  <2>1. /\ HandlerOf(v, e) = s \o <<AssertOne>> /\ e.k \notin DefinitionKinds
        /\ FormedOperation(Hir, e)
    BY <1>k, <1>11, HandlerParts
  <2>2. Leads(v, s, Up(a, 0), Up(a, 1))
    BY <1>0, <1>11, <2>1, ContainersLead
  <2> HIDE DEF s
  <2>3. Leads(v, s \o <<AssertOne>>, Up(a, 0), Up(a, 1))
    BY <2>2, AssertedLeads
  <2> QED
    BY <1>2, <1>3, <2>1, <2>3
<1>12. CASE e.k = "lambda"
  <2> DEFINE s == LambdaSteps(v, e)
  <2>1. HandlerOf(v, e) = s /\ e.k \notin DefinitionKinds
        /\ FormedFunction(Hir, e) /\ (e.varParams => e.defaults = <<>>)
    BY <1>k, <1>12, HandlerParts DEF FormedBlocks, DefinitionSteps, Miscounted
  <2>m. ~Mute(e.body)
    BY <1>12, <2>1, ValuesLeft DEF Bodies, FormedFunction, IsBody
  <2>2. Leads(v, s, Up(a, 0), Up(a, 1))
    BY <1>0, <2>1, <2>m, LambdaLeads
  <2> HIDE DEF s
  <2> QED
    BY <1>2, <1>3, <2>1, <2>2
<1>13. CASE e.k \in DefinitionKinds
  <2> DEFINE s == DefinitionSteps(v, e)
  <2>1. HandlerOf(v, e) = s
    BY <1>13, HandlerParts
  <2>2. Leads(v, s, Up(a, 0), Kept(a, 0))
    BY <1>0, <1>13, DefinitionsLead
  <2> HIDE DEF s
  <2> QED
    BY <1>2, <1>3, <1>13, <2>1, <2>2
<1> QED
  BY <1>k, <1>4, <1>5, <1>6, <1>7, <1>8, <1>9, <1>10, <1>11, <1>12, <1>13

-----------------------------------------------------------------------------
(* The steps that are calls: what they are put in the place of.            *)

\* emit_chunk
LEMMA ChunkLeads ==
  ASSUME NEW v \in Versions, NEW a \in Height, a.pop = "any", NEW e \in Hir, e.k # "typeasc",
         ~Miscounted(e), ~Unsure(e)
  PROVE  /\ IsValue(Hir, e) => Leads(v, ChunkSteps(v, e), a, Up(a, 1))
         /\ ~IsValue(Hir, e) => Leads(v, ChunkSteps(v, e), a, Kept(a, 0))
         /\ ~IsValue(Hir, e) => Leads(v, ChunkSteps(v, e), a, Up(a, 0))
<1> DEFINE o == Pushed(a)
           h == HandlerOf(v, e)
<1>1. Opened(o) /\ o \in Height /\ o.pop = "any"
  BY PushedOpened DEF Opened
<1>2. Leads(v, <<Push>>, a, o)
  BY PushLeads
<1>3. ChunkSteps(v, e) = (<<Push>> \o h) \o <<Pop>>
  BY DEF ChunkSteps
<1> HIDE DEF h, o
<1>4. Up(o, 0) = o
  BY <1>1, NoRise
<1>5. ASSUME NEW b, Leads(v, h, o, b), NEW c, Leads(v, <<Pop>>, b, c)
      PROVE  Leads(v, ChunkSteps(v, e), a, c)
  BY <1>2, <1>3, <1>5, LeadsOn3
<1>6. CASE IsValue(Hir, e)
  <2>1. PICK b : Leads(v, h, o, b) /\ Ended(o, b, 1, "any")
    BY <1>1, <1>4, <1>6, HandlerLeads DEF h
  <2>2. Leads(v, <<Pop>>, b, Up(a, 1))
    <3>1. Ended(Pushed(a), b, 1, "any") /\ 1 \in Int
      BY <2>1 DEF o
    <3> QED
      BY <3>1, PopLeads
  <2> QED
    BY <1>5, <1>6, <2>1, <2>2
<1>7. CASE ~IsValue(Hir, e)
  <2>1. PICK b : Leads(v, h, o, b) /\ Ended(o, b, 0, "no")
    BY <1>1, <1>4, <1>7, HandlerLeads DEF h
  <2>2. Leads(v, <<Pop>>, b, Kept(a, 0)) /\ Leads(v, <<Pop>>, b, Up(a, 0))
    <3>1. Ended(Pushed(a), b, 0, "no") /\ 0 \in Int
      BY <2>1 DEF o
    <3>2. Leads(v, <<Pop>>, b, Level(a, a.len + 0, "no")) /\ Leads(v, <<Pop>>, b, Up(a, 0))
      BY <3>1, PopLeads
    <3> QED
      BY <3>2 DEF Kept
  <2> QED
    BY <1>5, <1>7, <2>1, <2>2
<1> QED
  BY <1>6, <1>7

\* A type ascription that is a chunk: nothing is emitted for it.
LEMMA AscriptionLeads ==
  ASSUME NEW v, NEW a \in Height, NEW e, e.k = "typeasc"
  PROVE  Leads(v, ChunkSteps(v, e), a, a)
<1> DEFINE o == [a EXCEPT !.frames = Append(a.frames, [len |-> a.len, base |-> a.len])]
           r == [len |-> a.len, base |-> a.len]
<1>0. ChunkSteps(v, e) = <<Push, Pop>>
  <2>1. HandlerOf(v, e) = <<>>
    BY HandlerParts
  <2>2. ChunkSteps(v, e) = <<Push>> \o <<>> \o <<Pop>>
    BY <2>1 DEF ChunkSteps
  <2>3. ASSUME NEW x, NEW y
        PROVE  <<x>> \o <<>> \o <<y>> = <<x, y>>
    <3>1. <<x>> \in Seq({x, y}) /\ <<y>> \in Seq({x, y})
      OBVIOUS
    <3>2. <<x>> \o <<>> = <<x>>
      BY <3>1, ConcatEmptySeq
    <3>3. <<x>> \o <<y>> = <<x, y>>
      BY Pair
    <3> QED
      BY <3>2, <3>3
  <2> QED
    BY <2>2, <2>3
<1>1. a.len \in Nat /\ a.frames \in Seq(HeightFrame) /\ r \in HeightFrame
  BY HeightParts DEF Height, HeightFrame
<1> DEFINE fs == Append(a.frames, r)
<1>2. fs \in Seq(HeightFrame) /\ fs # <<>> /\ Front(fs) = a.frames
  BY <1>1, LastAppended, AppendProperties
<1> HIDE DEF fs
<1>3. o = [a EXCEPT !.frames = fs]
  BY DEF fs
<1>4. /\ o \in Height /\ o.len = a.len /\ o.pop = a.pop /\ o.outer = a.outer
      /\ o.frames = fs
  BY <1>2, <1>3 DEF Height
<1> HIDE DEF o
<1>5. Frames(a, Push, o)
  BY <1>4 DEF Frames, Push, fs
<1>6. Frames(o, Pop, a)
  BY <1>2, <1>4 DEF Frames, Pop
<1>7. Leads(v, <<Push>>, a, o) /\ Leads(v, <<Pop>>, o, a)
  BY <1>4, <1>5, <1>6, LeadsOne DEF Goes
<1> QED
  BY <1>0, <1>7, LeadsPair

\* emit_expr: one value is on the stack, wrapped or not.
LEMMA ExprOfLeads ==
  ASSUME NEW v, NEW a \in Height, a.pop = "any", NEW e, IsValue(Hir, e)
  PROVE  Leads(v, ExprSteps(e), a, Up(a, 1))
<1> DEFINE o == Pushed(a)
           z == Null(v)
           c == IF e.k = "typeasc" THEN Expr(e.expr) ELSE Chunk(e)
           f == CallInstr(1, "CALL_FUNCTION")
           d == Dec(1)
           w == When(e.wrap, <<PushNull, Name>>)
           u == When(e.wrap, <<f, d>>)
<1>1. Opened(o) /\ o \in Height /\ o.pop = "any"
  BY PushedOpened DEF Opened
<1>2. Leads(v, <<Push>>, a, o)
  BY PushLeads
<1>3. ExprSteps(e) = (((<<Push>> \o w) \o <<c>>) \o u) \o <<AssertOne, Pop>>
  BY DEF ExprSteps
<1>4. Leads(v, <<Pop>>, Up(o, 1), Up(a, 1))
  <2> HIDE DEF o
  <2>1. Ended(o, Up(o, 1), 1, "any")
    BY <1>1, RestParts, UpEnded
  <2> QED
    BY <2>1, PopLeads DEF o
<1> HIDE DEF o
<1>5. Leads(v, <<AssertOne, Pop>>, Up(o, 1), Up(a, 1))
  BY <1>1, <1>4, AssertLeads, LeadsPair
<1>6. Does(v, c, 1)
  <2>1. e \in Hir /\ e.k \notin DefinitionKinds
    BY DEF IsValue
  <2>2. CASE e.k = "typeasc"
    <3>1. IsValue(Hir, e.expr)
      BY <2>1, <2>2, HirAssumption, KindForms DEF WellFormed
    <3> QED
      BY <2>2, <3>1, DoesCalling
  <2>3. CASE e.k # "typeasc"
    BY <2>1, <2>3, DoesCalling DEF Valued
  <2> QED
    BY <2>2, <2>3
<1>7. Up(o, 0) = o /\ z \in Nat
  BY <1>1, NoRise, DoesNull
<1>8. e.wrap \in BOOLEAN
  BY HirAssumption DEF WellFormed, IsValue
<1> HIDE DEF c
<1>9. CASE e.wrap
  <2>1. w = <<PushNull, Name>> /\ u = <<f, d>>
    BY <1>9 DEF When
  <2> HIDE DEF w, u, f, d
  <2>2. Leads(v, w, o, Up(o, z + 1))
    BY <1>1, <1>7, <2>1, NullNameLeads
  <2> DEFINE k == z + 1
  <2>3. k \in Nat
    BY <1>7
  <2> HIDE DEF k, z
  <2>4. Leads(v, <<c>>, Up(o, k), Up(o, k + 1))
    BY <1>1, <1>6, <2>3, OneUp
  <2>5. Leads(v, u, Up(o, k + 1), Up(o, 1))
    <3>1. 1 \in Nat
      OBVIOUS
    <3>2. Leads(v, <<f, d>>, Up(o, (Null(v) + 1) + 1), Up(o, 1))
      BY <1>1, <3>1, CallDecLeads DEF f, d
    <3> QED
      BY <2>1, <3>2 DEF k, z
  <2>6. Leads(v, w, o, Up(o, k))
    BY <2>2 DEF k
  <2>7. Leads(v, (((<<Push>> \o w) \o <<c>>) \o u) \o <<AssertOne, Pop>>, a, Up(a, 1))
    BY <1>2, <1>5, <2>4, <2>5, <2>6, LeadsOn5
  <2> QED
    BY <1>3, <2>7
<1>10. CASE ~e.wrap
  <2>1. w = <<>> /\ u = <<>>
    BY <1>10 DEF When
  <2>2. Up(o, 1) \in Height
    BY <1>1, RestParts
  <2> HIDE DEF w, u
  <2>3. Leads(v, w, o, o) /\ Leads(v, u, Up(o, 1), Up(o, 1))
    BY <1>1, <2>1, <2>2, LeadsNowhere
  <2>4. Leads(v, <<c>>, o, Up(o, 1))
    BY <1>1, <1>6, <1>7, OneUp
  <2>5. Leads(v, (((<<Push>> \o w) \o <<c>>) \o u) \o <<AssertOne, Pop>>, a, Up(a, 1))
    BY <1>2, <1>5, <2>3, <2>4, LeadsOn5
  <2> QED
    BY <1>3, <2>5
<1> QED
  BY <1>8, <1>9, <1>10

\* What a call puts on the agenda.
CalledSteps(v, s) ==
  CASE s.do = "expr" -> ExprSteps(s.e)
    [] s.do = "chunk" -> ChunkSteps(v, s.e)
    [] s.do = "block" -> BlockSteps(s.b)
    [] s.do = "arm" -> ArmSteps(s.arm, s.isLast)
    [] s.do = "guard" -> GuardSteps(s.arm, s.i, s.isLast)
    [] s.do = "requirement" -> AbstractMethodSteps(v)

\* A call only counts.
LEMMA CallCounts ==
  ASSUME NEW v, NEW a, NEW s, NEW c, Goes(v, a, s, c), s.do \in Calling
  PROVE  /\ a \in Height /\ c \in Height /\ Counting(s)
         /\ c.len = a.len + Gain(v, s) /\ c.pop \in {Flag(a, s), "any"}
         /\ c.frames = a.frames /\ c.outer = a.outer
         /\ (s.do = "block" /\ s.b = <<>>) => c = a
<1>1. ~Frames(a, s, c)
  BY DEF Frames, Calling
<1> QED
  BY <1>1 DEF Goes, Counts

\* Up(a, n), or Kept(a, n), is known by its fields.
LEMMA UpIs ==
  ASSUME NEW a \in Height, NEW c \in Height, NEW n \in Int, c.len = a.len + n,
         c.frames = a.frames, c.outer = a.outer
  PROVE  /\ c.pop = "any" => c = Up(a, n)
         /\ c.pop = "no" => c = Kept(a, n)
<1> DEFINE l == a.len + n
<1>1. c.len = l /\ l \in Nat
  BY HeightParts
<1> HIDE DEF l
<1>2. c.pop = "any" => c = Level(a, l, "any")
  BY <1>1, LevelIs
<1>3. c.pop = "no" => c = Level(a, l, "no")
  BY <1>1, LevelIs
<1> QED
  BY <1>2, <1>3 DEF Up, Kept, l

\* What is known of the last unit may be forgotten.
LEMMA StandsUp ==
  ASSUME NEW g, NEW a \in Height, Stands(g, a)
  PROVE  Stands(g, Up(a, 0)) /\ Up(a, 0) \in Height /\ Up(a, 0).pop = "any"
         /\ Up(Up(a, 0), 0) = Up(a, 0)
<1> DEFINE x == Up(a, 0)
<1>1. x \in Height /\ x.len = a.len /\ x.pop = "any" /\ x.frames = a.frames /\ x.outer = a.outer
  BY RestParts
<1> HIDE DEF x
<1>2. Stands(g, x)
  BY <1>1 DEF Stands
<1>3. Up(x, 0) = x
  BY <1>1, NoRise
<1> QED
  BY <1>1, <1>2, <1>3 DEF x

\* What a call is replaced by leads where the call did.
LEMMA CalledLead ==
  ASSUME NEW v \in Versions, NEW a, NEW s, NEW c, Goes(v, a, s, c), s.do \in Calling,
         s.do = "chunk" => ~Miscounted(s.e) /\ ~Unsure(s.e)
  PROVE  \E x \in {a, Up(a, 0)} : Leads(v, CalledSteps(v, s), x, c)
<1> DEFINE x == Up(a, 0)
<1>1. /\ a \in Height /\ c \in Height /\ Counting(s)
      /\ c.len = a.len + Gain(v, s) /\ c.pop \in {Flag(a, s), "any"}
      /\ c.frames = a.frames /\ c.outer = a.outer
      /\ (s.do = "block" /\ s.b = <<>>) => c = a
  BY CallCounts
<1>2. /\ x \in Height /\ x.len = a.len /\ x.pop = "any" /\ x.frames = a.frames
      /\ x.outer = a.outer /\ Up(x, 0) = x
  <2>1. x \in Height /\ x.len = a.len /\ x.pop = "any" /\ x.frames = a.frames /\ x.outer = a.outer
    BY <1>1, RestParts
  <2> HIDE DEF x
  <2> QED
    BY <2>1, NoRise
<1>3. a.len \in Nat /\ c.len \in Nat
  BY <1>1, HeightParts
<1> HIDE DEF x
<1>4. ASSUME Gain(v, s) = 1, Flag(a, s) = "any"
      PROVE  c = Up(x, 1)
  <2>1. c.len = x.len + 1 /\ c.pop = "any" /\ c.frames = x.frames /\ c.outer = x.outer
    BY <1>1, <1>2, <1>4
  <2> QED
    BY <1>1, <1>2, <2>1, UpIs
<1>5. ASSUME Gain(v, s) = 0, Flag(a, s) \in {"any", "no"}
      PROVE  c = x \/ c = Kept(x, 0)
  <2>1. c.len = x.len + 0 /\ c.pop \in {"any", "no"} /\ c.frames = x.frames /\ c.outer = x.outer
    BY <1>1, <1>2, <1>3, <1>5
  <2> QED
    BY <1>1, <1>2, <2>1, UpIs
<1>6. ASSUME Gain(v, s) = 0, Flag(a, s) = "any"
      PROVE  c = x
  <2>1. c.len = x.len + 0 /\ c.pop = "any" /\ c.frames = x.frames /\ c.outer = x.outer
    BY <1>1, <1>2, <1>3, <1>6
  <2> QED
    BY <1>1, <1>2, <2>1, UpIs
<1>7. CASE s.do = "expr"
  <2>1. IsValue(Hir, s.e) /\ Gain(v, s) = 1 /\ Flag(a, s) = "any"
    BY <1>1, <1>7 DEF Counting, Gain, Flag, Filling, Placing
  <2>2. CalledSteps(v, s) = ExprSteps(s.e)
    BY <1>7 DEF CalledSteps
  <2>3. Leads(v, ExprSteps(s.e), x, Up(x, 1))
    BY <1>2, <2>1, ExprOfLeads
  <2> QED
    BY <1>4, <2>1, <2>2, <2>3 DEF x
<1>8. CASE s.do = "chunk"
  <2>1. s.e \in Hir
    BY <1>1, <1>8 DEF Counting, Filling, Placing
  <2>2. CalledSteps(v, s) = ChunkSteps(v, s.e)
    BY <1>8 DEF CalledSteps
  <2>3. CASE Valued(s.e)
    <3>1. Gain(v, s) = 1 /\ Flag(a, s) = "any"
      BY <1>8, <2>3 DEF Gain, Flag, Valued
    <3>2. Leads(v, ChunkSteps(v, s.e), x, Up(x, 1))
      BY <1>2, <1>8, <2>1, <2>3, ChunkLeads DEF Valued, IsValue
    <3> QED
      BY <1>4, <2>2, <3>1, <3>2 DEF x
  <2>4. CASE s.e.k \in DefinitionKinds
    <3>1. Gain(v, s) = 0 /\ Flag(a, s) = "no"
      BY <1>8, <2>4 DEF Gain, Flag, Valued, DefinitionKinds
    <3>2. Leads(v, ChunkSteps(v, s.e), x, x) /\ Leads(v, ChunkSteps(v, s.e), x, Kept(x, 0))
      BY <1>2, <1>8, <2>1, <2>4, ChunkLeads DEF IsValue, DefinitionKinds
    <3> QED
      BY <1>5, <2>2, <3>1, <3>2 DEF x
  <2>5. CASE s.e.k = "typeasc"
    <3>1. Gain(v, s) = 0 /\ Flag(a, s) = a.pop
      BY <1>8, <2>5 DEF Gain, Flag, Valued
    <3>2. Leads(v, ChunkSteps(v, s.e), x, x) /\ Leads(v, ChunkSteps(v, s.e), a, a)
      BY <1>1, <1>2, <2>5, AscriptionLeads
    <3>3. c = a \/ c = x
      <4>1. c.len = a.len /\ c.pop \in {a.pop, "any"}
        BY <1>1, <1>3, <3>1
      <4>2. CASE c.pop = "any"
        BY <1>1, <1>2, <4>1, <4>2, SameHeight
      <4>3. CASE c.pop = a.pop
        BY <1>1, <4>1, <4>3, SameHeight
      <4> QED
        BY <4>1, <4>2, <4>3
    <3> QED
      BY <2>2, <3>2, <3>3 DEF x
  <2> QED
    BY <2>3, <2>4, <2>5 DEF Valued
<1>9. CASE s.do = "block"
  <2>1. s.b \in Seq(Hir) /\ (s.b = <<>> \/ ~Mute(s.b)) /\ Flag(a, s) = "any"
    BY <1>1, <1>9 DEF Counting, Filling, Placing, Flag
  <2>2. CalledSteps(v, s) = BlockSteps(s.b)
    BY <1>9 DEF CalledSteps
  <2>3. CASE s.b = <<>>
    <3>1. BlockSteps(s.b) = <<>>
      BY <2>3 DEF BlockSteps, When
    <3>2. c = a
      BY <1>1, <1>9, <2>3
    <3>3. Leads(v, <<>>, a, a)
      BY <1>1, LeadsNowhere
    <3> QED
      BY <2>2, <3>1, <3>2, <3>3
  <2>4. CASE s.b # <<>> /\ Leaves(s.b)
    <3>1. Gain(v, s) = 1
      BY <1>9, <2>4 DEF Gain
    <3>2. Leads(v, BlockSteps(s.b), x, Up(x, 1))
      BY <1>2, <2>1, <2>4, BlockLeads
    <3> QED
      BY <1>4, <2>1, <2>2, <3>1, <3>2 DEF x
  <2>5. CASE s.b # <<>> /\ ~Leaves(s.b)
    <3>1. Gain(v, s) = 0
      BY <1>9, <2>5 DEF Gain
    <3>2. Leads(v, BlockSteps(s.b), x, x)
      BY <1>2, <2>1, <2>5, BlockLeads
    <3> QED
      BY <1>6, <2>1, <2>2, <3>1, <3>2 DEF x
  <2> QED
    BY <2>3, <2>4, <2>5
<1>10. CASE s.do = "arm"
  <2>1. /\ FormedArm(Hir, s.arm) /\ Leaves(s.arm.body) /\ s.isLast \in BOOLEAN
        /\ Flag(a, s) = "any"
    BY <1>1, <1>10 DEF Counting, Filling, Placing, Flag
  <2>2. CalledSteps(v, s) = ArmSteps(s.arm, s.isLast)
    BY <1>10 DEF CalledSteps
  <2>3. CASE s.isLast = FALSE
    <3>1. Gain(v, s) = 0
      BY <1>10, <2>3 DEF Gain
    <3>2. Leads(v, ArmSteps(s.arm, FALSE), x, x)
      BY <1>2, <2>1, ArmLeads
    <3> QED
      BY <1>6, <2>1, <2>2, <2>3, <3>1, <3>2 DEF x
  <2>4. CASE s.isLast = TRUE
    <3>1. Gain(v, s) = -1
      BY <1>10, <2>4 DEF Gain
    <3>2. c.len + 1 = x.len /\ c.pop = "any" /\ c.frames = x.frames /\ c.outer = x.outer
      BY <1>1, <1>2, <1>3, <2>1, <3>1
    <3>3. Up(c, 0) = c
      BY <1>1, <3>2, NoRise
    <3>4. Up(c, 1) = x
      <4>1. x.len = c.len + 1 /\ x.pop = "any" /\ x.frames = c.frames /\ x.outer = c.outer
        BY <1>2, <3>2
      <4> QED
        BY <1>1, <1>2, <4>1, UpIs
    <3>5. Leads(v, ArmSteps(s.arm, TRUE), x, c)
      BY <1>1, <2>1, <3>3, <3>4, ArmLeads
    <3> QED
      BY <2>2, <2>4, <3>5 DEF x
  <2> QED
    BY <2>1, <2>3, <2>4
<1>11. CASE s.do = "guard"
  <2>1. /\ FormedArm(Hir, s.arm) /\ s.isLast \in BOOLEAN /\ s.i \in 1 .. Len(s.arm.guards)
        /\ Flag(a, s) = "any" /\ Gain(v, s) = 0
    BY <1>1, <1>11 DEF Counting, Filling, Placing, Flag, Gain
  <2>2. CalledSteps(v, s) = GuardSteps(s.arm, s.i, s.isLast)
    BY <1>11 DEF CalledSteps
  <2>3. Leads(v, GuardSteps(s.arm, s.i, s.isLast), x, x)
    BY <1>2, <2>1, GuardLeads
  <2> QED
    BY <1>6, <2>1, <2>2, <2>3 DEF x
<1>12. CASE s.do = "requirement"
  <2>1. Flag(a, s) = "any" /\ Gain(v, s) = 0
    BY <1>12 DEF Flag, Gain
  <2>2. CalledSteps(v, s) = AbstractMethodSteps(v)
    BY <1>12 DEF CalledSteps
  <2>3. Leads(v, AbstractMethodSteps(v), x, x)
    BY <1>2, AbstractMethodLeads
  <2> QED
    BY <1>6, <2>1, <2>2, <2>3 DEF x
<1> QED
  BY <1>7, <1>8, <1>9, <1>10, <1>11, <1>12 DEF Calling

-----------------------------------------------------------------------------
(* A module, from a fresh generator.                                       *)

Ground == [len |-> 0, pop |-> "any", frames |-> <<>>, outer |-> <<>>]

\* The generator begins on the ground.
LEMMA FreshStands ==
  ASSUME NEW v \in Versions
  PROVE  IsState(Fresh(v)) /\ Stands(Fresh(v), Ground) /\ Ground \in Height
<1>1. Fresh(v) \in GenState({})
  BY DEF Fresh, GenState
<1>2. Stands(Fresh(v), Ground)
  BY DEF Stands, Fresh, Ground
<1>3. Ground \in Height
  BY DEF Ground, Height
<1> QED
  BY <1>1, <1>2, <1>3 DEF IsState

\* In a module, a POP_TOP follows a value and nothing follows what leaves none.
LEMMA PopOneGoes ==
  ASSUME NEW v, NEW o \in Height, o.len = 0
  PROVE  /\ Goes(v, Up(o, 1), PopOne, Popped(o))
         /\ \A y \in Height : y.len = o.len /\ y.frames = o.frames /\ y.outer = o.outer
                                => Goes(v, y, PopOne, y)
<1> DEFINE x == Popped(o)
           z == Up(o, 1)
<1>1. /\ x \in Height /\ x.len = 0 /\ x.pop = "yes" /\ x.frames = o.frames
      /\ x.outer = o.outer
  BY PoppedParts
<1>2. /\ z \in Height /\ z.len = 1 /\ z.pop = "any" /\ z.frames = o.frames
      /\ z.outer = o.outer
  BY RestParts
<1> HIDE DEF x, z
<1>3. x = Level(z, 0, "yes")
  BY <1>1, <1>2, LevelIs
<1>4. Frames(z, PopOne, x)
  BY <1>1, <1>2, <1>3 DEF Frames, PopOne
<1>5. ASSUME NEW y \in Height, y.len = o.len
      PROVE  Goes(v, y, PopOne, y)
  <2>1. Frames(y, PopOne, y)
    BY <1>5 DEF Frames, PopOne
  <2> QED
    BY <2>1 DEF Goes
<1>6. Goes(v, z, PopOne, x)
  BY <1>1, <1>2, <1>4 DEF Goes
<1> QED
  BY <1>5, <1>6 DEF x, z

\* emit: at the end of a module, at most its value is on the stack.
LEMMA ModuleLeads ==
  ASSUME NEW v, NEW module \in Seq(Hir), NEW printed \in BOOLEAN
  PROVE  Leads(v, ModuleSteps(module, v, printed), Ground, Up(Ground, 0))
<1> DEFINE y == Entered(Ground, "no")
           r == When(Is311(v), <<Put("RESUME", 0)>>)
           c == Chunks(module, PopOne)
           k == <<CancelPopTop>>
           h == When(printed, <<Shell>>)
           l == <<LeaveBlock>>
<1>0. Ground \in Height
  BY DEF Ground, Height
<1>1. y \in Height /\ y.len = 0 /\ y.pop = "no" /\ y.frames = Ground.frames
  BY <1>0, EnteredParts
<1>2. Leads(v, <<EnterBlock>>, Ground, y)
  BY <1>0, EnterLeads
<1>3. ModuleSteps(module, v, printed) = ((((<<EnterBlock>> \o r) \o c) \o k) \o h) \o l
  BY DEF ModuleSteps
<1>l. \A b \in Height : b.len <= 1 /\ b.frames = Ground.frames /\ b.outer = y.outer
        => Leads(v, l, b, Up(Ground, 0))
  BY <1>0, LeaveLeads
<1> HIDE DEF y
<1>4. y = Kept(y, 0)
  <2>1. 0 \in Int /\ y.len = y.len + 0
    BY <1>1
  <2> QED
    BY <1>1, <2>1, UpIs
<1>5. Leads(v, r, y, y)
  <2>1. CASE Is311(v)
    <3>1. r = <<Put("RESUME", 0)>>
      BY <2>1 DEF When
    <3>2. Goes(v, y, Put("RESUME", 0), y)
      BY <1>1 DEF Goes, Counts, Counting, Gain, Flag, Put
    <3> QED
      BY <3>1, <3>2, LeadsOne
  <2>2. CASE ~Is311(v)
    BY <1>1, <2>2, LeadsNowhere DEF When
  <2> QED
    BY <2>1, <2>2
<1>6. \E b, d \in Height : /\ Leads(v, c, y, b) /\ Leads(v, k, b, d)
                          /\ d \in {Up(y, 0), Up(y, 1)}
  <2>1. CASE Leaves(module)
    <3>1. Leads(v, c, y, Popped(y))
      BY <1>1, <2>1, PopOneGoes, ChunksLead
    <3>2. Leads(v, k, Popped(y), Up(y, 1))
      BY <1>1, CancelLeads
    <3>3. Popped(y) \in Height /\ Up(y, 1) \in Height
      BY <1>1, PoppedParts, RestParts
    <3> QED
      BY <3>1, <3>2, <3>3
  <2>2. CASE ~Leaves(module)
    <3>1. Leads(v, c, y, Kept(y, 0))
      <4>1. Leads(v, c, y, Kept(y, 0)) \/ Leads(v, c, y, y)
        BY <1>1, <2>2, PopOneGoes, ChunksLead
      <4> QED
        BY <1>4, <4>1
    <3>2. Leads(v, k, Kept(y, 0), Up(y, 0))
      BY <1>1, CancelLeads
    <3> QED
      BY <1>1, <3>1, <3>2, RestParts
  <2> QED
    BY <2>1, <2>2
<1>7. PICK b, d \in Height : /\ Leads(v, c, y, b) /\ Leads(v, k, b, d)
                            /\ d \in {Up(y, 0), Up(y, 1)}
  BY <1>6
<1>8. d.len <= 1 /\ d.frames = Ground.frames /\ d.outer = y.outer
  BY <1>1, <1>7, RestParts
<1>9. Leads(v, h, d, d) \/ Leads(v, h, d, Up(y, 0))
  <2>1. CASE printed
    <3>1. h = <<Shell>>
      BY <2>1 DEF When
    <3>2. Up(y, 0) = Level(d, 0, "any") /\ Up(y, 0) \in Height
      <4>1. /\ Up(y, 0) \in Height /\ Up(y, 0).len = 0 /\ Up(y, 0).pop = "any"
            /\ Up(y, 0).frames = d.frames /\ Up(y, 0).outer = d.outer
        BY <1>1, <1>8, RestParts
      <4> QED
        BY <4>1, LevelIs
    <3> DEFINE z == Up(y, 0)
    <3> HIDE DEF z
    <3>3. Frames(d, Shell, z)
      BY <3>2 DEF Frames, Shell, z
    <3>4. Goes(v, d, Shell, z)
      BY <3>2, <3>3 DEF Goes, z
    <3> QED
      BY <3>1, <3>4, LeadsOne DEF z
  <2>2. CASE ~printed
    BY <2>2, LeadsNowhere DEF When
  <2> QED
    BY <2>1, <2>2
<1>10. Leads(v, l, d, Up(Ground, 0)) /\ Leads(v, l, Up(y, 0), Up(Ground, 0))
  <2>1. /\ Up(y, 0) \in Height /\ Up(y, 0).len <= 1 /\ Up(y, 0).frames = Ground.frames
        /\ Up(y, 0).outer = y.outer
    BY <1>1, RestParts
  <2> QED
    BY <1>l, <1>8, <2>1
<1> HIDE DEF r, c, k, h, l
<1>11. Leads(v, ((<<EnterBlock>> \o r) \o c) \o k, Ground, d)
  BY <1>2, <1>5, <1>7, LeadsOn4
<1>12. Leads(v, ((((<<EnterBlock>> \o r) \o c) \o k) \o h) \o l, Ground, Up(Ground, 0))
  BY <1>9, <1>10, <1>11, LeadsOn3
<1> QED
  BY <1>3, <1>12

-----------------------------------------------------------------------------
(* The invariant: unless the generator has met an expression it miscounts, *)
(* what is left to do leads from the height it                             *)
(* is at to that of the end of a module, where nothing is left on the      *)
(* count, no handler is at work and no block is open.                      *)

Leading == \E a : Stands(gen, a) /\ Leads(py, agenda, a, Up(Ground, 0))

GenerationInv ==
  /\ py \in PyVersions
  /\ repl \in BOOLEAN
  /\ status = "hir" => program \in Programs
  /\ status # "generating" => gen = Fresh(py)
  /\ status = "generating" /\ flaws \subseteq {"misplaced"}
       => IsState(gen) /\ gen.py = py /\ Leading

\* A call puts the steps of a handler in front of what is left.
LEMMA CallKeepsLeading ==
  ASSUME GenerationInv, NEW kind \in Calling, NEW found,
         AtCall(kind, CalledSteps(py, Head(agenda)), found),
         kind = "chunk" => found = Flaws(Head(agenda).e)
  PROVE  GenerationInv'
<1> DEFINE s == Head(agenda)
           t == Tail(agenda)
           q == CalledSteps(py, s)
<1>1. /\ status = "generating" /\ agenda # <<>> /\ s.do \in Calling /\ s.do = kind
      /\ agenda' = q \o t /\ flaws' = flaws \union found
      /\ UNCHANGED <<program, repl, py, gen, machine, status>>
  BY DEF AtCall
<1> SUFFICES ASSUME flaws' \subseteq {"misplaced"}
             PROVE  GenerationInv'
  BY <1>1 DEF GenerationInv
<1>2. py \in Versions /\ IsState(gen) /\ gen.py = py
  BY <1>1, VersionAssumption DEF GenerationInv
<1>3. PICK a : Stands(gen, a) /\ Leads(py, agenda, a, Up(Ground, 0))
  BY <1>1 DEF GenerationInv, Leading
<1>4. PICK c \in Height : Goes(py, a, s, c) /\ Leads(py, t, c, Up(Ground, 0))
  BY <1>1, <1>3, LeadsFirst
<1>f. s.do = "chunk" => ~Miscounted(s.e) /\ ~Unsure(s.e)
  <2> SUFFICES ASSUME s.do = "chunk"
               PROVE  ~Miscounted(s.e) /\ ~Unsure(s.e)
    OBVIOUS
  <2>1. kind = "chunk"
    BY <1>1
  <2>2. found = Flaws(s.e)
    BY <2>1
  <2>3. Flaws(s.e) \subseteq {"misplaced"}
    BY <1>1, <2>2
  <2>4. "miscounted" \notin Flaws(s.e) /\ "unsure" \notin Flaws(s.e)
    BY <2>3
  <2> HIDE DEF s
  <2> QED
    BY <2>4 DEF Flaws
<1>5. PICK x \in {a, Up(a, 0)} : Leads(py, q, x, c)
  BY <1>1, <1>2, <1>4, <1>f, CalledLead
<1>6. Stands(gen, x)
  BY <1>3, <1>4, StandsUp DEF Goes
<1> HIDE DEF s, t, q
<1>7. Leads(py, q \o t, x, Up(Ground, 0))
  BY <1>4, <1>5, LeadsOn
<1>8. Leading'
  BY <1>1, <1>6, <1>7 DEF Leading
<1> QED
  BY <1>1, <1>2, <1>8 DEF GenerationInv

\* Every step, of the generator or of the machine, keeps it.
LEMMA StepsKeepLeading ==
  ASSUME GenerationInv, [Next]_vars
  PROVE  GenerationInv'
<1>1. CASE Begin
  <2>1. /\ status = "hir" /\ status' = "generating"
        /\ agenda' = ModuleSteps(program, py, repl) /\ UNCHANGED <<repl, py, gen, machine>>
    BY <1>1 DEF Begin
  <2>2. py \in Versions /\ repl \in BOOLEAN /\ gen = Fresh(py) /\ program \in Seq(Hir)
    BY <2>1, VersionAssumption, HirAssumption DEF GenerationInv, Modules
  <2>3. IsState(Fresh(py)) /\ Stands(Fresh(py), Ground)
    BY <2>2, FreshStands
  <2>4. Leads(py, ModuleSteps(program, py, repl), Ground, Up(Ground, 0))
    BY <2>2, ModuleLeads
  <2>5. Leading'
    BY <2>1, <2>2, <2>3, <2>4 DEF Leading
  <2>6. Fresh(py).py = py
    BY DEF Fresh
  <2> QED
    BY <2>1, <2>2, <2>3, <2>5, <2>6 DEF GenerationInv
<1>2. CASE Emit
  <2> DEFINE s == Head(agenda)
             h == Step(gen, s)
  <2>1. /\ status = "generating" /\ agenda # <<>> /\ s.do \notin Calling /\ gen' = h
        /\ agenda' = Tail(agenda) /\ UNCHANGED <<program, repl, py, flaws, machine, status>>
    BY <1>2 DEF Emit
  <2> SUFFICES ASSUME flaws \subseteq {"misplaced"}
               PROVE  GenerationInv'
    BY <2>1 DEF GenerationInv
  <2>2. IsState(gen) /\ gen.py = py
    BY <2>1 DEF GenerationInv
  <2>3. PICK a : Stands(gen, a) /\ Leads(py, agenda, a, Up(Ground, 0))
    BY <2>1 DEF GenerationInv, Leading
  <2>4. PICK c \in Height : Goes(py, a, s, c) /\ Leads(py, Tail(agenda), c, Up(Ground, 0))
    BY <2>1, <2>3, LeadsFirst
  <2>5. IsState(h) /\ Stands(h, c) /\ h.py = py
    BY <2>1, <2>2, <2>3, <2>4, StepSound
  <2> HIDE DEF h, s
  <2>6. Leading'
    BY <2>1, <2>4, <2>5 DEF Leading
  <2> QED
    BY <2>1, <2>5, <2>6 DEF GenerationInv
<1>3. CASE \/ EmitExpr \/ EmitChunk \/ EmitSimpleBlock
           \/ EmitArm \/ EmitGuard \/ EmitRequirement
  <2>1. \E kind \in Calling : \E found :
          /\ AtCall(kind, CalledSteps(py, Head(agenda)), found)
          /\ kind = "chunk" => found = Flaws(Head(agenda).e)
    <3> DEFINE s == Head(agenda)
    <3>1. /\ s.do = "expr" => CalledSteps(py, s) = ExprSteps(s.e)
          /\ s.do = "chunk" => CalledSteps(py, s) = ChunkSteps(py, s.e)
          /\ s.do = "block" => CalledSteps(py, s) = BlockSteps(s.b)
          /\ s.do = "arm" => CalledSteps(py, s) = ArmSteps(s.arm, s.isLast)
          /\ s.do = "guard" => CalledSteps(py, s) = GuardSteps(s.arm, s.i, s.isLast)
          /\ s.do = "requirement" => CalledSteps(py, s) = AbstractMethodSteps(py)
      BY DEF CalledSteps
    <3>2. EmitExpr => AtCall("expr", CalledSteps(py, s), {})
      BY <3>1 DEF EmitExpr, AtCall
    <3>3. EmitChunk => AtCall("chunk", CalledSteps(py, s), Flaws(s.e))
      BY <3>1 DEF EmitChunk, AtCall
    <3>4. EmitSimpleBlock => AtCall("block", CalledSteps(py, s), {})
      BY <3>1 DEF EmitSimpleBlock, AtCall
    <3>5. EmitArm => AtCall("arm", CalledSteps(py, s), {})
      BY <3>1 DEF EmitArm, AtCall
    <3>6. EmitGuard => AtCall("guard", CalledSteps(py, s), {})
      BY <3>1 DEF EmitGuard, AtCall
    <3>7. EmitRequirement => AtCall("requirement", CalledSteps(py, s), {})
      BY <3>1 DEF EmitRequirement, AtCall
    <3> HIDE DEF s
    <3> QED
      BY <1>3, <3>2, <3>3, <3>4, <3>5, <3>6, <3>7 DEF Calling, s
  <2> QED
    BY <2>1, CallKeepsLeading
<1>4. CASE Start
  BY <1>4 DEF Start, GenerationInv
<1>5. CASE Execute \/ GoOn \/ Branch1 \/ JumpTo \/ Iterate \/ Return \/ Raise
  <2>1. status = "running" /\ UNCHANGED <<generator, py>>
        /\ status' \in {"running", "returned", "raised"}
    BY <1>5 DEF Execute, GoOn, Branch1, JumpTo, Iterate, Return, Raise, At
  <2> QED
    BY <2>1 DEF generator, GenerationInv
<1>6. CASE UNCHANGED vars
  <2>1. UNCHANGED <<program, repl, gen, agenda, flaws, py, status>>
    BY <1>6 DEF vars, generator
  <2> QED
    BY <2>1 DEF GenerationInv, Leading
<1> QED
  BY <1>1, <1>2, <1>3, <1>4, <1>5, <1>6 DEF Next

\* The generator never crashes and none of its assertions about the length
\* of the stack fails (crash and the debug_power_assert! of codegen.rs), for
\* programs of any size and any version, before it meets an expression of
\* which HirForms says that it is miscounted, or may be.
THEOREM GenerationNeverCrashes == Spec => []GenerationSucceeds
<1>1. Init => GenerationInv
  BY DEF Init, GenerationInv
<1>2. GenerationInv /\ [Next]_vars => GenerationInv'
  BY StepsKeepLeading
<1>3. GenerationInv => GenerationSucceeds
  BY DEF GenerationInv, GenerationSucceeds, Leading, Stands, Fresh
<1> QED
  BY <1>1, <1>2, <1>3, PTL DEF Spec

-----------------------------------------------------------------------------
(* The end of a module. *)

Closed ==
  (status = "generating" /\ agenda = <<>> /\ flaws \subseteq {"misplaced"}) =>
    gen.len = 0 /\ gen.frames = <<>> /\ gen.outer = <<>>

\* When a module in which nothing is miscounted (HirForms) has been compiled,
\* the count is back at 0, whatever was nested in it: each handler has dropped
\* its frame, and each block the generator began has ended and given back the
\* count around it (emit, emit_block).
THEOREM ModuleLeavesNothing == Spec => []Closed
<1>1. Init => GenerationInv
  BY DEF Init, GenerationInv
<1>2. GenerationInv /\ [Next]_vars => GenerationInv'
  BY StepsKeepLeading
<1>3. GenerationInv => Closed
  <2> SUFFICES ASSUME GenerationInv, status = "generating", agenda = <<>>,
                      flaws \subseteq {"misplaced"}
               PROVE  gen.len = 0 /\ gen.frames = <<>> /\ gen.outer = <<>>
    BY DEF Closed
  <2>1. PICK a : Stands(gen, a) /\ Leads(py, <<>>, a, Up(Ground, 0))
    BY DEF GenerationInv, Leading
  <2>2. a = Up(Ground, 0)
    BY <2>1 DEF Leads
  <2>3. a.len = 0 /\ a.frames = <<>> /\ a.outer = <<>>
    BY <2>2 DEF Up, Level, Ground
  <2>4. gen.len = 0 /\ Len(gen.frames) = 0 /\ Len(gen.outer) = 0
    BY <2>1, <2>3 DEF Stands
  <2>5. PICK U : gen \in GenState(U)
    BY DEF GenerationInv, IsState
  <2>6. gen.frames \in Seq(FrameRecord) /\ gen.outer \in Seq([code : Seq(U), len : Nat, size : Nat])
    BY <2>5 DEF GenState
  <2> QED
    BY <2>4, <2>6, NoElements
<1> QED
  BY <1>1, <1>2, <1>3, PTL DEF Spec
==============================================================================
