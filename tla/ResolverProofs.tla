--------------------------- MODULE ResolverProofs ----------------------------
(***************************************************************************)
(* What dependency resolution guarantees, for projects of any size.        *)
(***************************************************************************)
EXTENDS ResolverProperties, DepGraphProofs

-----------------------------------------------------------------------------
(* The three things resolve() does to its stack of frames. *)

(* Its innermost frame changes, ...                                        *)
LEMMA ReplacedTop ==
  ASSUME NEW S, NEW s \in Seq(S), s # <<>>, NEW f \in S
  PROVE  LET t == <<f>> \o Tail(s)
         IN  /\ t \in Seq(S)
             /\ Len(t) = Len(s) /\ DOMAIN t = DOMAIN s
             /\ t[1] = f
             /\ \A i \in DOMAIN s : i > 1 => t[i] = s[i]
OBVIOUS

(* ... a frame is pushed on it, which changes, ...                         *)
LEMMA PushedTop ==
  ASSUME NEW S, NEW s \in Seq(S), s # <<>>, NEW f \in S, NEW below \in S
  PROVE  LET t == <<f, below>> \o Tail(s)
         IN  /\ t \in Seq(S)
             /\ Len(t) = Len(s) + 1 /\ DOMAIN t = 1 .. Len(s) + 1
             /\ t[1] = f /\ t[2] = below
             /\ \A i \in DOMAIN s : i > 1 => t[i + 1] = s[i]
OBVIOUS

(* ... or it is popped, and the next one changes.                          *)
LEMMA TailOfTail ==
  ASSUME NEW S, NEW s \in Seq(S), Len(s) > 1
  PROVE  /\ Tail(Tail(s)) \in Seq(S) /\ Len(Tail(Tail(s))) = Len(s) - 2
         /\ \A i \in 1 .. Len(s) - 2 : Tail(Tail(s))[i] = s[i + 2]
<1> DEFINE t == Tail(s)
<1>1. t \in Seq(S) /\ Len(t) = Len(s) - 1 /\ t # <<>>
      /\ \A i \in 1 .. Len(s) - 1 : t[i] = s[i + 1]
  <2>1. s # <<>>
    OBVIOUS
  <2>2. t \in Seq(S) /\ Len(t) = Len(s) - 1
    BY <2>1
  <2>3. \A i \in 1 .. Len(s) - 1 : t[i] = s[i + 1]
    BY <2>1
  <2> HIDE DEF t
  <2>4. t # <<>>
    <3>1. Len(t) # 0
      BY <2>2
    <3>2. Len(<<>>) = 0
      OBVIOUS
    <3> QED
      BY <3>1, <3>2
  <2> QED
    BY <2>2, <2>3, <2>4
<1> HIDE DEF t
<1>2. Tail(t) \in Seq(S) /\ Len(Tail(t)) = Len(t) - 1
      /\ \A i \in 1 .. Len(t) - 1 : Tail(t)[i] = t[i + 1]
  BY <1>1
<1>3. ASSUME NEW i \in 1 .. Len(s) - 2 PROVE Tail(t)[i] = s[i + 2]
  <2>1. i \in 1 .. Len(t) - 1 /\ i + 1 \in 1 .. Len(s) - 1 /\ (i + 1) + 1 = i + 2
    BY <1>1
  <2> QED
    BY <2>1, <1>1, <1>2
<1>4. Tail(t) \in Seq(S) /\ Len(Tail(t)) = Len(s) - 2
  BY <1>1, <1>2
<1> QED
  BY <1>3, <1>4 DEF t

LEMMA PoppedTop ==
  ASSUME NEW S, NEW s \in Seq(S), Len(s) > 1, NEW f \in S
  PROVE  LET t == <<f>> \o Tail(Tail(s))
         IN  /\ t \in Seq(S)
             /\ Len(t) = Len(s) - 1 /\ DOMAIN t = 1 .. Len(s) - 1
             /\ t[1] = f
             /\ \A i \in DOMAIN t : i > 1 => t[i] = s[i + 1]
<1> DEFINE r == Tail(Tail(s))
           t == <<f>> \o r
<1>1. r \in Seq(S) /\ Len(r) = Len(s) - 2 /\ Len(s) \in Nat
      /\ \A i \in 1 .. Len(s) - 2 : r[i] = s[i + 2]
  BY TailOfTail
<1> HIDE DEF r
<1>2. /\ t \in Seq(S) /\ Len(t) = Len(r) + 1 /\ t[1] = f
      /\ \A i \in 1 .. Len(r) : t[i + 1] = r[i]
  BY <1>1
<1> HIDE DEF t
<1>3. Len(t) = Len(s) - 1 /\ DOMAIN t = 1 .. Len(s) - 1
  BY <1>1, <1>2
<1>4. ASSUME NEW i \in 1 .. Len(s) - 1, i > 1 PROVE t[i] = s[i + 1]
  <2>1. i - 1 \in 1 .. Len(s) - 2 /\ (i - 1) + 1 = i /\ (i - 1) + 2 = i + 1
    BY <1>1, <1>4
  <2> QED
    BY <2>1, <1>1, <1>2
<1> QED
  BY <1>2, <1>3, <1>4 DEF t, r

LEMMA NextImportType ==
  ASSUME NEW f \in Frames
  PROVE  /\ NextImport(f) \in Frames
         /\ NextImport(f).mod = f.mod /\ NextImport(f).via = f.via
         /\ NextImport(f).errs = f.errs /\ NextImport(f).next = f.next + 1
<1> DEFINE e == [f EXCEPT !.next = @ + 1]
<1>1. e \in Frames /\ e.mod = f.mod /\ e.via = f.via /\ e.errs = f.errs /\ e.next = f.next + 1
  BY DEF Frames
<1>2. NextImport(f) = [e EXCEPT !.packageDone = FALSE]
  BY DEF NextImport
<1> HIDE DEF e
<1> QED
  BY <1>1, <1>2 DEF Frames

LEMMA MoreErrsType ==
  ASSUME NEW f \in Frames, NEW D \in SUBSET Paths
  PROVE  LET e == [f EXCEPT !.errs = @ \cup D]
         IN  /\ e \in Frames
             /\ e.mod = f.mod /\ e.via = f.via
             /\ e.errs = f.errs \cup D /\ e.next = f.next
BY DEF Frames

LEMMA FrameType ==
  ASSUME NEW m \in Paths, NEW via \in {"root", "import", "package"}
  PROVE  /\ Frame(m, via) \in Frames
         /\ Frame(m, via).mod = m /\ Frame(m, via).via = via
         /\ Frame(m, via).errs = {} /\ Frame(m, via).next = 1
BY DEF Frames, Frame

-----------------------------------------------------------------------------
(* The strengthening that makes types inductive: the outermost frame, and it *)
(* alone, is the root's, so a frame that returns to an importer has one.     *)

RootOutermost ==
  \A i \in DOMAIN stack : stack[i].via = "root" <=> i = Len(stack)

Typed == ResolverTypeOK /\ RootOutermost

LEMMA BodyType ==
  ASSUME ResolverTypeOK, NEW m \in Paths
  PROVE  Body(m) \in Seq(Paths)
<1>1. project.imports \in [Paths -> Seq(Paths)]
  BY DEF ResolverTypeOK, Layout
<1>2. project.imports[m] \in Seq(Paths)
  BY <1>1
<1> QED
  BY <1>2 DEF Body

LEMMA TopType ==
  ASSUME ResolverTypeOK, stack # <<>>
  PROVE  /\ Top \in Frames /\ Top = stack[1] /\ From \in Paths
         /\ 1 \in DOMAIN stack /\ Len(stack) \in Nat /\ DOMAIN stack = 1 .. Len(stack)
<1>1. Top \in Frames /\ Top = stack[1] /\ 1 \in DOMAIN stack
      /\ Len(stack) \in Nat /\ DOMAIN stack = 1 .. Len(stack)
  BY DEF ResolverTypeOK, Top
<1> QED
  BY <1>1 DEF From, Frames

LEMMA ImportType ==
  ASSUME ResolverTypeOK, Importing
  PROVE  Import \in Paths /\ Top.next \in DOMAIN Body(From)
<1>1. Top \in Frames /\ From \in Paths
  BY TopType DEF Importing
<1>2. Body(From) \in Seq(Paths) /\ Top.next \in Nat \ {0} /\ Top.next <= Len(Body(From))
  BY <1>1, BodyType DEF Importing, Frames, From
<1> QED
  BY <1>2 DEF Import

LEMMA PackageType ==
  ASSUME ResolverTypeOK, Importing, PackagePending
  PROVE  Package \in Paths
<1>1. project.package \in [Paths -> Paths \cup {NoPath}]
  BY DEF ResolverTypeOK, Layout
<1>2. Package \in {NoPath, project.package[Import]} /\ Import \in Paths
  BY ImportType DEF Package, PackageRoot
<1> QED
  BY <1>1, <1>2 DEF PackagePending

(* A frame that returns to a caller has a caller below it.                 *)
LEMMA CallerType ==
  ASSUME Typed, Exhausted, Top.via # "root"
  PROVE  Len(stack) > 1 /\ 2 \in DOMAIN stack /\ stack[2] \in Frames
<1>1. Top = stack[1] /\ 1 \in DOMAIN stack /\ Len(stack) \in Nat
      /\ DOMAIN stack = 1 .. Len(stack)
  BY TopType DEF Typed, Exhausted
<1>2. Len(stack) > 1
  BY <1>1 DEF Typed, RootOutermost
<1> QED
  BY <1>1, <1>2 DEF Typed, ResolverTypeOK

(* Each of the three operations on the stack keeps its type.               *)
LEMMA ReplaceKeepsStack ==
  ASSUME Typed, stack # <<>>, NEW f \in Frames, f.via = Top.via,
         stack' = <<f>> \o Tail(stack)
  PROVE  stack' \in Seq(Frames) /\ RootOutermost'
<1>1. stack \in Seq(Frames) /\ Top = stack[1] /\ 1 \in DOMAIN stack
      /\ Len(stack) \in Nat /\ DOMAIN stack = 1 .. Len(stack)
  BY TopType DEF Typed, ResolverTypeOK
<1>2. /\ stack' \in Seq(Frames) /\ Len(stack') = Len(stack)
      /\ DOMAIN stack' = DOMAIN stack /\ stack'[1] = f
      /\ \A i \in DOMAIN stack : i > 1 => stack'[i] = stack[i]
  BY <1>1, ReplacedTop
<1>3. \A i \in DOMAIN stack : stack'[i].via = stack[i].via
  BY <1>1, <1>2
<1> QED
  BY <1>1, <1>2, <1>3 DEF Typed, RootOutermost

LEMMA PushKeepsStack ==
  ASSUME Typed, stack # <<>>, NEW f \in Frames, f.via # "root",
         NEW below \in Frames, below.via = Top.via,
         stack' = Pushed(f, below)
  PROVE  stack' \in Seq(Frames) /\ RootOutermost'
<1>1. stack \in Seq(Frames) /\ Top = stack[1] /\ 1 \in DOMAIN stack
      /\ Len(stack) \in Nat /\ DOMAIN stack = 1 .. Len(stack)
  BY TopType DEF Typed, ResolverTypeOK
<1>2. /\ stack' \in Seq(Frames) /\ Len(stack') = Len(stack) + 1
      /\ DOMAIN stack' = 1 .. Len(stack) + 1 /\ stack'[1] = f /\ stack'[2] = below
      /\ \A i \in DOMAIN stack : i > 1 => stack'[i + 1] = stack[i]
  BY <1>1, PushedTop DEF Pushed
<1>3. ASSUME NEW i \in DOMAIN stack', i > 1
      PROVE  i - 1 \in DOMAIN stack /\ stack'[i].via = stack[i - 1].via
  <2>1. i - 1 \in DOMAIN stack /\ (i - 1) + 1 = i
    BY <1>1, <1>2, <1>3
  <2>2. CASE i = 2
    BY <1>1, <1>2, <2>2
  <2>3. CASE i # 2
    <3>1. i - 1 > 1
      BY <1>1, <1>2, <1>3, <2>3
    <3>2. stack'[(i - 1) + 1] = stack[i - 1]
      BY <1>2, <2>1, <3>1
    <3> QED
      BY <2>1, <3>2
  <2> QED
    BY <2>1, <2>2, <2>3
<1>4. ASSUME NEW i \in DOMAIN stack'
      PROVE  stack'[i].via = "root" <=> i = Len(stack')
  <2>1. CASE i = 1
    BY <1>1, <1>2, <2>1
  <2>2. CASE i > 1
    <3>1. i - 1 \in DOMAIN stack /\ stack'[i].via = stack[i - 1].via
      BY <1>3, <2>2
    <3>2. stack[i - 1].via = "root" <=> i - 1 = Len(stack)
      BY <3>1 DEF Typed, RootOutermost
    <3> QED
      BY <1>1, <1>2, <3>1, <3>2
  <2> QED
    BY <1>1, <1>2, <2>1, <2>2
<1> QED
  BY <1>2, <1>4 DEF RootOutermost

LEMMA ReturnKeepsStack ==
  ASSUME Typed, Exhausted, Top.via # "root",
         NEW f \in Frames, f.via = stack[2].via, ReturnTo(f)
  PROVE  stack' \in Seq(Frames) /\ RootOutermost'
<1>1. stack \in Seq(Frames) /\ Len(stack) > 1 /\ 2 \in DOMAIN stack
      /\ Len(stack) \in Nat /\ DOMAIN stack = 1 .. Len(stack)
  BY CallerType, TopType DEF Typed, ResolverTypeOK, Exhausted
<1>2. /\ stack' \in Seq(Frames) /\ Len(stack') = Len(stack) - 1
      /\ DOMAIN stack' = 1 .. Len(stack) - 1 /\ stack'[1] = f
      /\ \A i \in DOMAIN stack' : i > 1 => stack'[i] = stack[i + 1]
  <2>1. stack' = <<f>> \o Tail(Tail(stack))
    BY DEF ReturnTo
  <2> DEFINE t == <<f>> \o Tail(Tail(stack))
  <2>2. /\ t \in Seq(Frames) /\ Len(t) = Len(stack) - 1
        /\ DOMAIN t = 1 .. Len(stack) - 1 /\ t[1] = f
        /\ \A i \in DOMAIN t : i > 1 => t[i] = stack[i + 1]
    BY <1>1, PoppedTop
  <2> HIDE DEF t
  <2>3. stack' = t
    BY <2>1 DEF t
  <2> QED
    BY <2>2, <2>3
<1>3. \A i \in DOMAIN stack' : i + 1 \in DOMAIN stack /\ stack'[i].via = stack[i + 1].via
  BY <1>1, <1>2
<1>4. ASSUME NEW i \in DOMAIN stack'
      PROVE  stack'[i].via = "root" <=> i = Len(stack')
  <2>1. stack[i + 1].via = "root" <=> i + 1 = Len(stack)
    BY <1>3 DEF Typed, RootOutermost
  <2> QED
    BY <1>1, <1>2, <1>3, <2>1
<1> QED
  BY <1>2, <1>4 DEF RootOutermost

-----------------------------------------------------------------------------
LEMMA GraphTypes ==
  ASSUME ResolverTypeOK
  PROVE  WithinPaths(graph)
BY DEF ResolverTypeOK, WithinPaths

LEMMA IncRefWithinPaths ==
  ASSUME NEW g, WithinPaths(g), NEW r \in Paths, NEW t \in Paths
  PROVE  WithinPaths(IncRef(g, r, t))
<1>1. WithinPaths(AddNode(g, r))
  BY DEF WithinPaths, AddNode, Parents
<1>2. WithinPaths(AddEdge(AddNode(g, r), r, t))
  BY <1>1 DEF WithinPaths, AddEdge
<1> QED
  BY <1>1, <1>2 DEF IncRef

(* What register() does to the graph, with or without a package.           *)
LEMMA AddNodeWithinPaths ==
  ASSUME NEW g, WithinPaths(g), NEW p \in Paths
  PROVE  WithinPaths(AddNode(g, p))
BY DEF WithinPaths, AddNode, Parents

LEMMA TypedInit ==
  Init => Typed
<1> SUFFICES ASSUME Init PROVE Typed
  OBVIOUS
<1>1. Frame(Root, "root") \in Frames /\ Frame(Root, "root").via = "root"
  BY RootAssumption, FrameType
<1>2. /\ stack \in Seq(Frames) /\ Len(stack) = 1 /\ DOMAIN stack = {1}
      /\ stack[1].via = "root"
  <2> DEFINE f == Frame(Root, "root")
  <2>1. stack = <<f>>
    BY DEF Init
  <2> HIDE DEF f
  <2>2. f \in Frames /\ f.via = "root"
    BY <1>1 DEF f
  <2> QED
    BY <2>1, <2>2
<1>3. RootOutermost
  BY <1>2 DEF RootOutermost
<1>4. DOMAIN graph = {} /\ DOMAIN inlines = {}
  BY DEF Init, EmptyGraph
<1>5. project \in Layout
  BY ProjectsAssumption DEF Init
<1> QED
  BY <1>2, <1>3, <1>4, <1>5 DEF Typed, ResolverTypeOK, Init

LEMMA TypedNext ==
  Typed /\ [Next]_resolveVars => Typed'
<1> SUFFICES ASSUME Typed, [Next]_resolveVars PROVE Typed'
  OBVIOUS
<1>1. WithinPaths(graph) /\ ResolverTypeOK
  BY GraphTypes DEF Typed
<1>2. CASE RegisterPackage
  <2>1. Importing /\ PackagePending
    BY <1>2 DEF RegisterPackage
  <2>2. Import \in Paths /\ From \in Paths /\ Package \in Paths /\ Top \in Frames
        /\ stack # <<>>
    BY <1>1, <2>1, TopType, ImportType, PackageType DEF Importing
  <2>3. WithinPaths(graph')
    BY <1>1, <1>2, <2>2, AddNodeWithinPaths, IncRefWithinPaths DEF RegisterPackage
  <2> DEFINE below == [Top EXCEPT !.packageDone = TRUE]
  <2>4. below \in Frames /\ below.via = Top.via
    BY <2>2 DEF Frames
  <2>5. stack' = <<below>> \o Tail(stack) \/ stack' = Pushed(Frame(Package, "package"), below)
    BY <1>2 DEF RegisterPackage
  <2>6. Frame(Package, "package") \in Frames /\ Frame(Package, "package").via # "root"
    BY <2>2, FrameType
  <2> HIDE DEF below
  <2>7. stack' \in Seq(Frames) /\ RootOutermost'
    <3>1. CASE stack' = <<below>> \o Tail(stack)
      BY <2>2, <2>4, <3>1, ReplaceKeepsStack
    <3>2. CASE stack' = Pushed(Frame(Package, "package"), below)
      BY <2>2, <2>4, <2>6, <3>2, PushKeepsStack
    <3> QED
      BY <2>5, <3>1, <3>2
  <2> QED
    BY <1>1, <1>2, <2>3, <2>7 DEF RegisterPackage, Typed, ResolverTypeOK, WithinPaths
<1>3. ASSUME RegisterImport, graph' = IncRef(AddNode(graph, Import), From, Import),
             stack' \in Seq(Frames), RootOutermost'
      PROVE  Typed'
  <2>1. Import \in Paths /\ From \in Paths
    BY <1>1, <1>3, TopType, ImportType DEF RegisterImport, Importing
  <2>2. WithinPaths(graph')
    BY <1>1, <1>3, <2>1, AddNodeWithinPaths, IncRefWithinPaths
  <2> QED
    BY <1>1, <1>3, <2>2 DEF RegisterImport, Typed, ResolverTypeOK, WithinPaths
<1>4. CASE RefuseImport
  <2>1. Top \in Frames /\ Import \in Paths /\ stack # <<>>
    BY <1>1, <1>4, TopType, ImportType DEF RefuseImport, RegisterImport, Importing
  <2> DEFINE e == [Top EXCEPT !.errs = @ \cup {Import}]
  <2>2. e \in Frames /\ e.via = Top.via
    BY <2>1, MoreErrsType
  <2>3. stack' = <<NextImport(e)>> \o Tail(stack)
    BY <1>4 DEF RefuseImport
  <2> HIDE DEF e
  <2>4. NextImport(e) \in Frames /\ NextImport(e).via = Top.via
    BY <2>2, NextImportType
  <2>5. stack' \in Seq(Frames) /\ RootOutermost'
    BY <2>1, <2>3, <2>4, ReplaceKeepsStack
  <2> QED
    BY <1>3, <1>4, <2>5 DEF RefuseImport
<1>5. CASE ImportKnown
  <2>1. Top \in Frames /\ stack # <<>>
    BY <1>1, <1>5, TopType DEF ImportKnown, AcceptImport, RegisterImport, Importing
  <2>2. NextImport(Top) \in Frames /\ NextImport(Top).via = Top.via
    BY <2>1, NextImportType
  <2>3. stack' \in Seq(Frames) /\ RootOutermost'
    BY <1>5, <2>1, <2>2, ReplaceKeepsStack DEF ImportKnown
  <2> QED
    BY <1>3, <1>5, <2>3 DEF ImportKnown, AcceptImport
<1>6. CASE Descend
  <2>1. Top \in Frames /\ Import \in Paths /\ stack # <<>>
    BY <1>1, <1>6, TopType, ImportType DEF Descend, AcceptImport, RegisterImport, Importing
  <2>2. Frame(Import, "import") \in Frames /\ Frame(Import, "import").via # "root"
    BY <2>1, FrameType
  <2>3. stack' \in Seq(Frames) /\ RootOutermost'
    BY <1>6, <2>1, <2>2, PushKeepsStack DEF Descend
  <2> QED
    BY <1>3, <1>6, <2>3 DEF Descend, AcceptImport
<1>7. CASE ReturnPackage
  <2>1. Exhausted /\ Top.via # "root" /\ ReturnTo(stack[2])
    BY <1>7 DEF ReturnPackage
  <2>2. stack[2] \in Frames /\ Top.mod \in Paths
    BY <1>1, <2>1, CallerType, TopType DEF Exhausted, From
  <2>3. stack' \in Seq(Frames) /\ RootOutermost'
    BY <2>1, <2>2, ReturnKeepsStack
  <2> QED
    BY <1>1, <1>7, <2>2, <2>3 DEF ReturnPackage, Typed, ResolverTypeOK
<1>8. CASE ReturnImport
  <2>1. Exhausted /\ Top.via # "root" /\ ReturnTo(NextImport(stack[2]))
    BY <1>8 DEF ReturnImport
  <2>2. stack[2] \in Frames /\ Top.mod \in Paths
    BY <1>1, <2>1, CallerType, TopType DEF Exhausted, From
  <2>3. NextImport(stack[2]) \in Frames /\ NextImport(stack[2]).via = stack[2].via
    BY <2>2, NextImportType
  <2>4. stack' \in Seq(Frames) /\ RootOutermost'
    BY <2>1, <2>3, ReturnKeepsStack
  <2> QED
    BY <1>1, <1>8, <2>2, <2>4 DEF ReturnImport, Typed, ResolverTypeOK
<1>9. CASE ReturnCyclic
  <2> DEFINE e == [stack[2] EXCEPT !.errs = @ \cup ErrsLeft]
  <2>1. Exhausted /\ Top.via # "root" /\ ReturnTo(NextImport(e))
    BY <1>9 DEF ReturnCyclic
  <2>2. stack[2] \in Frames /\ Top.mod \in Paths /\ Top \in Frames
    BY <1>1, <2>1, CallerType, TopType DEF Exhausted, From
  <2>3. stack[2].mod \in Paths /\ stack[2].next \in Nat \ {0} /\ ErrsLeft \in SUBSET Paths
    BY <2>2 DEF Frames, ErrsLeft
  <2>4. e \in Frames /\ e.via = stack[2].via
    BY <2>2, <2>3, MoreErrsType
  <2> HIDE DEF e
  <2>5. NextImport(e) \in Frames /\ NextImport(e).via = stack[2].via
    BY <2>4, NextImportType
  <2>6. stack' \in Seq(Frames) /\ RootOutermost'
    BY <2>1, <2>5, ReturnKeepsStack
  <2>7. DOMAIN inlines' \subseteq Paths /\ \A p \in DOMAIN inlines' : inlines'[p] \in Paths
    BY <1>1, <1>9, <2>2, <2>3 DEF ReturnCyclic, Inline, ResolverTypeOK
  <2>8. inlinedAt' \subseteq Paths \X (Nat \ {0}) /\ cyclic' \subseteq Paths
    BY <1>1, <1>9, <2>3 DEF ReturnCyclic, ResolverTypeOK
  <2> QED
    BY <1>1, <1>9, <2>6, <2>7, <2>8 DEF ReturnCyclic, Typed, ResolverTypeOK
<1>10. CASE ReturnRoot
  <2>1. Top \in Frames
    BY <1>1, <1>10, TopType DEF ReturnRoot, Exhausted
  <2>2. stack' \in Seq(Frames) /\ RootOutermost'
    BY <1>10 DEF ReturnRoot, RootOutermost
  <2>3. resolveErrs' \subseteq Paths
    BY <1>10, <2>1 DEF ReturnRoot, Frames
  <2> QED
    BY <1>1, <1>10, <2>2, <2>3 DEF ReturnRoot, Typed, ResolverTypeOK
<1>11. CASE UNCHANGED resolveVars
  BY <1>11 DEF resolveVars, Typed, ResolverTypeOK, RootOutermost
<1> QED
  BY <1>2, <1>4, <1>5, <1>6, <1>7, <1>8, <1>9, <1>10, <1>11 DEF Next, Resolve, Idle

(* Type correctness: every frame of the recursion, graph node and inlined  *)
(* module is well formed, and resolve() always has an importer to return   *)
(* to, whatever the project.                                               *)
THEOREM ResolverTypeCorrect == Spec => []ResolverTypeOK
<1>1. Typed => ResolverTypeOK
  BY DEF Typed
<1> QED
  BY <1>1, TypedInit, TypedNext, PTL DEF Spec

-----------------------------------------------------------------------------
LEMMA GraphAcyclicNext ==
  Typed /\ GraphAcyclic /\ [Next]_resolveVars => GraphAcyclic'
<1> SUFFICES ASSUME Typed, GraphAcyclic, [Next]_resolveVars PROVE GraphAcyclic'
  OBVIOUS
<1>1. WithinPaths(graph) /\ Acyclic(graph) /\ ResolverTypeOK
  BY GraphTypes DEF Typed, GraphAcyclic
<1>2. CASE RegisterPackage
  <2>1. Import \in Paths /\ From \in Paths /\ Package \in Paths
    BY <1>1, <1>2, TopType, ImportType, PackageType DEF RegisterPackage, Importing
  <2> DEFINE g == AddNode(AddNode(graph, Import), Package)
  <2>2. WithinPaths(g) /\ Acyclic(g)
    BY <1>1, <2>1, AddNodeAcyclic
  <2>3. graph' = IncRef(g, From, Package)
    BY <1>2 DEF RegisterPackage
  <2> HIDE DEF g
  <2> QED
    BY <2>1, <2>2, <2>3, IncRefAcyclic DEF GraphAcyclic
<1>3. CASE RefuseImport \/ ImportKnown \/ Descend
  <2>1. Importing /\ graph' = IncRef(AddNode(graph, Import), From, Import)
    BY <1>3 DEF RefuseImport, ImportKnown, Descend, AcceptImport, RegisterImport
  <2>2. Import \in Paths /\ From \in Paths
    BY <1>1, <2>1, TopType, ImportType DEF Importing
  <2> DEFINE g == AddNode(graph, Import)
  <2>3. WithinPaths(g) /\ Acyclic(g)
    BY <1>1, <2>2, AddNodeAcyclic
  <2>4. graph' = IncRef(g, From, Import)
    BY <2>1
  <2> HIDE DEF g
  <2> QED
    BY <2>2, <2>3, <2>4, IncRefAcyclic DEF GraphAcyclic
<1>4. CASE ReturnPackage \/ ReturnImport \/ ReturnCyclic \/ ReturnRoot \/ UNCHANGED resolveVars
  <2>1. graph' = graph
    BY <1>4 DEF ReturnPackage, ReturnImport, ReturnCyclic, ReturnRoot, resolveVars
  <2> QED
    BY <1>1, <2>1 DEF GraphAcyclic
<1> QED
  BY <1>2, <1>3, <1>4 DEF Next, Resolve, Idle

(* However many modules and packages import one another, the graph the     *)
(* execution phase schedules from never gets a cycle.                      *)
THEOREM ResolutionKeepsAcyclic == Spec => []GraphAcyclic
<1>1. Init => GraphAcyclic
  BY EmptyGraphAcyclic DEF Init, GraphAcyclic
<1> QED
  BY <1>1, TypedInit, TypedNext, GraphAcyclicNext, PTL DEF Spec

-----------------------------------------------------------------------------
(* What holds all along the recursion.  The results below are about the     *)
(* projects whose packages are apart; what they rest on is stated of the    *)
(* whole stack of frames at once, so that no step needs an induction.       *)

\* The body of a module, and who is inlined where, as functions of the state.
BodyIn(q, m) == IF m \in q.unparsed THEN <<>> ELSE q.imports[m]
Inliners(i) == [p \in DOMAIN i |-> {i[p]}]

Mods == {stack[k].mod : k \in DOMAIN stack}
Completed == asts \cup DOMAIN inlines

\* The graph has edges only where the text of the modules calls for them.
EdgesNeeded == \A q \in Paths : Parents(graph, q) \subseteq Parents(Needs(project), q)

\* Every importer on the stack already depends on what is resolved above it.
Chained ==
  \A i, j \in DOMAIN stack : i < j => stack[i].mod \in Ancestors(graph, stack[j].mod)

\* What a frame is there for: the root, or a package or an import of the next.
Linked(frame, below) ==
  /\ frame.via = "package" => frame.mod \in Dragged(project, below.mod)
  /\ frame.via = "import" =>
       /\ below.next \in DOMAIN BodyIn(project, below.mod)
       /\ frame.mod = BodyIn(project, below.mod)[below.next]
       /\ DependsOn(graph, below.mod, frame.mod)

FramesLinked ==
  \A k \in DOMAIN stack :
    /\ k = Len(stack) => stack[k].mod = Root
    /\ k < Len(stack) => Linked(stack[k], stack[k + 1])

\* An error names a module further down the stack, which the module needs.
ErrsTravel ==
  \A k \in DOMAIN stack : \A e \in stack[k].errs :
    /\ \E j \in DOMAIN stack : j > k /\ stack[j].mod = e
    /\ e \in Ancestors(Needs(project), stack[k].mod)

\* A module with a node is finished, or being resolved, or is the import of a
\* frame that is busy with the package of that import.
PendingIn(q, frame, p) ==
  /\ frame.packageDone
  /\ frame.next \in DOMAIN BodyIn(q, frame.mod)
  /\ p = BodyIn(q, frame.mod)[frame.next]

Accounted ==
  /\ asts \cap DOMAIN inlines = {}
  /\ Completed \cap (Mods \cup {Root}) = {}
  /\ (Completed \cup Mods) \ {Root} \subseteq DOMAIN graph
  /\ \A p \in DOMAIN graph :
       \/ p \in Completed \cup Mods \cup {Root}
       \/ \E k \in DOMAIN stack : PendingIn(project, stack[k], p)

\* Completed modules depend on finished ones, those on the stack also on the
\* one above them, and the others on nothing yet.
FinishedClosed ==
  /\ Closed(graph, Completed)
  /\ \A k \in DOMAIN stack : \A t \in Parents(graph, stack[k].mod) :
       t \in Completed \/ (k > 1 /\ t = stack[k - 1].mod)
  /\ \A p \in Paths \ (Completed \cup Mods \cup {Root}) : Parents(graph, p) = {}

InlinesGrounded ==
  /\ Acyclic(Inliners(inlines))
  /\ \A p \in DOMAIN inlines :
       Ancestors(Inliners(inlines), p) \cap (asts \cup Mods \cup {Root}) # {}

\* An import already dealt with has its edge, or is of a module the importer is
\* inlined into, or will be: its error is on the way down.
SettledIn(g, i, frames, m, p) ==
  \/ DependsOn(g, m, p)
  \/ p \in Ancestors(Inliners(i), m)
  \/ \E k \in DOMAIN frames :
       /\ p \in frames[k].errs
       /\ frames[k].mod \in {m} \cup Ancestors(Inliners(i), m)

Settled(m, p) == SettledIn(graph, inlines, stack, m, p)

ImportsSettled ==
  /\ \A m \in Completed : \A p \in Imported(project, m) \ {m} : Settled(m, p)
  /\ \A k \in DOMAIN stack : \A i \in DOMAIN BodyIn(project, stack[k].mod) :
       i < stack[k].next /\ BodyIn(project, stack[k].mod)[i] # stack[k].mod =>
         Settled(stack[k].mod, BodyIn(project, stack[k].mod)[i])
  /\ stack = <<>> => \A p \in Imported(project, Root) \ {Root} : Settled(Root, p)

Inv ==
  /\ Typed /\ GraphAcyclic /\ PackagesApart(project)
  /\ EdgesNeeded /\ Chained /\ FramesLinked /\ ErrsTravel
  /\ Accounted /\ FinishedClosed /\ InlinesGrounded /\ ImportsSettled
  /\ resolveErrs = {}

-----------------------------------------------------------------------------
(* What the invariant says of a state. *)

LEMMA StackFacts ==
  ASSUME Typed
  PROVE  /\ Len(stack) \in Nat /\ DOMAIN stack = 1 .. Len(stack)
         /\ \A k \in DOMAIN stack : stack[k] \in Frames /\ stack[k].mod \in Paths
         /\ \A k \in DOMAIN stack : stack[k].via = "root" <=> k = Len(stack)
         /\ Mods \subseteq Paths
<1>1. stack \in Seq(Frames)
  BY DEF Typed, ResolverTypeOK
<1>2. Len(stack) \in Nat /\ DOMAIN stack = 1 .. Len(stack)
      /\ \A k \in DOMAIN stack : stack[k] \in Frames
  BY <1>1
<1>3. \A k \in DOMAIN stack : stack[k].mod \in Paths
  BY <1>2 DEF Frames
<1> QED
  BY <1>2, <1>3 DEF Typed, RootOutermost, Mods

LEMMA BodyFacts ==
  ASSUME ResolverTypeOK, NEW m \in Paths
  PROVE  /\ Body(m) = BodyIn(project, m) /\ BodyIn(project, m) \in Seq(Paths)
         /\ ImportSet(m) = Imported(project, m)
         /\ Imported(project, m) = {BodyIn(project, m)[i] : i \in DOMAIN BodyIn(project, m)}
         /\ Imported(project, m) \subseteq Paths
<1>1. Body(m) = BodyIn(project, m) /\ Body(m) \in Seq(Paths)
  BY BodyType DEF Body, BodyIn
<1>2. Imported(project, m) = {BodyIn(project, m)[i] : i \in DOMAIN BodyIn(project, m)}
  BY DEF Imported, BodyIn
<1>3. \A i \in DOMAIN BodyIn(project, m) : BodyIn(project, m)[i] \in Paths
  BY <1>1
<1> QED
  BY <1>1, <1>2, <1>3 DEF ImportSet

LEMMA NeedsFacts ==
  ASSUME ResolverTypeOK
  PROVE  /\ WithinPaths(Needs(project))
         /\ \A m \in Paths : /\ Dragged(project, m) \subseteq Paths
                             /\ Parents(Needs(project), m)
                                  = (Imported(project, m) \cup Dragged(project, m)) \ {m}
<1>1. project.package \in [Paths -> Paths \cup {NoPath}]
  BY DEF ResolverTypeOK, Layout
<1>2. ASSUME NEW m \in Paths PROVE Dragged(project, m) \subseteq Paths
  <2>1. \A x \in Imported(project, m) : project.package[x] \in Paths \cup {NoPath}
    BY <1>1, BodyFacts
  <2> QED
    BY <2>1 DEF Dragged
<1>3. DOMAIN Needs(project) = Paths
      /\ \A m \in Paths : Needs(project)[m]
                            = (Imported(project, m) \cup Dragged(project, m)) \ {m}
  BY DEF Needs
<1>4. WithinPaths(Needs(project))
  BY <1>2, <1>3, BodyFacts DEF WithinPaths
<1> QED
  BY <1>2, <1>3, <1>4 DEF Parents

LEMMA ImportFacts ==
  ASSUME ResolverTypeOK, Importing
  PROVE  /\ Top.next \in DOMAIN BodyIn(project, From)
         /\ Import = BodyIn(project, From)[Top.next]
         /\ Import # From => Import \in Parents(Needs(project), From)
         /\ PackagePending => Package \in Dragged(project, From)
<1>1. From \in Paths /\ Import \in Paths /\ Top.next \in DOMAIN Body(From)
  BY TopType, ImportType DEF Importing
<1>2. Top.next \in DOMAIN BodyIn(project, From) /\ Import = BodyIn(project, From)[Top.next]
  BY <1>1, BodyFacts DEF Import
<1>3. Import \in Imported(project, From)
  BY <1>1, <1>2, BodyFacts
<1>4. PackagePending => Package \in Dragged(project, From)
  BY <1>3 DEF PackagePending, Package, PackageRoot, Dragged
<1> QED
  BY <1>1, <1>2, <1>3, <1>4, NeedsFacts

(* The recursion never meets a module it is in the middle of.              *)
LEMMA ChainedNoReentry ==
  ASSUME Typed, GraphAcyclic, Chained
  PROVE  NoReentry
<1> SUFFICES ASSUME NEW i \in DOMAIN stack, NEW j \in DOMAIN stack,
                    stack[i].mod = stack[j].mod, i < j
             PROVE  FALSE
  <2>1. Len(stack) \in Nat /\ DOMAIN stack = 1 .. Len(stack)
    BY StackFacts
  <2> QED
    BY <2>1 DEF NoReentry
<1>1. stack[j].mod \in Paths /\ stack[j].mod \in Ancestors(graph, stack[j].mod)
  BY StackFacts DEF Chained
<1> QED
  BY <1>1 DEF GraphAcyclic, Acyclic, DeepDependsOn

LEMMA AddNodeAncestors ==
  ASSUME NEW g, NEW p, NEW q
  PROVE  Ancestors(AddNode(g, p), q) = Ancestors(g, q)
BY AddNodeParents DEF Ancestors, Closed

(* What becomes of the edges when a reference is recorded.                 *)
LEMMA IncRefDomain ==
  ASSUME NEW g, NEW r, NEW t
  PROVE  DOMAIN IncRef(g, r, t) = DOMAIN g \cup {r}
BY DEF IncRef, AddNode, AddEdge

LEMMA IncRefAccepted ==
  ASSUME NEW g, NEW r, NEW t, r # t, ~Refused(g, r, t), NEW q
  PROVE  Parents(IncRef(g, r, t), q) = IF q = r THEN Parents(g, q) \cup {t} ELSE Parents(g, q)
<1> DEFINE h == AddNode(g, r)
<1>1. DOMAIN h = DOMAIN g \cup {r} /\ Parents(h, q) = Parents(g, q)
  BY AddNodeParents DEF AddNode
<1>2. r \in DOMAIN h
  BY <1>1
<1>3. IncRef(g, r, t) = AddEdge(h, r, t)
  BY DEF IncRef
<1> HIDE DEF h
<1>4. Parents(AddEdge(h, r, t), q) = IF q = r THEN Parents(h, q) \cup {t} ELSE Parents(h, q)
  BY <1>2 DEF AddEdge, Parents
<1> QED
  BY <1>1, <1>3, <1>4

LEMMA IncRefDropped ==
  ASSUME NEW g, NEW r, NEW t, r = t \/ Refused(g, r, t), NEW q
  PROVE  Parents(IncRef(g, r, t), q) = Parents(g, q)
<1>1. IncRef(g, r, t) = AddNode(g, r)
  BY DEF IncRef
<1> QED
  BY <1>1, AddNodeParents

(* The graph refuses an import exactly when the imported module is on the  *)
(* stack, below its importer.                                              *)
LEMMA RefusedOnStack ==
  ASSUME Inv, Importing
  PROVE  Refused(AddNode(graph, Import), From, Import) <=> Import \in Mods \ {From}
<1>1. /\ From \in Paths /\ Import \in Paths /\ From = stack[1].mod
      /\ 1 \in DOMAIN stack /\ DOMAIN stack = 1 .. Len(stack) /\ Len(stack) \in Nat
      /\ WithinPaths(graph)
  BY TopType, ImportType, GraphTypes DEF Inv, Typed, Importing, From
<1>2. Refused(AddNode(graph, Import), From, Import)
        <=> Import # From /\ From \in Ancestors(graph, Import)
  BY AddNodeAncestors DEF Refused, DeepDependsOn
<1>3. ASSUME Import \in Mods \ {From} PROVE From \in Ancestors(graph, Import)
  <2>1. PICK j \in DOMAIN stack : Import = stack[j].mod
    BY <1>3 DEF Mods
  <2>2. 1 < j
    BY <1>1, <1>3, <2>1
  <2> QED
    BY <1>1, <2>1, <2>2 DEF Inv, Chained
<1>4. ASSUME From \in Ancestors(graph, Import), Import \notin Mods PROVE FALSE
  <2>1. From \in Mods /\ From \notin Completed
    BY <1>1 DEF Inv, Accounted, Mods
  <2>2. Root \in Mods
    BY <1>1 DEF Inv, FramesLinked, Mods
  <2>3. Completed \in SUBSET Paths /\ Closed(graph, Completed)
    BY DEF Inv, FinishedClosed, Typed, ResolverTypeOK, Completed
  <2>4. CASE Import \in Completed
    <3>1. Parents(graph, Import) \subseteq Completed
      BY <2>3, <2>4 DEF Closed
    <3>2. Ancestors(graph, Import) \subseteq Completed
      BY <2>3, <3>1, AncestorsLeast
    <3> QED
      BY <1>4, <2>1, <3>2
  <2>5. CASE Import \notin Completed
    <3>1. Parents(graph, Import) \subseteq {}
      BY <1>1, <1>4, <2>2, <2>5 DEF Inv, FinishedClosed
    <3>2. Closed(graph, {})
      BY DEF Closed
    <3>3. Ancestors(graph, Import) \subseteq {}
      BY <3>1, <3>2, AncestorsLeast
    <3> QED
      BY <1>4, <3>3
  <2> QED
    BY <2>4, <2>5
<1> QED
  BY <1>2, <1>3, <1>4

(* The edge to a package is never refused, nor is the package on the stack. *)
LEMMA PackageAccepted ==
  ASSUME Inv, Importing, PackagePending
  PROVE  /\ Package \in Paths \ {From} /\ Package \notin Mods
         /\ Package \notin project.unparsed
         /\ Package \in Parents(Needs(project), From)
         /\ ~Refused(AddNode(AddNode(graph, Import), Package), From, Package)
<1>1. /\ From \in Paths /\ From = stack[1].mod /\ 1 \in DOMAIN stack
      /\ DOMAIN stack = 1 .. Len(stack) /\ Len(stack) \in Nat /\ WithinPaths(graph)
  BY TopType, GraphTypes DEF Inv, Typed, Importing, From
<1>2. Package \in Dragged(project, From) /\ ResolverTypeOK
  BY ImportFacts DEF Inv, Typed
<1>3. /\ Package # From /\ Package \notin project.unparsed
      /\ From \notin Ancestors(Needs(project), Package)
  BY <1>1, <1>2 DEF Inv, PackagesApart, DeepDependsOn
<1>4. Package \in Paths /\ Package \in Parents(Needs(project), From)
  BY <1>1, <1>2, <1>3, NeedsFacts
<1>5. From \notin Ancestors(graph, Package)
  <2>1. Ancestors(graph, Package) \subseteq Ancestors(Needs(project), Package)
    BY <1>2, <1>4, NeedsFacts, AncestorsMonotone DEF Inv, EdgesNeeded
  <2> QED
    BY <1>3, <2>1
<1>6. ~Refused(AddNode(AddNode(graph, Import), Package), From, Package)
  BY <1>5, AddNodeAncestors DEF Refused, DeepDependsOn
<1>7. ASSUME NEW j \in DOMAIN stack, stack[j].mod = Package PROVE FALSE
  <2>1. 1 < j
    BY <1>1, <1>3, <1>7
  <2> QED
    BY <1>1, <1>5, <1>7, <2>1 DEF Inv, Chained
<1> QED
  BY <1>3, <1>4, <1>6, <1>7 DEF Mods

(* Resolving a package never fails: the error it would raise names a       *)
(* module below it, which the package would have to need.                  *)
LEMMA PackageErrs ==
  ASSUME Inv, NEW k \in DOMAIN stack, stack[k].via = "package"
  PROVE  stack[k].errs = {}
<1> SUFFICES ASSUME NEW e \in stack[k].errs PROVE FALSE
  OBVIOUS
<1> DEFINE p == stack[k].mod
           m == stack[k + 1].mod
           N == Needs(project)
<1>1. /\ Len(stack) \in Nat /\ DOMAIN stack = 1 .. Len(stack) /\ k < Len(stack)
      /\ \A i \in DOMAIN stack : stack[i].mod \in Paths
  BY StackFacts DEF Inv
<1>2. k + 1 \in DOMAIN stack /\ m \in Paths /\ p \in Paths
  BY <1>1
<1>3. m \notin Ancestors(N, p) /\ WithinPaths(N)
  BY <1>1, <1>2, NeedsFacts
  DEF Inv, FramesLinked, Linked, PackagesApart, DeepDependsOn, Typed
<1>4. PICK j \in DOMAIN stack : j > k /\ stack[j].mod = e
  BY DEF Inv, ErrsTravel
<1>5. e \in Ancestors(N, p)
  BY DEF Inv, ErrsTravel
<1>6. CASE j = k + 1
  BY <1>3, <1>4, <1>5, <1>6
<1>7. CASE j # k + 1
  <2>1. k + 1 < j /\ e \in Paths
    BY <1>1, <1>4, <1>7
  <2>2. m \in Ancestors(graph, e)
    BY <1>2, <1>4, <2>1 DEF Inv, Chained
  <2>3. Ancestors(graph, e) \subseteq Ancestors(N, e)
    BY <1>3, <2>1, AncestorsMonotone DEF Inv, EdgesNeeded
  <2>4. Ancestors(N, e) \subseteq Ancestors(N, p)
    BY <1>3, <1>5, AncestorsTransitive
  <2> QED
    BY <1>3, <2>2, <2>3, <2>4
<1> QED
  BY <1>6, <1>7

-----------------------------------------------------------------------------
(* The shapes of a step: what it does to the frames and to the graph.       *)

Replaced ==
  /\ DOMAIN stack' = DOMAIN stack /\ Len(stack') = Len(stack)
  /\ \A k \in DOMAIN stack : stack'[k].mod = stack[k].mod /\ stack'[k].via = stack[k].via
  /\ \A k \in DOMAIN stack : k > 1 => stack'[k] = stack[k]

\* The frame of stack that is now one deeper: all that changes is that it may
\* have become busy with a package.
PushedOn(m, via) ==
  /\ Len(stack') = Len(stack) + 1 /\ DOMAIN stack' = 1 .. Len(stack) + 1
  /\ stack'[1] = Frame(m, via)
  /\ \A k \in DOMAIN stack :
       /\ k + 1 \in DOMAIN stack'
       /\ stack'[k + 1].mod = stack[k].mod /\ stack'[k + 1].via = stack[k].via
       /\ stack'[k + 1].next = stack[k].next /\ stack'[k + 1].errs = stack[k].errs
       /\ stack[k].packageDone => stack'[k + 1].packageDone
  /\ \A k \in DOMAIN stack' : k > 1 => k - 1 \in DOMAIN stack /\ k = (k - 1) + 1

Popped ==
  /\ Len(stack) > 1
  /\ Len(stack') = Len(stack) - 1 /\ DOMAIN stack' = 1 .. Len(stack) - 1
  /\ 1 \in DOMAIN stack' /\ stack'[1].mod = stack[2].mod
  /\ \A k \in DOMAIN stack' :
       /\ k + 1 \in DOMAIN stack
       /\ stack'[k].mod = stack[k + 1].mod /\ stack'[k].via = stack[k + 1].via
       /\ k > 1 => stack'[k] = stack[k + 1]
  /\ \A k \in DOMAIN stack : k > 1 => k - 1 \in DOMAIN stack' /\ k = (k - 1) + 1

\* After the step, p is a settled import of m.
StaysSettled(m, p) == SettledIn(graph', inlines', stack', m, p)

\* The edges from the innermost module to X are new.
EdgesTo(X) ==
  /\ WithinPaths(graph')
  /\ DOMAIN graph \subseteq DOMAIN graph'
  /\ \A q : Parents(graph', q) =
              IF q = From THEN Parents(graph, q) \cup X ELSE Parents(graph, q)

LEMMA ReplacedShape ==
  ASSUME Typed, stack # <<>>, NEW f \in Frames, f.mod = Top.mod, f.via = Top.via,
         stack' = <<f>> \o Tail(stack)
  PROVE  Replaced /\ stack'[1] = f
<1>1. stack \in Seq(Frames) /\ Top = stack[1] /\ 1 \in DOMAIN stack
      /\ Len(stack) \in Nat /\ DOMAIN stack = 1 .. Len(stack)
  BY TopType DEF Typed, ResolverTypeOK
<1>2. /\ Len(stack') = Len(stack) /\ DOMAIN stack' = DOMAIN stack /\ stack'[1] = f
      /\ \A i \in DOMAIN stack : i > 1 => stack'[i] = stack[i]
  BY <1>1, ReplacedTop
<1> QED
  BY <1>1, <1>2 DEF Replaced

LEMMA PushedShape ==
  ASSUME Typed, stack # <<>>, NEW m \in Paths, NEW via \in {"import", "package"},
         NEW below \in Frames, below.mod = Top.mod, below.via = Top.via,
         below.next = Top.next, below.errs = Top.errs,
         Top.packageDone => below.packageDone,
         stack' = Pushed(Frame(m, via), below)
  PROVE  PushedOn(m, via) /\ stack'[2] = below
<1> DEFINE f == Frame(m, via)
<1>1. stack \in Seq(Frames) /\ Top = stack[1] /\ 1 \in DOMAIN stack
      /\ Len(stack) \in Nat /\ DOMAIN stack = 1 .. Len(stack) /\ f \in Frames
  BY TopType, FrameType DEF Typed, ResolverTypeOK
<1> HIDE DEF f
<1>2. /\ Len(stack') = Len(stack) + 1 /\ DOMAIN stack' = 1 .. Len(stack) + 1
      /\ stack'[1] = f /\ stack'[2] = below
      /\ \A i \in DOMAIN stack : i > 1 => stack'[i + 1] = stack[i]
  BY <1>1, PushedTop DEF Pushed, f
<1>3. ASSUME NEW k \in DOMAIN stack
      PROVE  /\ k + 1 \in DOMAIN stack'
             /\ stack'[k + 1].mod = stack[k].mod /\ stack'[k + 1].via = stack[k].via
             /\ stack'[k + 1].next = stack[k].next /\ stack'[k + 1].errs = stack[k].errs
             /\ stack[k].packageDone => stack'[k + 1].packageDone
  <2>1. CASE k = 1
    BY <1>1, <1>2, <2>1
  <2>2. CASE k > 1
    BY <1>1, <1>2, <2>2
  <2> QED
    BY <1>1, <2>1, <2>2
<1>4. \A k \in DOMAIN stack' : k > 1 => k - 1 \in DOMAIN stack /\ k = (k - 1) + 1
  BY <1>1, <1>2
<1> QED
  BY <1>2, <1>3, <1>4 DEF PushedOn, f

LEMMA PoppedShape ==
  ASSUME Typed, Exhausted, Top.via # "root",
         NEW f \in Frames, f.mod = stack[2].mod, f.via = stack[2].via, ReturnTo(f)
  PROVE  Popped /\ stack'[1] = f
<1>1. stack \in Seq(Frames) /\ Len(stack) > 1
      /\ Len(stack) \in Nat /\ DOMAIN stack = 1 .. Len(stack)
  BY CallerType, TopType DEF Typed, ResolverTypeOK, Exhausted
<1>2. /\ Len(stack') = Len(stack) - 1
      /\ DOMAIN stack' = 1 .. Len(stack) - 1 /\ stack'[1] = f
      /\ \A i \in DOMAIN stack' : i > 1 => stack'[i] = stack[i + 1]
  <2> DEFINE t == <<f>> \o Tail(Tail(stack))
  <2>1. /\ Len(t) = Len(stack) - 1
        /\ DOMAIN t = 1 .. Len(stack) - 1 /\ t[1] = f
        /\ \A i \in DOMAIN t : i > 1 => t[i] = stack[i + 1]
    BY <1>1, PoppedTop
  <2>2. stack' = t
    BY DEF ReturnTo
  <2> HIDE DEF t
  <2> QED
    BY <2>1, <2>2
<1>3. ASSUME NEW k \in DOMAIN stack'
      PROVE  /\ k + 1 \in DOMAIN stack
             /\ stack'[k].mod = stack[k + 1].mod /\ stack'[k].via = stack[k + 1].via
  <2>1. CASE k = 1
    BY <1>1, <1>2, <2>1
  <2>2. CASE k > 1
    BY <1>1, <1>2, <2>2
  <2> QED
    BY <1>1, <1>2, <2>1, <2>2
<1>4. \A k \in DOMAIN stack : k > 1 => k - 1 \in DOMAIN stack' /\ k = (k - 1) + 1
  BY <1>1, <1>2
<1>5. 1 \in DOMAIN stack' /\ stack'[1].mod = stack[2].mod
  BY <1>1, <1>2
<1> QED
  BY <1>1, <1>2, <1>3, <1>4, <1>5 DEF Popped

LEMMA EdgesGrow ==
  ASSUME NEW X, EdgesTo(X)
  PROVE  /\ \A p \in Paths : Ancestors(graph, p) \subseteq Ancestors(graph', p)
         /\ \A p, q : DependsOn(graph, p, q) => DependsOn(graph', p, q)
<1>1. WithinPaths(graph') /\ \A q \in Paths : Parents(graph, q) \subseteq Parents(graph', q)
  BY DEF EdgesTo
<1> QED
  BY <1>1, AncestorsMonotone DEF DependsOn, EdgesTo

LEMMA EdgesNeededStep ==
  ASSUME Typed, EdgesNeeded, project' = project,
         NEW X, EdgesTo(X), From \in Paths => X \subseteq Parents(Needs(project), From)
  PROVE  EdgesNeeded'
BY DEF EdgesNeeded, EdgesTo

LEMMA ChainedReplaced ==
  ASSUME Typed, Chained, Replaced, NEW X, EdgesTo(X)
  PROVE  Chained'
<1> SUFFICES ASSUME NEW i \in DOMAIN stack, NEW j \in DOMAIN stack, i < j
             PROVE  stack'[i].mod \in Ancestors(graph', stack'[j].mod)
  BY DEF Chained, Replaced
<1>1. stack[i].mod \in Ancestors(graph, stack[j].mod) /\ stack[j].mod \in Paths
  BY StackFacts DEF Chained
<1> QED
  BY <1>1, EdgesGrow DEF Replaced

LEMMA ChainedPushed ==
  ASSUME Typed, stack # <<>>, Chained, NEW X, EdgesTo(X),
         NEW m \in Paths, NEW via \in {"import", "package"}, PushedOn(m, via),
         m \in Parents(graph', From)
  PROVE  Chained'
<1> SUFFICES ASSUME NEW i \in DOMAIN stack', NEW j \in DOMAIN stack', i < j
             PROVE  stack'[i].mod \in Ancestors(graph', stack'[j].mod)
  BY DEF Chained
<1>1. /\ Len(stack) \in Nat /\ DOMAIN stack = 1 .. Len(stack)
      /\ 1 \in DOMAIN stack /\ From = stack[1].mod
      /\ \A k \in DOMAIN stack : stack[k].mod \in Paths
  BY StackFacts, TopType DEF Typed, From
<1>2. /\ j - 1 \in DOMAIN stack /\ stack'[j].mod = stack[j - 1].mod
  BY <1>1 DEF PushedOn
<1>3. \A p \in Paths : Ancestors(graph, p) \subseteq Ancestors(graph', p)
  BY EdgesGrow
<1>4. WithinPaths(graph')
  BY DEF EdgesTo
<1>5. CASE i > 1
  <2>1. i - 1 \in DOMAIN stack /\ stack'[i].mod = stack[i - 1].mod /\ i - 1 < j - 1
    BY <1>1, <1>5 DEF PushedOn
  <2> QED
    BY <1>1, <1>2, <1>3, <2>1 DEF Chained
<1>6. CASE i = 1
  <2>1. stack'[i].mod = m
    BY <1>6, FrameType DEF PushedOn
  <2>2. m \in Ancestors(graph', From)
    BY <1>4, AncestorsHaveParents
  <2>3. CASE j = 2
    BY <1>1, <1>2, <2>1, <2>2, <2>3
  <2>4. CASE j # 2
    <3>1. 1 < j - 1
      BY <1>1, <1>2, <1>6, <2>4 DEF PushedOn
    <3>2. From \in Ancestors(graph', stack[j - 1].mod)
      BY <1>1, <1>2, <1>3, <3>1 DEF Chained
    <3>3. Ancestors(graph', From) \subseteq Ancestors(graph', stack[j - 1].mod)
      BY <1>4, <3>2, AncestorsTransitive
    <3> QED
      BY <1>2, <2>1, <2>2, <3>3
  <2> QED
    BY <2>3, <2>4
<1> QED
  BY <1>1, <1>5, <1>6 DEF PushedOn

LEMMA ChainedPopped ==
  ASSUME Typed, Chained, Popped, graph' = graph
  PROVE  Chained'
<1> SUFFICES ASSUME NEW i \in DOMAIN stack', NEW j \in DOMAIN stack', i < j
             PROVE  stack'[i].mod \in Ancestors(graph, stack'[j].mod)
  BY DEF Chained
<1>1. /\ i + 1 \in DOMAIN stack /\ j + 1 \in DOMAIN stack
      /\ stack'[i].mod = stack[i + 1].mod /\ stack'[j].mod = stack[j + 1].mod
  BY DEF Popped
<1>2. i + 1 < j + 1
  BY DEF Popped
<1> QED
  BY <1>1, <1>2 DEF Chained

LEMMA LinkedReplaced ==
  ASSUME Typed, FramesLinked, Replaced, project' = project, NEW X, EdgesTo(X)
  PROVE  FramesLinked'
<1> SUFFICES ASSUME NEW k \in DOMAIN stack
             PROVE  /\ k = Len(stack) => stack'[k].mod = Root
                    /\ k < Len(stack) => Linked(stack[k], stack[k + 1])'
  BY DEF FramesLinked, Replaced, Linked
<1>1. k = Len(stack) => stack'[k].mod = Root
  BY DEF FramesLinked, Replaced
<1>2. ASSUME k < Len(stack) PROVE Linked(stack[k], stack[k + 1])'
  <2>1. k + 1 \in DOMAIN stack /\ k + 1 > 1
    BY <1>2, StackFacts
  <2>2. stack'[k + 1] = stack[k + 1] /\ stack'[k].mod = stack[k].mod
        /\ stack'[k].via = stack[k].via
    BY <2>1 DEF Replaced
  <2>3. Linked(stack[k], stack[k + 1])
    BY <1>2 DEF FramesLinked
  <2> QED
    BY <2>2, <2>3, EdgesGrow DEF Linked
<1> QED
  BY <1>1, <1>2

LEMMA LinkedPushed ==
  ASSUME Typed, stack # <<>>, FramesLinked, project' = project, NEW X, EdgesTo(X),
         NEW m \in Paths, NEW via \in {"import", "package"}, PushedOn(m, via),
         via = "package" => m \in Dragged(project, From),
         via = "import" => /\ Top.next \in DOMAIN BodyIn(project, From)
                           /\ m = BodyIn(project, From)[Top.next]
                           /\ DependsOn(graph', From, m)
  PROVE  FramesLinked'
<1> SUFFICES ASSUME NEW k \in DOMAIN stack'
             PROVE  /\ k = Len(stack') => stack'[k].mod = Root
                    /\ k < Len(stack') => Linked(stack[k], stack[k + 1])'
  BY DEF FramesLinked, Linked
<1>1. /\ Len(stack) \in Nat /\ DOMAIN stack = 1 .. Len(stack)
      /\ 1 \in DOMAIN stack /\ From = stack[1].mod /\ Top = stack[1]
  BY StackFacts, TopType DEF Typed, From
<1>2. CASE k = 1
  <2>1. stack'[2].mod = From /\ stack'[2].next = Top.next
    <3>1. stack'[1 + 1].mod = stack[1].mod /\ stack'[1 + 1].next = stack[1].next
      BY <1>1 DEF PushedOn
    <3> QED
      BY <1>1, <3>1
  <2>2. stack'[1].mod = m /\ stack'[1].via = via
    BY FrameType DEF PushedOn
  <2>3. k # Len(stack') /\ k + 1 = 2
    BY <1>1, <1>2 DEF PushedOn
  <2> QED
    BY <1>2, <2>1, <2>2, <2>3 DEF Linked
<1>3. CASE k > 1
  <2> DEFINE i == k - 1
  <2>1. i \in DOMAIN stack /\ k = i + 1
    BY <1>3 DEF PushedOn
  <2>2. stack'[k].mod = stack[i].mod /\ stack'[k].via = stack[i].via
    BY <2>1 DEF PushedOn
  <2>3. ASSUME i < Len(stack) PROVE Linked(stack[k], stack[k + 1])'
    <3>1. i + 1 \in DOMAIN stack /\ (i + 1) + 1 = k + 1
      BY <1>1, <2>1, <2>3
    <3>2. stack'[k + 1].mod = stack[i + 1].mod /\ stack'[k + 1].next = stack[i + 1].next
      BY <3>1 DEF PushedOn
    <3>3. Linked(stack[i], stack[i + 1])
      BY <2>1, <2>3 DEF FramesLinked
    <3> QED
      BY <2>2, <3>2, <3>3, EdgesGrow DEF Linked
  <2>4. (k = Len(stack') <=> i = Len(stack)) /\ (k < Len(stack') <=> i < Len(stack))
    BY <1>1, <2>1 DEF PushedOn
  <2>5. i = Len(stack) => stack[i].mod = Root
    BY <2>1 DEF FramesLinked
  <2> QED
    BY <2>2, <2>3, <2>4, <2>5
<1> QED
  BY <1>1, <1>2, <1>3 DEF PushedOn

LEMMA LinkedPopped ==
  ASSUME Typed, FramesLinked, Popped, project' = project, graph' = graph
  PROVE  FramesLinked'
<1> SUFFICES ASSUME NEW k \in DOMAIN stack'
             PROVE  /\ k = Len(stack') => stack'[k].mod = Root
                    /\ k < Len(stack') => Linked(stack[k], stack[k + 1])'
  BY DEF FramesLinked, Linked
<1>1. /\ Len(stack) \in Nat /\ DOMAIN stack = 1 .. Len(stack)
  BY StackFacts
<1>2. /\ k + 1 \in DOMAIN stack
      /\ stack'[k].mod = stack[k + 1].mod /\ stack'[k].via = stack[k + 1].via
      /\ k = Len(stack') <=> k + 1 = Len(stack)
      /\ k < Len(stack') <=> k + 1 < Len(stack)
  BY <1>1 DEF Popped
<1>3. ASSUME k < Len(stack') PROVE Linked(stack[k], stack[k + 1])'
  <2>1. k + 1 \in DOMAIN stack' /\ k + 1 > 1
    BY <1>1, <1>3 DEF Popped
  <2>2. stack'[k + 1] = stack[(k + 1) + 1]
    BY <2>1 DEF Popped
  <2>3. Linked(stack[k + 1], stack[(k + 1) + 1])
    BY <1>2, <1>3 DEF FramesLinked
  <2> QED
    BY <1>2, <2>2, <2>3 DEF Linked
<1>4. k + 1 = Len(stack) => stack[k + 1].mod = Root
  BY <1>2 DEF FramesLinked
<1> QED
  BY <1>2, <1>3, <1>4

LEMMA ErrsReplaced ==
  ASSUME Typed, stack # <<>>, ErrsTravel, Replaced, project' = project,
         \A e \in stack'[1].errs :
           e \in stack[1].errs \/ (e \in Mods \ {From} /\ e \in Parents(Needs(project), From))
  PROVE  ErrsTravel'
<1> SUFFICES ASSUME NEW k \in DOMAIN stack, NEW e \in stack'[k].errs
             PROVE  /\ \E j \in DOMAIN stack : j > k /\ stack'[j].mod = e
                    /\ e \in Ancestors(Needs(project), stack'[k].mod)
  BY DEF ErrsTravel, Replaced
<1>1. /\ Len(stack) \in Nat /\ DOMAIN stack = 1 .. Len(stack)
      /\ 1 \in DOMAIN stack /\ From = stack[1].mod /\ ResolverTypeOK
      /\ \A j \in DOMAIN stack : stack'[j].mod = stack[j].mod
  BY StackFacts, TopType DEF Typed, From, Replaced
<1>2. CASE e \in stack[k].errs
  BY <1>1, <1>2 DEF ErrsTravel
<1>3. CASE e \notin stack[k].errs
  <2>1. k = 1 /\ e \in Mods \ {From} /\ e \in Parents(Needs(project), From)
    BY <1>1, <1>3 DEF Replaced
  <2>2. PICK j \in DOMAIN stack : stack[j].mod = e
    BY <2>1 DEF Mods
  <2>3. j > k
    BY <1>1, <2>1, <2>2
  <2>4. e \in Ancestors(Needs(project), From)
    BY <1>1, <2>1, NeedsFacts, AncestorsHaveParents
  <2> QED
    BY <1>1, <2>1, <2>2, <2>3, <2>4
<1> QED
  BY <1>2, <1>3

LEMMA ErrsPushed ==
  ASSUME Typed, ErrsTravel, project' = project,
         NEW m \in Paths, NEW via \in {"import", "package"}, PushedOn(m, via)
  PROVE  ErrsTravel'
<1> SUFFICES ASSUME NEW k \in DOMAIN stack', NEW e \in stack'[k].errs
             PROVE  /\ \E j \in DOMAIN stack' : j > k /\ stack'[j].mod = e
                    /\ e \in Ancestors(Needs(project), stack'[k].mod)
  BY DEF ErrsTravel
<1>1. Len(stack) \in Nat /\ DOMAIN stack = 1 .. Len(stack)
  BY StackFacts
<1>2. k > 1
  BY FrameType DEF PushedOn
<1> DEFINE i == k - 1
<1>3. i \in DOMAIN stack /\ k = i + 1
  BY <1>2 DEF PushedOn
<1>4. stack'[k].mod = stack[i].mod /\ stack'[k].errs = stack[i].errs
  BY <1>3 DEF PushedOn
<1>5. PICK j \in DOMAIN stack : j > i /\ stack[j].mod = e
  BY <1>3, <1>4 DEF ErrsTravel
<1>6. j + 1 \in DOMAIN stack' /\ stack'[j + 1].mod = e /\ j + 1 > k
  BY <1>1, <1>3, <1>5 DEF PushedOn
<1> QED
  BY <1>3, <1>4, <1>6 DEF ErrsTravel

LEMMA ErrsPopped ==
  ASSUME Inv, Popped, project' = project,
         \A e \in stack'[1].errs :
           e \in stack[2].errs \/ (e \in stack[1].errs /\ e # stack[2].mod)
  PROVE  ErrsTravel'
<1> DEFINE N == Needs(project)
<1> SUFFICES ASSUME NEW k \in DOMAIN stack', NEW e \in stack'[k].errs
             PROVE  /\ \E j \in DOMAIN stack' : j > k /\ stack'[j].mod = e
                    /\ e \in Ancestors(N, stack'[k].mod)
  BY DEF ErrsTravel
<1>1. /\ Len(stack) \in Nat /\ DOMAIN stack = 1 .. Len(stack) /\ Len(stack) > 1
      /\ \A j \in DOMAIN stack : stack[j].mod \in Paths
      /\ DOMAIN stack' = 1 .. Len(stack) - 1
  BY StackFacts DEF Inv, Popped
<1>2. k + 1 \in DOMAIN stack /\ stack'[k].mod = stack[k + 1].mod
  BY DEF Popped
<1>3. ASSUME NEW j \in DOMAIN stack, j > k + 1, stack[j].mod = e
      PROVE  \E l \in DOMAIN stack' : l > k /\ stack'[l].mod = e
  <2>1. j - 1 \in DOMAIN stack' /\ j = (j - 1) + 1 /\ j - 1 > k
    BY <1>1, <1>3
  <2>2. stack'[j - 1].mod = stack[j].mod
    BY <2>1 DEF Popped
  <2> QED
    BY <1>3, <2>1, <2>2
<1>4. CASE e \in stack[k + 1].errs
  <2>1. PICK j \in DOMAIN stack : j > k + 1 /\ stack[j].mod = e
    BY <1>2, <1>4 DEF Inv, ErrsTravel
  <2>2. e \in Ancestors(N, stack[k + 1].mod)
    BY <1>2, <1>4 DEF Inv, ErrsTravel
  <2> QED
    BY <1>2, <1>3, <2>1, <2>2
<1>5. CASE e \notin stack[k + 1].errs
  <2>1. k = 1 /\ k + 1 = 2
    BY <1>1, <1>5 DEF Popped
  <2>2. e \in stack[1].errs /\ e # stack[2].mod
    BY <1>5, <2>1
  <2>3. PICK j \in DOMAIN stack : j > 1 /\ stack[j].mod = e
    BY <1>1, <2>2 DEF Inv, ErrsTravel
  <2>4. j > k + 1
    BY <1>1, <2>1, <2>2, <2>3
  <2>5. stack[1].mod \in Ancestors(N, stack[2].mod)
    <3>1. stack[1].mod \in Ancestors(graph, stack[2].mod)
      BY <1>1 DEF Inv, Chained
    <3>2. WithinPaths(N) /\ stack[2].mod \in Paths
      BY <1>1, NeedsFacts DEF Inv, Typed
    <3> QED
      BY <3>1, <3>2, AncestorsMonotone DEF Inv, EdgesNeeded
  <2>6. e \in Ancestors(N, stack[1].mod)
    BY <1>1, <2>2 DEF Inv, ErrsTravel
  <2>7. e \in Ancestors(N, stack[2].mod)
    BY <2>5, <2>6, NeedsFacts, AncestorsTransitive DEF Inv, Typed
  <2> QED
    BY <1>2, <1>3, <2>1, <2>3, <2>4, <2>7
<1> QED
  BY <1>4, <1>5

-----------------------------------------------------------------------------
LEMMA ReplacedMods ==
  ASSUME Replaced
  PROVE  Mods' = Mods
BY DEF Replaced, Mods

LEMMA PushedMods ==
  ASSUME NEW m \in Paths, NEW via \in {"import", "package"}, PushedOn(m, via),
         Typed
  PROVE  Mods' = Mods \cup {m}
<1>1. stack'[1].mod = m /\ 1 \in DOMAIN stack'
  BY FrameType, StackFacts DEF PushedOn
<1>2. Mods \cup {m} \subseteq Mods'
  BY <1>1 DEF PushedOn, Mods
<1>3. ASSUME NEW k \in DOMAIN stack' PROVE stack'[k].mod \in Mods \cup {m}
  <2>1. CASE k > 1
    BY <2>1 DEF PushedOn, Mods
  <2>2. CASE ~(k > 1)
    <3>1. k = 1
      BY <2>2, StackFacts DEF PushedOn
    <3> QED
      BY <1>1, <3>1
  <2> QED
    BY <2>1, <2>2
<1> QED
  BY <1>2, <1>3 DEF Mods

LEMMA PoppedMods ==
  ASSUME Inv, Popped
  PROVE  /\ From \in Paths /\ From = stack[1].mod /\ 1 \in DOMAIN stack
         /\ Mods = Mods' \cup {From} /\ From \notin Mods'
         /\ From \notin Completed /\ From # Root /\ Root \in Mods'
<1>1. /\ Len(stack) \in Nat /\ DOMAIN stack = 1 .. Len(stack) /\ Len(stack) > 1
      /\ stack # <<>>
  BY StackFacts DEF Inv, Popped
<1>2. From \in Paths /\ From = stack[1].mod /\ 1 \in DOMAIN stack
  BY <1>1, TopType DEF Inv, Typed, From
<1>3. Mods = Mods' \cup {From}
  <2>1. Mods' \subseteq Mods
    <3>1. \A k \in DOMAIN stack' : \E j \in DOMAIN stack : stack'[k].mod = stack[j].mod
      BY DEF Popped
    <3> QED
      BY <3>1 DEF Mods
  <2>2. ASSUME NEW k \in DOMAIN stack PROVE stack[k].mod \in Mods' \cup {From}
    <3>1. CASE k = 1
      BY <1>2, <3>1
    <3>2. CASE k # 1
      <4>1. k > 1
        BY <1>1, <3>2
      <4> QED
        BY <4>1 DEF Popped, Mods
    <3> QED
      BY <3>1, <3>2
  <2>3. From \in Mods
    BY <1>2 DEF Mods
  <2> QED
    BY <2>1, <2>2, <2>3 DEF Mods
<1>4. ASSUME NEW k \in DOMAIN stack' PROVE stack'[k].mod # From
  <2>1. k + 1 \in DOMAIN stack /\ stack'[k].mod = stack[k + 1].mod /\ k + 1 # 1
    BY <1>1 DEF Popped
  <2>2. NoReentry
    BY ChainedNoReentry DEF Inv
  <2> QED
    BY <1>2, <2>1, <2>2 DEF NoReentry
<1>5. Root \in Mods'
  <2> DEFINE k == Len(stack) - 1
  <2>1. k \in DOMAIN stack' /\ k + 1 = Len(stack)
    BY <1>1 DEF Popped
  <2>2. stack'[k].mod = Root
    BY <1>1, <2>1 DEF Popped, Inv, FramesLinked
  <2> QED
    BY <2>1, <2>2 DEF Mods
<1>6. From \notin Mods'
  BY <1>4 DEF Mods
<1>7. From \notin Completed
  BY <1>3 DEF Inv, Accounted
<1> QED
  BY <1>2, <1>3, <1>5, <1>6, <1>7

LEMMA AccountedReplaced ==
  ASSUME Typed, stack # <<>>, Accounted, Replaced, UNCHANGED <<project, asts, inlines>>,
         DOMAIN graph \subseteq DOMAIN graph',
         \A p \in DOMAIN graph' :
           \/ p \in DOMAIN graph \cup Completed \cup Mods \cup {Root}
           \/ PendingIn(project, stack'[1], p),
         \A p : PendingIn(project, stack[1], p) =>
           p \in Completed \cup Mods \/ PendingIn(project, stack'[1], p)
  PROVE  Accounted'
<1>1. /\ Mods' = Mods /\ Completed' = Completed /\ asts' = asts /\ inlines' = inlines
  BY ReplacedMods DEF Completed
<1>2. /\ DOMAIN stack = 1 .. Len(stack) /\ Len(stack) \in Nat /\ 1 \in DOMAIN stack
      /\ DOMAIN stack' = DOMAIN stack
  BY TopType DEF Typed, Replaced
<1>3. ASSUME NEW p \in DOMAIN graph'
      PROVE  \/ p \in Completed \cup Mods \cup {Root}
             \/ \E k \in DOMAIN stack' : PendingIn(project, stack'[k], p)
  <2>1. CASE PendingIn(project, stack'[1], p)
    BY <1>2, <2>1
  <2>2. ASSUME NEW k \in DOMAIN stack, PendingIn(project, stack[k], p)
        PROVE  \/ p \in Completed \cup Mods
               \/ \E j \in DOMAIN stack' : PendingIn(project, stack'[j], p)
    <3>1. CASE k = 1
      BY <1>2, <2>2, <3>1
    <3>2. CASE k # 1
      <4>1. stack'[k] = stack[k]
        BY <1>2, <3>2 DEF Replaced
      <4> QED
        BY <1>2, <2>2, <4>1
    <3> QED
      BY <3>1, <3>2
  <2> QED
    BY <2>1, <2>2 DEF Accounted
<1> QED
  BY <1>1, <1>3 DEF Accounted

LEMMA AccountedPushed ==
  ASSUME Typed, stack # <<>>, Accounted, UNCHANGED <<project, asts, inlines>>,
         NEW m \in Paths, NEW via \in {"import", "package"}, PushedOn(m, via),
         DOMAIN graph \subseteq DOMAIN graph', m \in DOMAIN graph',
         m \notin Completed,
         \A p \in DOMAIN graph' :
           \/ p \in DOMAIN graph \cup Mods \cup {m}
           \/ PendingIn(project, stack'[2], p)
  PROVE  Accounted'
<1>1. /\ Mods' = Mods \cup {m} /\ Completed' = Completed /\ asts' = asts /\ inlines' = inlines
  BY PushedMods DEF Completed
<1>2. /\ DOMAIN stack = 1 .. Len(stack) /\ Len(stack) \in Nat /\ 1 \in DOMAIN stack
      /\ 2 \in DOMAIN stack'
  BY TopType DEF Typed, PushedOn
<1>3. ASSUME NEW p \in DOMAIN graph'
      PROVE  \/ p \in Completed \cup Mods' \cup {Root}
             \/ \E k \in DOMAIN stack' : PendingIn(project, stack'[k], p)
  <2>1. CASE PendingIn(project, stack'[2], p)
    BY <1>2, <2>1
  <2>2. ASSUME NEW k \in DOMAIN stack, PendingIn(project, stack[k], p)
        PROVE  \E j \in DOMAIN stack' : PendingIn(project, stack'[j], p)
    <3>1. PendingIn(project, stack'[k + 1], p) /\ k + 1 \in DOMAIN stack'
      BY <2>2 DEF PushedOn, PendingIn
    <3> QED
      BY <3>1
  <2> QED
    BY <1>1, <2>1, <2>2 DEF Accounted
<1> QED
  BY <1>1, <1>3 DEF Accounted

LEMMA AccountedPopped ==
  ASSUME Inv, Exhausted, Popped, UNCHANGED <<project, graph>>,
         asts' \cap DOMAIN inlines' = {}, Completed' = Completed \cup {From},
         \A p : PendingIn(project, stack[2], p) =>
           p \in Completed' \/ PendingIn(project, stack'[1], p)
  PROVE  Accounted'
<1>1. /\ Mods = Mods' \cup {From} /\ From \notin Mods' /\ From # Root
  BY PoppedMods
<1>2. /\ DOMAIN stack = 1 .. Len(stack) /\ Len(stack) \in Nat /\ 1 \in DOMAIN stack
      /\ DOMAIN stack' = 1 .. Len(stack) - 1 /\ 1 \in DOMAIN stack' /\ Top = stack[1]
  BY TopType DEF Inv, Typed, Exhausted, Popped
<1>3. \A p : ~PendingIn(project, stack[1], p)
  <2>1. From \in Paths /\ Top \in Frames /\ ResolverTypeOK
    BY TopType DEF Inv, Typed, Exhausted
  <2>2. Body(Top.mod) = BodyIn(project, Top.mod) /\ BodyIn(project, Top.mod) \in Seq(Paths)
    BY <2>1, BodyFacts DEF From
  <2>3. Top.next \notin DOMAIN BodyIn(project, Top.mod)
    BY <2>1, <2>2 DEF Exhausted, Frames
  <2> QED
    BY <1>2, <2>3 DEF PendingIn
<1>4. ASSUME NEW p \in DOMAIN graph
      PROVE  \/ p \in Completed' \cup Mods' \cup {Root}
             \/ \E k \in DOMAIN stack' : PendingIn(project, stack'[k], p)
  <2>1. ASSUME NEW k \in DOMAIN stack, PendingIn(project, stack[k], p)
        PROVE  p \in Completed' \/ \E j \in DOMAIN stack' : PendingIn(project, stack'[j], p)
    <3>1. k # 1
      BY <1>3, <2>1
    <3>2. CASE k = 2
      BY <1>2, <2>1, <3>2
    <3>3. CASE k # 2
      <4>1. k > 1 /\ k - 1 > 1
        BY <1>2, <3>1, <3>3
      <4>2. k - 1 \in DOMAIN stack' /\ k = (k - 1) + 1
        BY <4>1 DEF Popped
      <4>3. stack'[k - 1] = stack[k]
        BY <4>1, <4>2 DEF Popped
      <4> QED
        BY <2>1, <4>2, <4>3
    <3> QED
      BY <3>2, <3>3
  <2> QED
    BY <1>1, <2>1 DEF Inv, Accounted
<1> QED
  BY <1>1, <1>4 DEF Inv, Accounted

-----------------------------------------------------------------------------
LEMMA ClosedFrames ==
  ASSUME FinishedClosed, NEW k \in DOMAIN stack
  PROVE  \A t \in Parents(graph, stack[k].mod) :
           t \in Completed \/ (k > 1 /\ t = stack[k - 1].mod)
BY DEF FinishedClosed

LEMMA ClosedReplaced ==
  ASSUME Typed, stack # <<>>, Accounted, FinishedClosed, Replaced,
         UNCHANGED <<asts, inlines>>,
         NEW X, X \subseteq Completed, EdgesTo(X)
  PROVE  FinishedClosed'
<1>1. Mods' = Mods /\ Completed' = Completed
  BY ReplacedMods DEF Completed
<1>2. From = stack[1].mod /\ 1 \in DOMAIN stack
  BY TopType DEF Typed, From
<1>3. From \in Mods /\ From \notin Completed
  BY <1>2 DEF Mods, Accounted
<1>4. Closed(graph', Completed)
  BY <1>3 DEF FinishedClosed, Closed, EdgesTo
<1>5. ASSUME NEW k \in DOMAIN stack, NEW t \in Parents(graph', stack'[k].mod)
      PROVE  t \in Completed \/ (k > 1 /\ t = stack'[k - 1].mod)
  <2>1. t \in Completed \/ (k > 1 /\ t = stack[k - 1].mod)
    BY DEF Replaced, EdgesTo, FinishedClosed
  <2>2. k > 1 => k - 1 \in DOMAIN stack
    BY StackFacts
  <2> QED
    BY <2>1, <2>2 DEF Replaced
<1>6. \A p \in Paths \ (Completed \cup Mods \cup {Root}) : Parents(graph', p) = {}
  BY <1>3 DEF FinishedClosed, EdgesTo
<1> QED
  BY <1>1, <1>4, <1>5, <1>6 DEF FinishedClosed, Replaced

LEMMA ClosedPushed ==
  ASSUME Typed, stack # <<>>, Accounted, FinishedClosed, NoReentry,
         UNCHANGED <<asts, inlines>>,
         NEW m \in Paths, NEW via \in {"import", "package"}, PushedOn(m, via),
         m \notin Completed \cup Mods \cup {Root}, EdgesTo({m})
  PROVE  FinishedClosed'
<1>1. Mods' = Mods \cup {m} /\ Completed' = Completed
  BY PushedMods DEF Completed
<1>2. /\ From = stack[1].mod /\ 1 \in DOMAIN stack
      /\ DOMAIN stack = 1 .. Len(stack) /\ Len(stack) \in Nat
  BY TopType DEF Typed, From
<1>3. From \in Mods /\ From \notin Completed
  BY <1>2 DEF Mods, Accounted
<1>4. Closed(graph', Completed)
  BY <1>3 DEF FinishedClosed, Closed, EdgesTo
<1>5. ASSUME NEW k \in DOMAIN stack', NEW t \in Parents(graph', stack'[k].mod)
      PROVE  t \in Completed \/ (k > 1 /\ t = stack'[k - 1].mod)
  <2>1. stack'[1].mod = m
    BY FrameType DEF PushedOn
  <2>2. CASE k = 1
    <3>1. Parents(graph', m) = {}
      BY <1>3 DEF FinishedClosed, EdgesTo
    <3> QED
      BY <2>1, <2>2, <3>1
  <2>3. CASE k = 2
    <3>1. 1 + 1 = 2
      OBVIOUS
    <3>2. stack'[2].mod = From
      BY <1>2, <3>1 DEF PushedOn
    <3>3. t \in Parents(graph, From) \/ t = m
      BY <2>3, <3>2 DEF EdgesTo
    <3>4. \A u \in Parents(graph, From) : u \in Completed
      <4>1. \A u \in Parents(graph, stack[1].mod) :
              u \in Completed \/ (1 > 1 /\ u = stack[1 - 1].mod)
        BY <1>2, ClosedFrames
      <4> QED
        BY <1>2, <4>1
    <3>5. t \in Completed \/ t = m
      BY <1>2, <3>3, <3>4
    <3> QED
      BY <2>1, <2>3, <3>5
  <2>4. CASE k # 1 /\ k # 2
    <3> DEFINE i == k - 1
    <3>1. i \in DOMAIN stack /\ k = i + 1 /\ i > 1
      BY <1>2, <2>4 DEF PushedOn
    <3>2. i - 1 \in DOMAIN stack /\ (i - 1) + 1 = i
      BY <1>2, <3>1
    <3>3. stack'[k].mod = stack[i].mod /\ stack'[i].mod = stack[i - 1].mod
      BY <3>1, <3>2 DEF PushedOn
    <3>4. stack[i].mod # From
      BY <1>2, <3>1 DEF NoReentry
    <3>5. t \in Parents(graph, stack[i].mod)
      BY <3>3, <3>4 DEF EdgesTo
    <3>6. \A u \in Parents(graph, stack[i].mod) :
            u \in Completed \/ (i > 1 /\ u = stack[i - 1].mod)
      BY <3>1, ClosedFrames
    <3>7. stack'[k - 1].mod = stack[i - 1].mod /\ k > 1
      BY <1>2, <3>1, <3>3
    <3> QED
      BY <3>5, <3>6, <3>7
  <2> QED
    BY <2>2, <2>3, <2>4
<1>6. \A p \in Paths \ (Completed \cup Mods \cup {m} \cup {Root}) : Parents(graph', p) = {}
  BY <1>3 DEF FinishedClosed, EdgesTo
<1> QED
  BY <1>1, <1>4, <1>5, <1>6 DEF FinishedClosed

LEMMA ClosedPopped ==
  ASSUME Inv, Popped, UNCHANGED graph, Completed' = Completed \cup {From}
  PROVE  FinishedClosed'
<1>1. /\ Mods = Mods' \cup {From} /\ From = stack[1].mod /\ 1 \in DOMAIN stack
  BY PoppedMods
<1>2. DOMAIN stack = 1 .. Len(stack) /\ Len(stack) \in Nat
  BY StackFacts DEF Inv
<1>3. Closed(graph, Completed \cup {From})
  BY <1>1 DEF Inv, FinishedClosed, Closed
<1>4. ASSUME NEW k \in DOMAIN stack', NEW t \in Parents(graph, stack'[k].mod)
      PROVE  t \in Completed \cup {From} \/ (k > 1 /\ t = stack'[k - 1].mod)
  <2>1. k + 1 \in DOMAIN stack /\ stack'[k].mod = stack[k + 1].mod
    BY DEF Popped
  <2>2. t \in Completed \/ t = stack[(k + 1) - 1].mod
    BY <2>1 DEF Inv, FinishedClosed
  <2>3. (k + 1) - 1 = k /\ (k = 1 \/ k > 1)
    BY <1>2 DEF Popped
  <2>4. k > 1 => k - 1 \in DOMAIN stack' /\ (k - 1) + 1 = k
    BY <1>2 DEF Popped
  <2>5. k > 1 => stack'[k - 1].mod = stack[k].mod
    BY <2>4 DEF Popped
  <2> QED
    BY <1>1, <2>2, <2>3, <2>5
<1>5. \A p \in Paths \ (Completed \cup {From} \cup Mods' \cup {Root}) : Parents(graph, p) = {}
  BY <1>1 DEF Inv, FinishedClosed
<1> QED
  BY <1>3, <1>4, <1>5 DEF FinishedClosed

-----------------------------------------------------------------------------
(* Inlining a module: a new edge, to a module that is not inlined.         *)

LEMMA InlinersFacts ==
  ASSUME ResolverTypeOK
  PROVE  /\ WithinPaths(Inliners(inlines))
         /\ \A p : Parents(Inliners(inlines), p) = IF p \in DOMAIN inlines THEN {inlines[p]} ELSE {}
         /\ InlineGraph = Inliners(inlines)
BY DEF ResolverTypeOK, WithinPaths, Inliners, Parents, InlineGraph

LEMMA InlineFacts ==
  ASSUME ResolverTypeOK, Acyclic(Inliners(inlines)),
         NEW p \in Paths, NEW importer \in Paths, p # importer,
         p \notin DOMAIN inlines, importer \notin DOMAIN inlines,
         inlines' = Inline(p, importer)
  PROVE  /\ DOMAIN inlines' = DOMAIN inlines \cup {p}
         /\ WithinPaths(Inliners(inlines')) /\ Acyclic(Inliners(inlines'))
         /\ \A m \in Paths :
              Ancestors(Inliners(inlines), m) \subseteq Ancestors(Inliners(inlines'), m)
         /\ \A m \in Paths : p \in {m} \cup Ancestors(Inliners(inlines'), m) =>
              importer \in Ancestors(Inliners(inlines'), m)
<1> DEFINE g == Inliners(inlines)
           h == AddNode(g, p)
           e == Inliners(inlines')
<1>1. WithinPaths(g)
      /\ \A q : Parents(g, q) = IF q \in DOMAIN inlines THEN {inlines[q]} ELSE {}
  BY InlinersFacts
<1>2. DOMAIN inlines' = DOMAIN inlines \cup {p}
      /\ \A q \in DOMAIN inlines' : inlines'[q] = IF q = p THEN importer ELSE inlines[q]
  BY DEF Inline
<1>3. e = AddEdge(h, p, importer)
  <2>1. DOMAIN e = DOMAIN inlines \cup {p} /\ DOMAIN h = DOMAIN inlines \cup {p}
    BY <1>2 DEF Inliners, AddNode
  <2>2. ASSUME NEW q \in DOMAIN inlines \cup {p}
        PROVE  e[q] = IF q = p THEN h[q] \cup {importer} ELSE h[q]
    <3>1. h[q] = Parents(g, q)
      BY <2>1 DEF AddNode
    <3>2. e[q] = {inlines'[q]}
      BY <1>2 DEF Inliners
    <3> QED
      BY <1>1, <1>2, <3>1, <3>2
  <2>3. e = [q \in DOMAIN inlines' |-> e[q]]
    BY DEF Inliners
  <2> HIDE DEF e, h
  <2> QED
    BY <1>2, <2>1, <2>2, <2>3 DEF AddEdge
<1>4. WithinPaths(h) /\ Acyclic(h) /\ p \in DOMAIN h
  BY <1>1, AddNodeAcyclic DEF AddNode
<1>5. ~DeepDependsOn(h, importer, p)
  <2>1. Parents(h, importer) \subseteq {} /\ Closed(h, {})
    BY <1>1, AddNodeParents DEF Closed
  <2>2. Ancestors(h, importer) \subseteq {}
    BY <2>1, AncestorsLeast
  <2> QED
    BY <2>2 DEF DeepDependsOn
<1>6. WithinPaths(e) /\ Acyclic(e)
  BY <1>3, <1>4, <1>5, AddEdgeAcyclic
<1>7. \A q : Parents(e, q) = IF q \in DOMAIN inlines' THEN {inlines'[q]} ELSE {}
  BY DEF Inliners, Parents
<1>8. \A q \in Paths : Parents(g, q) \subseteq Parents(e, q)
  BY <1>1, <1>2, <1>7
<1>9. importer \in Parents(e, p)
  BY <1>2, <1>7
<1> HIDE DEF e, g, h
<1>10. \A m \in Paths : Ancestors(g, m) \subseteq Ancestors(e, m)
  BY <1>6, <1>8, AncestorsMonotone
<1>11. ASSUME NEW m \in Paths, p \in {m} \cup Ancestors(e, m)
       PROVE  importer \in Ancestors(e, m)
  <2>1. importer \in Ancestors(e, p)
    BY <1>6, <1>9, AncestorsHaveParents
  <2>2. CASE p = m
    BY <2>1, <2>2
  <2>3. CASE p \in Ancestors(e, m)
    BY <1>6, <2>1, <2>3, AncestorsTransitive
  <2> QED
    BY <1>11, <2>2, <2>3
<1> QED
  BY <1>2, <1>6, <1>10, <1>11 DEF e, g

LEMMA GroundedKept ==
  ASSUME InlinesGrounded, UNCHANGED inlines, asts \cup Mods \cup {Root} \subseteq (asts \cup Mods \cup {Root})'
  PROVE  InlinesGrounded'
BY DEF InlinesGrounded

(* A module that returns errors is inlined into the one below it.          *)
LEMMA InlinedFacts ==
  ASSUME Inv, Popped, inlines' = Inline(From, stack[2].mod)
  PROVE  /\ stack[2].mod \in Mods' /\ stack[2].mod \in Paths
         /\ DOMAIN inlines' = DOMAIN inlines \cup {From}
         /\ WithinPaths(Inliners(inlines')) /\ Acyclic(Inliners(inlines'))
         /\ \A m \in Paths :
              Ancestors(Inliners(inlines), m) \subseteq Ancestors(Inliners(inlines'), m)
         /\ \A m \in Paths : From \in {m} \cup Ancestors(Inliners(inlines'), m) =>
              stack[2].mod \in Ancestors(Inliners(inlines'), m)
<1> DEFINE importer == stack[2].mod
<1>1. /\ From \in Paths /\ Mods = Mods' \cup {From} /\ From \notin Mods'
      /\ From \notin Completed
  BY PoppedMods
<1>2. importer \in Mods' /\ importer \in Paths /\ importer \notin Completed
  <2>1. 1 \in DOMAIN stack' /\ stack'[1].mod = importer
    BY DEF Popped
  <2>2. importer \in Mods'
    BY <2>1 DEF Mods
  <2>3. Mods \subseteq Paths
    BY StackFacts DEF Inv
  <2> QED
    BY <1>1, <2>2, <2>3 DEF Inv, Accounted
<1>3. ResolverTypeOK /\ Acyclic(Inliners(inlines))
  BY DEF Inv, InlinesGrounded, Typed
<1>4. From # importer /\ From \notin DOMAIN inlines /\ importer \notin DOMAIN inlines
  BY <1>1, <1>2 DEF Completed
<1> QED
  BY <1>1, <1>2, <1>3, <1>4, InlineFacts

LEMMA GroundedInlined ==
  ASSUME Inv, Popped, inlines' = Inline(From, stack[2].mod), UNCHANGED asts
  PROVE  InlinesGrounded'
<1> DEFINE importer == stack[2].mod
           g == Inliners(inlines)
           e == Inliners(inlines')
<1>1. /\ From \in Paths /\ Mods = Mods' \cup {From} /\ From \notin Mods'
  BY PoppedMods
<1>2. /\ importer \in Mods'
      /\ DOMAIN inlines' = DOMAIN inlines \cup {From} /\ Acyclic(e)
      /\ \A m \in Paths : Ancestors(g, m) \subseteq Ancestors(e, m)
      /\ \A m \in Paths : From \in {m} \cup Ancestors(e, m) => importer \in Ancestors(e, m)
  BY InlinedFacts
<1> HIDE DEF e, g
<1>3. ASSUME NEW p \in DOMAIN inlines'
      PROVE  Ancestors(e, p) \cap (asts \cup Mods' \cup {Root}) # {}
  <2>1. p \in Paths /\ DOMAIN inlines \subseteq Paths
    BY <1>1, <1>2 DEF Inv, Typed, ResolverTypeOK
  <2>2. CASE From \in {p} \cup Ancestors(e, p)
    BY <1>2, <2>1, <2>2
  <2>3. CASE From \notin {p} \cup Ancestors(e, p)
    <3>1. p \in DOMAIN inlines
      BY <1>2, <2>3
    <3>2. PICK x \in Ancestors(g, p) : x \in asts \cup Mods \cup {Root}
      BY <3>1 DEF Inv, InlinesGrounded, g
    <3>3. x \in Ancestors(e, p) /\ x # From
      BY <1>2, <2>1, <2>3, <3>2
    <3> QED
      BY <1>1, <3>2, <3>3
  <2> QED
    BY <2>2, <2>3
<1> QED
  BY <1>2, <1>3 DEF InlinesGrounded, e

-----------------------------------------------------------------------------
(* What is settled stays so.                                               *)

LEMMA SettledReplaced ==
  ASSUME Typed, stack # <<>>, Replaced, UNCHANGED inlines, NEW X, EdgesTo(X),
         stack[1].errs \subseteq stack'[1].errs,
         NEW m, NEW p, Settled(m, p)
  PROVE  StaysSettled(m, p)
<1>1. DOMAIN stack = 1 .. Len(stack) /\ Len(stack) \in Nat
  BY StackFacts
<1>2. ASSUME NEW k \in DOMAIN stack
      PROVE  /\ k \in DOMAIN stack' /\ stack'[k].mod = stack[k].mod
             /\ stack[k].errs \subseteq stack'[k].errs
  <2>1. CASE k = 1
    BY <2>1 DEF Replaced
  <2>2. CASE k # 1
    BY <1>1, <2>2 DEF Replaced
  <2> QED
    BY <2>1, <2>2
<1>3. DependsOn(graph, m, p) => DependsOn(graph', m, p)
  BY EdgesGrow
<1> QED
  BY <1>2, <1>3 DEF Settled, StaysSettled, SettledIn

LEMMA SettledPushed ==
  ASSUME UNCHANGED inlines, NEW X, EdgesTo(X),
         NEW n \in Paths, NEW via \in {"import", "package"}, PushedOn(n, via),
         NEW m, NEW p, Settled(m, p)
  PROVE  StaysSettled(m, p)
<1>1. \A k \in DOMAIN stack : /\ k + 1 \in DOMAIN stack' /\ stack'[k + 1].mod = stack[k].mod
                              /\ stack'[k + 1].errs = stack[k].errs
  BY DEF PushedOn
<1>2. DependsOn(graph, m, p) => DependsOn(graph', m, p)
  BY EdgesGrow
<1> QED
  BY <1>1, <1>2 DEF Settled, StaysSettled, SettledIn

LEMMA SettledPopped ==
  ASSUME Typed, Popped, UNCHANGED <<inlines, graph>>,
         stack[1].errs = {}, stack[2].errs \subseteq stack'[1].errs,
         NEW m, NEW p, Settled(m, p)
  PROVE  StaysSettled(m, p)
<1>1. DOMAIN stack = 1 .. Len(stack) /\ Len(stack) \in Nat
  BY StackFacts
<1>2. ASSUME NEW k \in DOMAIN stack, p \in stack[k].errs
      PROVE  /\ k - 1 \in DOMAIN stack' /\ stack'[k - 1].mod = stack[k].mod
             /\ p \in stack'[k - 1].errs
  <2>1. k > 1
    <3>1. k # 1
      BY <1>2
    <3> QED
      BY <1>1, <3>1
  <2>2. k - 1 \in DOMAIN stack' /\ k = (k - 1) + 1
    BY <2>1 DEF Popped
  <2>3. stack'[k - 1].mod = stack[k].mod
    BY <2>2 DEF Popped
  <2>4. CASE k = 2
    BY <1>2, <2>2, <2>3, <2>4
  <2>5. CASE k # 2
    <3>1. k - 1 > 1
      BY <1>1, <2>1, <2>5
    <3>2. stack'[k - 1] = stack[k]
      BY <2>2, <3>1 DEF Popped
    <3> QED
      BY <1>2, <2>2, <3>2
  <2> QED
    BY <2>4, <2>5
<1> QED
  BY <1>2 DEF Settled, StaysSettled, SettledIn

LEMMA SettledInlined ==
  ASSUME Inv, Popped, UNCHANGED graph, inlines' = Inline(From, stack[2].mod),
         stack[2].errs \cup (stack[1].errs \ {stack[2].mod}) \subseteq stack'[1].errs,
         NEW m \in Paths, NEW p, Settled(m, p)
  PROVE  StaysSettled(m, p)
<1> DEFINE importer == stack[2].mod
           g == Inliners(inlines)
           e == Inliners(inlines')
<1>1. From = stack[1].mod
  BY PoppedMods
<1>2. /\ DOMAIN stack = 1 .. Len(stack) /\ Len(stack) \in Nat
      /\ 1 \in DOMAIN stack' /\ stack'[1].mod = importer
  <2>1. 1 \in DOMAIN stack' /\ stack'[1].mod = importer
    BY DEF Popped
  <2> QED
    BY <2>1, StackFacts DEF Inv
<1>3. /\ \A n \in Paths : Ancestors(g, n) \subseteq Ancestors(e, n)
      /\ \A n \in Paths : From \in {n} \cup Ancestors(e, n) => importer \in Ancestors(e, n)
  BY InlinedFacts
<1>4. /\ Ancestors(g, m) \subseteq Ancestors(e, m)
      /\ From \in {m} \cup Ancestors(e, m) => importer \in Ancestors(e, m)
  BY <1>3
<1> HIDE DEF e, g
<1>5. CASE DependsOn(graph, m, p) \/ p \in Ancestors(g, m)
  BY <1>4, <1>5 DEF Settled, StaysSettled, SettledIn, e
<1>6. ASSUME NEW k \in DOMAIN stack, p \in stack[k].errs,
             stack[k].mod \in {m} \cup Ancestors(g, m)
      PROVE  StaysSettled(m, p)
  <2>1. stack[k].mod \in {m} \cup Ancestors(e, m)
    BY <1>4, <1>6
  <2>2. CASE k = 1
    <3>1. importer \in Ancestors(e, m)
      BY <1>1, <1>4, <2>1, <2>2
    <3>2. CASE p = importer
      BY <3>1, <3>2 DEF Settled, StaysSettled, SettledIn, e
    <3>3. CASE p # importer
      <4>1. p \in stack'[1].errs
        BY <1>6, <2>2, <3>3
      <4> QED
        BY <1>2, <3>1, <4>1 DEF Settled, StaysSettled, SettledIn, e
    <3> QED
      BY <3>2, <3>3
  <2>3. CASE k # 1
    <3>1. k > 1
      BY <1>2, <2>3
    <3>2. k - 1 \in DOMAIN stack' /\ k = (k - 1) + 1
      BY <3>1 DEF Popped
    <3>3. stack'[k - 1].mod = stack[k].mod
      BY <3>2 DEF Popped
    <3>4. p \in stack'[k - 1].errs
      <4>1. CASE k = 2
        BY <1>6, <4>1
      <4>2. CASE k # 2
        <5>1. k - 1 > 1
          BY <1>2, <3>1, <4>2
        <5> QED
          BY <1>6, <3>2, <5>1 DEF Popped
      <4> QED
        BY <4>1, <4>2
    <3> QED
      BY <2>1, <3>2, <3>3, <3>4 DEF Settled, StaysSettled, SettledIn, e
  <2> QED
    BY <2>2, <2>3
<1> QED
  BY <1>5, <1>6 DEF Settled, SettledIn, g

LEMMA ImportsReplaced ==
  ASSUME Typed, stack # <<>>, ImportsSettled, Replaced,
         UNCHANGED <<project, asts, inlines>>, NEW X, EdgesTo(X),
         stack[1].errs \subseteq stack'[1].errs,
         \/ stack'[1].next = stack[1].next
         \/ /\ stack'[1].next = stack[1].next + 1
            /\ BodyIn(project, From)[Top.next] # From =>
                 StaysSettled(From, BodyIn(project, From)[Top.next])
  PROVE  ImportsSettled'
<1>1. /\ DOMAIN stack = 1 .. Len(stack) /\ Len(stack) \in Nat /\ 1 \in DOMAIN stack
      /\ Top = stack[1] /\ From = stack[1].mod /\ Top \in Frames
      /\ DOMAIN stack' = DOMAIN stack
  BY TopType DEF Typed, From, Replaced
<1>2. stack' # <<>>
  BY <1>1
<1>3. \A m, p : Settled(m, p) => StaysSettled(m, p)
  BY SettledReplaced
<1>4. ASSUME NEW m \in Completed, NEW p \in Imported(project, m) \ {m}
      PROVE  StaysSettled(m, p)
  BY <1>3 DEF ImportsSettled
<1>5. ASSUME NEW k \in DOMAIN stack, NEW i \in DOMAIN BodyIn(project, stack[k].mod),
             i < stack'[k].next,
             BodyIn(project, stack[k].mod)[i] # stack[k].mod
      PROVE  StaysSettled(stack[k].mod, BodyIn(project, stack[k].mod)[i])
  <2> DEFINE m == stack[k].mod
             p == BodyIn(project, stack[k].mod)[i]
  <2>1. i < stack[k].next => Settled(m, p)
    BY <1>5 DEF ImportsSettled
  <2>2. CASE i < stack[k].next
    BY <1>3, <2>1, <2>2
  <2>3. CASE ~(i < stack[k].next)
    <3>1. k = 1
      BY <1>1, <1>5, <2>3 DEF Replaced
    <3>2. i = Top.next
      <4>1. BodyIn(project, stack[k].mod) \in Seq(Paths)
        BY <1>1, <3>1, TopType, BodyFacts DEF Typed
      <4>2. i \in Nat /\ Top.next \in Nat
        BY <1>1, <4>1 DEF Frames
      <4> QED
        BY <1>1, <1>5, <2>3, <3>1, <4>2
    <3> QED
      BY <1>1, <1>5, <2>3, <3>1, <3>2
  <2> QED
    BY <2>2, <2>3
<1>6. Completed' = Completed /\ project' = project
      /\ \A k \in DOMAIN stack : stack'[k].mod = stack[k].mod
  BY DEF Completed, Replaced
<1>7. ASSUME NEW k \in DOMAIN stack', NEW i \in DOMAIN BodyIn(project', stack'[k].mod),
             i < stack'[k].next,
             BodyIn(project', stack'[k].mod)[i] # stack'[k].mod
      PROVE  StaysSettled(stack'[k].mod, BodyIn(project', stack'[k].mod)[i])
  BY <1>1, <1>5, <1>6, <1>7
<1>8. \A m \in Completed' : \A p \in Imported(project', m) \ {m} : StaysSettled(m, p)
  BY <1>4, <1>6
<1> QED
  BY <1>2, <1>7, <1>8 DEF ImportsSettled, Settled, StaysSettled

LEMMA ImportsPushed ==
  ASSUME Typed, ImportsSettled, UNCHANGED <<project, asts, inlines>>, NEW X, EdgesTo(X),
         NEW n \in Paths, NEW via \in {"import", "package"}, PushedOn(n, via)
  PROVE  ImportsSettled'
<1>1. /\ DOMAIN stack = 1 .. Len(stack) /\ Len(stack) \in Nat
      /\ 1 \in DOMAIN stack' /\ DOMAIN stack' = 1 .. Len(stack) + 1
  BY StackFacts DEF PushedOn
<1>2. stack' # <<>>
  BY <1>1
<1>3. \A m, p : Settled(m, p) => StaysSettled(m, p)
  BY SettledPushed
<1>4. Completed' = Completed /\ project' = project
  BY DEF Completed
<1>5. \A m \in Completed' : \A p \in Imported(project', m) \ {m} : StaysSettled(m, p)
  BY <1>3, <1>4 DEF ImportsSettled
<1>6. ASSUME NEW k \in DOMAIN stack', NEW i \in DOMAIN BodyIn(project', stack'[k].mod),
             i < stack'[k].next,
             BodyIn(project', stack'[k].mod)[i] # stack'[k].mod
      PROVE  StaysSettled(stack'[k].mod, BodyIn(project', stack'[k].mod)[i])
  <2>1. CASE k = 1
    <3>1. stack'[k].mod = n /\ stack'[k].next = 1
      BY <2>1, FrameType DEF PushedOn
    <3>2. BodyIn(project', n) \in Seq(Paths)
      BY <1>4, BodyFacts DEF Typed
    <3>3. i \in Nat \ {0}
      BY <3>1, <3>2
    <3> QED
      BY <1>6, <3>1, <3>3
  <2>2. CASE k # 1
    <3> DEFINE j == k - 1
    <3>1. j \in DOMAIN stack /\ k = j + 1
      BY <1>1, <2>2 DEF PushedOn
    <3>2. stack'[k].mod = stack[j].mod /\ stack'[k].next = stack[j].next
      BY <3>1 DEF PushedOn
    <3> HIDE DEF j
    <3>3. Settled(stack[j].mod, BodyIn(project, stack[j].mod)[i])
      BY <1>4, <1>6, <3>1, <3>2 DEF ImportsSettled
    <3> QED
      BY <1>3, <1>4, <3>2, <3>3
  <2> QED
    BY <2>1, <2>2
<1> QED
  BY <1>2, <1>5, <1>6 DEF ImportsSettled, Settled, StaysSettled

LEMMA ImportsPopped ==
  ASSUME Inv, Exhausted, Popped, UNCHANGED <<project, graph>>,
         Completed' = Completed \cup {From},
         \A m \in Paths : \A p : Settled(m, p) => StaysSettled(m, p),
         \/ stack'[1].next = stack[2].next
         \/ /\ stack'[1].next = stack[2].next + 1
            /\ BodyIn(project, stack[2].mod)[stack[2].next] = From
            /\ DependsOn(graph, stack[2].mod, From)
  PROVE  ImportsSettled'
<1>1. /\ DOMAIN stack = 1 .. Len(stack) /\ Len(stack) \in Nat /\ Len(stack) > 1
      /\ 1 \in DOMAIN stack' /\ DOMAIN stack' = 1 .. Len(stack) - 1
      /\ stack'[1].mod = stack[2].mod /\ 2 \in DOMAIN stack
      /\ \A k \in DOMAIN stack : stack[k] \in Frames /\ stack[k].mod \in Paths
  BY StackFacts DEF Popped, Inv
<1>2. stack' # <<>>
  BY <1>1
<1>3. From \in Paths /\ From = stack[1].mod /\ 1 \in DOMAIN stack /\ Top = stack[1]
      /\ ResolverTypeOK
  BY <1>2, PoppedMods, TopType DEF Exhausted, Inv, Typed
<1>4. Completed \subseteq Paths
  BY <1>3 DEF Completed, ResolverTypeOK
<1>5. ASSUME NEW m \in Completed \cup {From}, NEW p \in Imported(project, m) \ {m}
      PROVE  StaysSettled(m, p)
  <2>1. CASE m \in Completed
    BY <1>4, <1>5, <2>1 DEF Inv, ImportsSettled
  <2>2. CASE m = From
    <3>1. PICK i \in DOMAIN BodyIn(project, From) : p = BodyIn(project, From)[i]
      <4>1. Imported(project, From)
              = {BodyIn(project, From)[i] : i \in DOMAIN BodyIn(project, From)}
        BY <1>3, BodyFacts
      <4>2. p \in Imported(project, From)
        BY <1>5, <2>2
      <4> QED
        BY <4>1, <4>2
    <3>2. i < stack[1].next
      <4>1. BodyIn(project, From) \in Seq(Paths) /\ Body(From) = BodyIn(project, From)
        BY <1>3, BodyFacts
      <4>2. stack[1].next \in Nat
        BY <1>1, <1>3 DEF Frames
      <4>3. stack[1].next > Len(BodyIn(project, From))
        BY <1>3, <4>1 DEF Exhausted, From
      <4> QED
        BY <4>1, <4>2, <4>3
    <3>3. Settled(From, p)
      BY <1>3, <1>5, <2>2, <3>1, <3>2 DEF Inv, ImportsSettled
    <3> QED
      BY <1>3, <2>2, <3>3
  <2> QED
    BY <2>1, <2>2
<1>6. ASSUME NEW k \in DOMAIN stack', NEW i \in DOMAIN BodyIn(project, stack'[k].mod),
             i < stack'[k].next,
             BodyIn(project, stack'[k].mod)[i] # stack'[k].mod
      PROVE  StaysSettled(stack'[k].mod, BodyIn(project, stack'[k].mod)[i])
  <2> DEFINE j == k + 1
             m == stack[j].mod
  <2>1. j \in DOMAIN stack /\ stack'[k].mod = m /\ (k > 1 => stack'[k] = stack[j])
    BY DEF Popped
  <2>2. i < stack[j].next => Settled(m, BodyIn(project, m)[i])
    BY <1>6, <2>1 DEF Inv, ImportsSettled
  <2>3. m \in Paths
    BY <1>1, <2>1
  <2>4. CASE i < stack[j].next
    BY <2>1, <2>2, <2>3, <2>4
  <2>5. CASE ~(i < stack[j].next)
    <3>1. k = 1 /\ j = 2
      BY <1>1, <1>6, <2>1, <2>5
    <3>2. /\ stack'[1].next = stack[2].next + 1
          /\ BodyIn(project, stack[2].mod)[stack[2].next] = From
          /\ DependsOn(graph, stack[2].mod, From)
      BY <1>6, <2>5, <3>1
    <3>3. i = stack[2].next
      <4>1. BodyIn(project, m) \in Seq(Paths)
        BY <1>3, <2>3, BodyFacts
      <4>2. i \in Nat /\ stack[2].next \in Nat
        BY <1>1, <2>1, <4>1 DEF Frames
      <4> QED
        BY <1>6, <2>5, <3>1, <3>2, <4>2
    <3> QED
      BY <1>1, <3>1, <3>2, <3>3 DEF StaysSettled, SettledIn
  <2> QED
    BY <2>4, <2>5
<1>7. Completed' = Completed \cup {From} /\ project' = project
  OBVIOUS
<1>8. \A m \in Completed' : \A p \in Imported(project', m) \ {m} : StaysSettled(m, p)
  BY <1>5, <1>7
<1>9. ASSUME NEW k \in DOMAIN stack', NEW i \in DOMAIN BodyIn(project', stack'[k].mod),
             i < stack'[k].next,
             BodyIn(project', stack'[k].mod)[i] # stack'[k].mod
      PROVE  StaysSettled(stack'[k].mod, BodyIn(project', stack'[k].mod)[i])
  BY <1>6, <1>7, <1>9
<1> QED
  BY <1>2, <1>8, <1>9 DEF ImportsSettled, Settled, StaysSettled

-----------------------------------------------------------------------------
(* The steps.                                                              *)

\* What register() does to the graph before it parses anything.
LEMMA PackageEdges ==
  ASSUME Inv, RegisterPackage
  PROVE  /\ EdgesTo({Package})
         /\ DOMAIN graph' = DOMAIN graph \cup {Import, Package, From}
<1>1. Importing /\ PackagePending /\ ResolverTypeOK
  BY DEF RegisterPackage, Inv, Typed
<1>2. Import \in Paths /\ From \in Paths /\ Package \in Paths /\ Package # From
      /\ ~Refused(AddNode(AddNode(graph, Import), Package), From, Package)
  BY <1>1, TopType, ImportType, PackageAccepted DEF Importing
<1> DEFINE g == AddNode(AddNode(graph, Import), Package)
<1>3. WithinPaths(g) /\ DOMAIN g = DOMAIN graph \cup {Import, Package}
      /\ \A q : Parents(g, q) = Parents(graph, q)
  <2>1. WithinPaths(g)
    BY <1>1, <1>2, GraphTypes, AddNodeWithinPaths
  <2>2. DOMAIN g = DOMAIN graph \cup {Import, Package}
    BY DEF AddNode
  <2> QED
    BY <2>1, <2>2, AddNodeParents
<1>4. graph' = IncRef(g, From, Package)
  BY DEF RegisterPackage
<1> HIDE DEF g
<1>5. WithinPaths(graph')
  BY <1>2, <1>3, <1>4, IncRefWithinPaths
<1>6. DOMAIN graph' = DOMAIN g \cup {From}
  BY <1>4, IncRefDomain
<1>7. ASSUME NEW q
      PROVE  Parents(graph', q) =
               IF q = From THEN Parents(g, q) \cup {Package} ELSE Parents(g, q)
  <2>1. ~Refused(g, From, Package)
    BY <1>2 DEF g
  <2> QED
    BY <1>2, <1>4, <2>1, IncRefAccepted
<1> QED
  BY <1>3, <1>5, <1>6, <1>7 DEF EdgesTo

LEMMA ImportEdges ==
  ASSUME Inv, Importing, graph' = IncRef(AddNode(graph, Import), From, Import)
  PROVE  /\ EdgesTo(IF Import \in Mods THEN {} ELSE {Import})
         /\ DOMAIN graph' = DOMAIN graph \cup {Import, From}
<1>1. Import \in Paths /\ From \in Paths /\ From = stack[1].mod /\ 1 \in DOMAIN stack
  BY TopType, ImportType DEF Importing, Inv, Typed, From
<1> DEFINE g == AddNode(graph, Import)
<1>2. WithinPaths(g) /\ DOMAIN g = DOMAIN graph \cup {Import}
      /\ \A q : Parents(g, q) = Parents(graph, q)
  <2>1. WithinPaths(g)
    BY <1>1, GraphTypes, AddNodeWithinPaths DEF Inv, Typed
  <2>2. DOMAIN g = DOMAIN graph \cup {Import}
    BY DEF AddNode
  <2> QED
    BY <2>1, <2>2, AddNodeParents
<1>3. Refused(g, From, Import) <=> Import \in Mods \ {From}
  BY RefusedOnStack
<1> HIDE DEF g
<1>4. WithinPaths(graph')
  BY <1>1, <1>2, IncRefWithinPaths DEF g
<1>5. graph' = IncRef(g, From, Import) /\ From \in Mods
  BY <1>1 DEF g, Mods
<1>6. DOMAIN graph' = DOMAIN g \cup {From}
  BY <1>5, IncRefDomain
<1>7. CASE Import \in Mods
  <2>1. From = Import \/ Refused(g, From, Import)
    BY <1>3, <1>7
  <2>2. ASSUME NEW q PROVE Parents(graph', q) = Parents(g, q)
    BY <1>5, <2>1, IncRefDropped
  <2> QED
    BY <1>2, <1>4, <1>6, <1>7, <2>2 DEF EdgesTo
<1>8. CASE Import \notin Mods
  <2>1. From # Import /\ ~Refused(g, From, Import)
    BY <1>3, <1>5, <1>8
  <2>2. ASSUME NEW q
        PROVE  Parents(graph', q) =
                 IF q = From THEN Parents(g, q) \cup {Import} ELSE Parents(g, q)
    BY <1>5, <2>1, IncRefAccepted
  <2> QED
    BY <1>2, <1>4, <1>6, <1>8, <2>2 DEF EdgesTo
<1> QED
  BY <1>7, <1>8

LEMMA NoEdges ==
  ASSUME Inv, UNCHANGED graph
  PROVE  EdgesTo({})
BY GraphTypes DEF EdgesTo, Inv, Typed

LEMMA RegisterPackageInv ==
  ASSUME Inv, RegisterPackage, Typed', GraphAcyclic'
  PROVE  Inv'
<1> DEFINE below == [Top EXCEPT !.packageDone = TRUE]
<1>1. Importing /\ PackagePending /\ stack # <<>> /\ Typed /\ ResolverTypeOK
      /\ UNCHANGED <<project, asts, inlines, resolveErrs>>
  BY DEF RegisterPackage, Importing, Inv, Typed
<1>2. /\ EdgesTo({Package})
      /\ DOMAIN graph' = DOMAIN graph \cup {Import, Package, From}
  BY PackageEdges
<1>3. /\ Package \in Paths \ {From} /\ Package \notin Mods
      /\ Package \notin project.unparsed
      /\ Package \in Parents(Needs(project), From)
  BY <1>1, PackageAccepted
<1>4. /\ Top \in Frames /\ Top = stack[1] /\ 1 \in DOMAIN stack /\ From = stack[1].mod
      /\ ~Top.packageDone /\ Top.mod = From
  BY <1>1, TopType DEF PackagePending, From
<1>5. /\ below \in Frames /\ below.mod = Top.mod /\ below.via = Top.via
      /\ below.next = Top.next /\ below.errs = Top.errs /\ below.packageDone = TRUE
  BY <1>4 DEF Frames
<1>6. PendingIn(project, below, Import)
  BY <1>1, <1>4, <1>5, ImportFacts DEF PendingIn
<1>7. From \in Mods /\ Root \in Mods
  BY <1>4, StackFacts DEF Mods, Inv, FramesLinked
<1>8. EdgesNeeded' /\ PackagesApart(project)' /\ resolveErrs' = {}
  BY <1>1, <1>2, <1>3, EdgesNeededStep DEF Inv
<1>9. CASE Known(Package)
  <2>1. stack' = <<below>> \o Tail(stack)
    BY <1>9 DEF RegisterPackage
  <2> HIDE DEF below
  <2>2. Replaced /\ stack'[1] = below
    BY <1>1, <1>4, <1>5, <2>1, ReplacedShape
  <2>3. Package \in Completed
    BY <1>3, <1>9 DEF Known, Completed
  <2>4. Chained' /\ FramesLinked'
    BY <1>1, <1>2, <2>2, ChainedReplaced, LinkedReplaced DEF Inv
  <2>5. ErrsTravel'
    BY <1>1, <1>4, <1>5, <2>2, ErrsReplaced DEF Inv
  <2>6. Accounted'
    <3>1. \A p : ~PendingIn(project, stack[1], p)
      BY <1>4 DEF PendingIn
    <3> QED
      BY <1>1, <1>2, <1>6, <1>7, <2>2, <2>3, <3>1, AccountedReplaced DEF Inv
  <2>7. FinishedClosed'
    BY <1>1, <1>2, <2>2, <2>3, ClosedReplaced DEF Inv
  <2>8. InlinesGrounded'
    BY <1>1, <2>2, ReplacedMods, GroundedKept DEF Inv
  <2>9. ImportsSettled'
    BY <1>1, <1>2, <1>4, <1>5, <2>2, ImportsReplaced DEF Inv
  <2> QED
    BY <1>8, <2>4, <2>5, <2>6, <2>7, <2>8, <2>9 DEF Inv
<1>10. CASE ~Known(Package)
  <2>1. stack' = Pushed(Frame(Package, "package"), below)
    BY <1>3, <1>10 DEF RegisterPackage
  <2> HIDE DEF below
  <2>2. PushedOn(Package, "package") /\ stack'[2] = below
    BY <1>1, <1>3, <1>4, <1>5, <2>1, PushedShape
  <2>3. Package \notin Completed
    BY <1>10 DEF Known, Completed
  <2>4. Chained'
    <3>1. Package \in Parents(graph', From)
      BY <1>2 DEF EdgesTo
    <3> QED
      BY <1>1, <1>2, <1>3, <2>2, <3>1, ChainedPushed DEF Inv
  <2>5. FramesLinked'
    <3>1. Package \in Dragged(project, From)
      BY <1>1, ImportFacts
    <3> QED
      BY <1>1, <1>2, <1>3, <2>2, <3>1, LinkedPushed DEF Inv
  <2>6. ErrsTravel'
    BY <1>1, <1>3, <2>2, ErrsPushed DEF Inv
  <2>7. Accounted'
    BY <1>1, <1>2, <1>3, <1>6, <1>7, <2>2, <2>3, AccountedPushed DEF Inv
  <2>8. FinishedClosed'
    BY <1>1, <1>2, <1>3, <1>7, <2>2, <2>3, ChainedNoReentry, ClosedPushed DEF Inv
  <2>9. InlinesGrounded'
    <3>1. Mods' = Mods \cup {Package}
      BY <1>1, <1>3, <2>2, PushedMods
    <3> QED
      BY <1>1, <3>1, GroundedKept DEF Inv
  <2>10. ImportsSettled'
    BY <1>1, <1>2, <1>3, <2>2, ImportsPushed DEF Inv
  <2> QED
    BY <1>8, <2>4, <2>5, <2>6, <2>7, <2>8, <2>9, <2>10 DEF Inv
<1> QED
  BY <1>9, <1>10

LEMMA NoEdgesNeeded ==
  ASSUME Inv, UNCHANGED <<project, graph>>
  PROVE  EdgesNeeded' /\ PackagesApart(project)'
BY DEF Inv, EdgesNeeded

LEMMA ImportStep ==
  ASSUME Inv, Importing
  PROVE  /\ stack # <<>> /\ Typed /\ ResolverTypeOK
         /\ Top \in Frames /\ Top = stack[1] /\ 1 \in DOMAIN stack
         /\ From = stack[1].mod /\ Top.mod = From
         /\ From \in Paths /\ Import \in Paths /\ From \in Mods /\ Root \in Mods
         /\ Top.next \in DOMAIN BodyIn(project, From)
         /\ Import = BodyIn(project, From)[Top.next]
         /\ Import # From => Import \in Parents(Needs(project), From)
<1>1. stack # <<>> /\ Typed /\ ResolverTypeOK
  BY DEF Importing, Inv, Typed
<1>2. Top \in Frames /\ Top = stack[1] /\ 1 \in DOMAIN stack /\ From \in Paths
  BY <1>1, TopType
<1>3. From = stack[1].mod /\ Top.mod = From
  BY <1>2 DEF From
<1>4. From \in Mods /\ Root \in Mods
  BY <1>1, <1>2, <1>3, StackFacts DEF Mods, Inv, FramesLinked
<1> QED
  BY <1>1, <1>2, <1>3, <1>4, ImportType, ImportFacts

LEMMA RefuseImportInv ==
  ASSUME Inv, RefuseImport, Typed', GraphAcyclic'
  PROVE  Inv'
<1> DEFINE D == [Top EXCEPT !.errs = @ \cup {Import}]
           top == NextImport(D)
<1>1. /\ Importing /\ UNCHANGED <<project, asts, inlines, resolveErrs>>
      /\ graph' = IncRef(AddNode(graph, Import), From, Import)
      /\ stack' = <<top>> \o Tail(stack)
  BY DEF RefuseImport, RegisterImport
<1>2. /\ stack # <<>> /\ Typed /\ ResolverTypeOK
      /\ Top \in Frames /\ Top = stack[1] /\ 1 \in DOMAIN stack
      /\ From = stack[1].mod /\ Top.mod = From
      /\ From \in Paths /\ Import \in Paths /\ From \in Mods /\ Root \in Mods
      /\ Top.next \in DOMAIN BodyIn(project, From)
      /\ Import = BodyIn(project, From)[Top.next]
      /\ Import # From => Import \in Parents(Needs(project), From)
  BY <1>1, ImportStep
<1>3. Import \in Mods \ {From}
  BY <1>1, RefusedOnStack DEF RefuseImport
<1>4. EdgesTo({}) /\ DOMAIN graph' = DOMAIN graph \cup {Import, From}
  BY <1>1, <1>3, ImportEdges
<1>5. /\ D \in Frames /\ D.mod = Top.mod /\ D.via = Top.via
      /\ D.errs = Top.errs \cup {Import} /\ D.next = Top.next
  BY <1>2 DEF Frames
<1> HIDE DEF D
<1>6. /\ top \in Frames /\ top.mod = Top.mod /\ top.via = Top.via
      /\ top.errs = Top.errs \cup {Import} /\ top.next = Top.next + 1
  BY <1>5, NextImportType
<1> HIDE DEF top
<1>7. Replaced /\ stack'[1] = top
  BY <1>1, <1>2, <1>6, ReplacedShape
<1>8. EdgesNeeded' /\ PackagesApart(project)' /\ resolveErrs' = {}
  BY <1>1, <1>2, <1>4, EdgesNeededStep DEF Inv
<1>9. Chained' /\ FramesLinked'
  BY <1>1, <1>2, <1>4, <1>7, ChainedReplaced, LinkedReplaced DEF Inv
<1>10. ErrsTravel'
  <2>1. \A e \in stack'[1].errs :
           e \in stack[1].errs \/ (e \in Mods \ {From} /\ e \in Parents(Needs(project), From))
    BY <1>2, <1>3, <1>6, <1>7
  <2> QED
    BY <1>1, <1>2, <1>7, <2>1, ErrsReplaced DEF Inv
<1>11. Accounted'
  <2>1. \A p : PendingIn(project, stack[1], p) => p \in Mods
    BY <1>2, <1>3 DEF PendingIn
  <2> QED
    BY <1>1, <1>2, <1>3, <1>4, <1>7, <2>1, AccountedReplaced DEF Inv
<1>12. FinishedClosed'
  BY <1>1, <1>2, <1>4, <1>7, ClosedReplaced DEF Inv
<1>13. InlinesGrounded'
  BY <1>1, <1>7, ReplacedMods, GroundedKept DEF Inv
<1>14. ImportsSettled'
  <2>1. StaysSettled(From, Import)
    <3>1. 1 \in DOMAIN stack' /\ Import \in stack'[1].errs /\ stack'[1].mod = From
      BY <1>2, <1>6, <1>7 DEF Replaced
    <3> QED
      BY <3>1 DEF StaysSettled, SettledIn
  <2>2. stack[1].errs \subseteq stack'[1].errs /\ stack'[1].next = stack[1].next + 1
    BY <1>2, <1>6, <1>7
  <2> QED
    BY <1>1, <1>2, <1>4, <1>7, <2>1, <2>2, ImportsReplaced DEF Inv
<1> QED
  BY <1>8, <1>9, <1>10, <1>11, <1>12, <1>13, <1>14 DEF Inv

LEMMA ImportKnownInv ==
  ASSUME Inv, ImportKnown, Typed', GraphAcyclic'
  PROVE  Inv'
<1> DEFINE top == NextImport(Top)
           X == IF Import \in Mods THEN {} ELSE {Import}
<1>1. /\ Importing /\ UNCHANGED <<project, asts, inlines, resolveErrs>>
      /\ graph' = IncRef(AddNode(graph, Import), From, Import)
      /\ stack' = <<top>> \o Tail(stack)
      /\ ~Refused(AddNode(graph, Import), From, Import)
  BY DEF ImportKnown, AcceptImport, RegisterImport
<1>2. /\ stack # <<>> /\ Typed /\ ResolverTypeOK
      /\ Top \in Frames /\ Top = stack[1] /\ 1 \in DOMAIN stack
      /\ From = stack[1].mod /\ Top.mod = From
      /\ From \in Paths /\ Import \in Paths /\ From \in Mods /\ Root \in Mods
      /\ Top.next \in DOMAIN BodyIn(project, From)
      /\ Import = BodyIn(project, From)[Top.next]
      /\ Import # From => Import \in Parents(Needs(project), From)
  BY <1>1, ImportStep
<1>3. Import \notin Mods \ {From}
  BY <1>1, RefusedOnStack
<1>4. Import = From \/ Import \in Completed
  BY DEF ImportKnown, Known, Completed
<1>5. EdgesTo(X) /\ DOMAIN graph' = DOMAIN graph \cup {Import, From}
  BY <1>1, ImportEdges
<1>6. X \subseteq Completed /\ X \subseteq Parents(Needs(project), From)
  BY <1>2, <1>3, <1>4
<1>7. Import # From => DependsOn(graph', From, Import)
  <2>1. Import # From => Import \in X
    BY <1>3
  <2> HIDE DEF X
  <2> QED
    BY <1>5, <2>1 DEF EdgesTo, DependsOn
<1> HIDE DEF X
<1>8. /\ top \in Frames /\ top.mod = Top.mod /\ top.via = Top.via
      /\ top.errs = Top.errs /\ top.next = Top.next + 1
  BY <1>2, NextImportType
<1> HIDE DEF top
<1>9. Replaced /\ stack'[1] = top
  BY <1>1, <1>2, <1>8, ReplacedShape
<1>10. EdgesNeeded' /\ PackagesApart(project)' /\ resolveErrs' = {}
  BY <1>1, <1>2, <1>5, <1>6, EdgesNeededStep DEF Inv
<1>11. Chained' /\ FramesLinked'
  BY <1>1, <1>2, <1>5, <1>9, ChainedReplaced, LinkedReplaced DEF Inv
<1>12. ErrsTravel'
  BY <1>1, <1>2, <1>8, <1>9, ErrsReplaced DEF Inv
<1>13. Accounted'
  <2>1. Import \in Completed \cup Mods
    BY <1>2, <1>4
  <2>2. \A p : PendingIn(project, stack[1], p) => p \in Completed \cup Mods
    BY <1>2, <2>1 DEF PendingIn
  <2> QED
    BY <1>1, <1>2, <1>5, <1>9, <2>1, <2>2, AccountedReplaced DEF Inv
<1>14. FinishedClosed'
  BY <1>1, <1>2, <1>5, <1>6, <1>9, ClosedReplaced DEF Inv
<1>15. InlinesGrounded'
  BY <1>1, <1>9, ReplacedMods, GroundedKept DEF Inv
<1>16. ImportsSettled'
  <2>1. Import # From => StaysSettled(From, Import)
    BY <1>7 DEF StaysSettled, SettledIn
  <2>2. stack[1].errs \subseteq stack'[1].errs /\ stack'[1].next = stack[1].next + 1
    BY <1>2, <1>8, <1>9
  <2> QED
    BY <1>1, <1>2, <1>5, <1>9, <2>1, <2>2, ImportsReplaced DEF Inv
<1> QED
  BY <1>10, <1>11, <1>12, <1>13, <1>14, <1>15, <1>16 DEF Inv

LEMMA DescendInv ==
  ASSUME Inv, Descend, Typed', GraphAcyclic'
  PROVE  Inv'
<1>1. /\ Importing /\ UNCHANGED <<project, asts, inlines, resolveErrs>>
      /\ graph' = IncRef(AddNode(graph, Import), From, Import)
      /\ stack' = Pushed(Frame(Import, "import"), Top)
      /\ ~Refused(AddNode(graph, Import), From, Import)
  BY DEF Descend, AcceptImport, RegisterImport
<1>2. /\ stack # <<>> /\ Typed /\ ResolverTypeOK
      /\ Top \in Frames /\ Top = stack[1] /\ 1 \in DOMAIN stack
      /\ From = stack[1].mod /\ Top.mod = From
      /\ From \in Paths /\ Import \in Paths /\ From \in Mods /\ Root \in Mods
      /\ Top.next \in DOMAIN BodyIn(project, From)
      /\ Import = BodyIn(project, From)[Top.next]
      /\ Import # From => Import \in Parents(Needs(project), From)
  BY <1>1, ImportStep
<1>3. Import # From /\ Import \notin Completed
  BY DEF Descend, Known, Completed
<1>4. Import \notin Mods
  BY <1>1, <1>3, RefusedOnStack
<1>5. EdgesTo({Import}) /\ DOMAIN graph' = DOMAIN graph \cup {Import, From}
  BY <1>1, <1>4, ImportEdges
<1>6. Import \in Parents(graph', From)
  BY <1>5 DEF EdgesTo
<1>7. PushedOn(Import, "import") /\ stack'[2] = Top
  BY <1>1, <1>2, PushedShape
<1>8. EdgesNeeded' /\ PackagesApart(project)' /\ resolveErrs' = {}
  BY <1>1, <1>2, <1>3, <1>5, EdgesNeededStep DEF Inv
<1>9. Chained'
  BY <1>2, <1>5, <1>6, <1>7, ChainedPushed DEF Inv
<1>10. FramesLinked'
  BY <1>1, <1>2, <1>5, <1>6, <1>7, LinkedPushed DEF Inv, DependsOn
<1>11. ErrsTravel'
  BY <1>1, <1>2, <1>7, ErrsPushed DEF Inv
<1>12. Accounted'
  BY <1>1, <1>2, <1>3, <1>5, <1>7, AccountedPushed DEF Inv
<1>13. FinishedClosed'
  BY <1>1, <1>2, <1>3, <1>4, <1>5, <1>7, ChainedNoReentry, ClosedPushed DEF Inv
<1>14. InlinesGrounded'
  <2>1. Mods' = Mods \cup {Import}
    BY <1>2, <1>7, PushedMods
  <2> QED
    BY <1>1, <2>1, GroundedKept DEF Inv
<1>15. ImportsSettled'
  BY <1>1, <1>2, <1>5, <1>7, ImportsPushed DEF Inv
<1> QED
  BY <1>8, <1>9, <1>10, <1>11, <1>12, <1>13, <1>14, <1>15 DEF Inv

LEMMA ReturnStep ==
  ASSUME Inv, Exhausted, Top.via # "root", NEW f \in Frames,
         f.mod = stack[2].mod, f.via = stack[2].via, ReturnTo(f)
  PROVE  /\ Popped /\ stack'[1] = f /\ Typed /\ Top = stack[1] /\ 1 \in DOMAIN stack
         /\ From \in Paths /\ From = stack[1].mod /\ From \notin Completed
         /\ Mods = Mods' \cup {From}
         /\ Linked(stack[1], stack[2])
<1>1. Popped /\ stack'[1] = f /\ Typed
  BY PoppedShape DEF Inv
<1>2. Top = stack[1] /\ stack # <<>>
  BY <1>1, TopType DEF Exhausted, Typed
<1>3. /\ From \in Paths /\ From = stack[1].mod /\ 1 \in DOMAIN stack
      /\ Mods = Mods' \cup {From} /\ From \notin Completed
  BY <1>1, PoppedMods
<1>4. Linked(stack[1], stack[2])
  <2>1. 1 < Len(stack) /\ 1 + 1 = 2
    BY <1>1 DEF Popped
  <2> QED
    BY <1>3, <2>1 DEF Inv, FramesLinked
<1> QED
  BY <1>1, <1>2, <1>3, <1>4

\* What popping a frame keeps, whatever becomes of its module.
LEMMA ReturnKeeps ==
  ASSUME Inv, Exhausted, Popped, UNCHANGED <<project, graph, resolveErrs>>,
         Completed' = Completed \cup {From}
  PROVE  /\ EdgesNeeded' /\ PackagesApart(project)' /\ resolveErrs' = {}
         /\ Chained' /\ FramesLinked' /\ FinishedClosed'
<1>1. EdgesNeeded' /\ PackagesApart(project)' /\ resolveErrs' = {}
  BY NoEdgesNeeded DEF Inv
<1>2. Chained' /\ FramesLinked'
  BY ChainedPopped, LinkedPopped DEF Inv
<1>3. FinishedClosed'
  BY ClosedPopped
<1> QED
  BY <1>1, <1>2, <1>3

LEMMA ReturnPackageInv ==
  ASSUME Inv, ReturnPackage, Typed', GraphAcyclic'
  PROVE  Inv'
<1>1. /\ Exhausted /\ Top.via = "package" /\ asts' = asts \cup {From}
      /\ ReturnTo(stack[2])
      /\ UNCHANGED <<project, graph, inlines, resolveErrs>>
  BY DEF ReturnPackage, From
<1>2. stack[2] \in Frames
  BY <1>1, CallerType DEF Inv
<1>3. /\ Popped /\ stack'[1] = stack[2] /\ Typed /\ Top = stack[1] /\ 1 \in DOMAIN stack
      /\ From \in Paths /\ From = stack[1].mod /\ From \notin Completed
      /\ Mods = Mods' \cup {From}
  BY <1>1, <1>2, ReturnStep
<1>4. stack[1].errs = {}
  BY <1>1, <1>3, PackageErrs
<1>5. Completed' = Completed \cup {From}
  BY <1>1 DEF Completed
<1>6. /\ EdgesNeeded' /\ PackagesApart(project)' /\ resolveErrs' = {}
      /\ Chained' /\ FramesLinked' /\ FinishedClosed'
  BY <1>1, <1>3, <1>5, ReturnKeeps
<1>7. ErrsTravel'
  BY <1>1, <1>3, ErrsPopped
<1>8. Accounted'
  <2>1. asts' \cap DOMAIN inlines' = {}
    BY <1>1, <1>3 DEF Inv, Accounted, Completed
  <2> QED
    BY <1>1, <1>3, <1>5, <2>1, AccountedPopped
<1>9. InlinesGrounded'
  BY <1>1, <1>3, GroundedKept DEF Inv
<1>10. ImportsSettled'
  <2>1. \A m \in Paths : \A p : Settled(m, p) => StaysSettled(m, p)
    BY <1>1, <1>3, <1>4, SettledPopped
  <2>2. stack'[1].next = stack[2].next
    BY <1>3
  <2> QED
    BY <1>1, <1>3, <1>5, <2>1, <2>2, ImportsPopped
<1> QED
  BY <1>3, <1>6, <1>7, <1>8, <1>9, <1>10 DEF Inv

LEMMA ReturnImportInv ==
  ASSUME Inv, ReturnImport, Typed', GraphAcyclic'
  PROVE  Inv'
<1> DEFINE f == NextImport(stack[2])
<1>1. /\ Exhausted /\ Top.via = "import" /\ Top.errs = {} /\ asts' = asts \cup {From}
      /\ ReturnTo(f)
      /\ UNCHANGED <<project, graph, inlines, resolveErrs>>
  BY DEF ReturnImport, From
<1>2. stack[2] \in Frames
  BY <1>1, CallerType DEF Inv
<1>3. /\ f \in Frames /\ f.mod = stack[2].mod /\ f.via = stack[2].via
      /\ f.errs = stack[2].errs /\ f.next = stack[2].next + 1
  BY <1>2, NextImportType
<1> HIDE DEF f
<1>4. /\ Popped /\ stack'[1] = f /\ Typed /\ Top = stack[1] /\ 1 \in DOMAIN stack
      /\ From \in Paths /\ From = stack[1].mod /\ From \notin Completed
      /\ Mods = Mods' \cup {From} /\ Linked(stack[1], stack[2])
  BY <1>1, <1>3, ReturnStep
<1>5. /\ From = BodyIn(project, stack[2].mod)[stack[2].next]
      /\ DependsOn(graph, stack[2].mod, From)
  BY <1>1, <1>4 DEF Linked
<1>6. Completed' = Completed \cup {From}
  BY <1>1 DEF Completed
<1>7. /\ EdgesNeeded' /\ PackagesApart(project)' /\ resolveErrs' = {}
      /\ Chained' /\ FramesLinked' /\ FinishedClosed'
  BY <1>1, <1>4, <1>6, ReturnKeeps
<1>8. ErrsTravel'
  BY <1>1, <1>3, <1>4, ErrsPopped
<1>9. Accounted'
  <2>1. asts' \cap DOMAIN inlines' = {}
    BY <1>1, <1>4 DEF Inv, Accounted, Completed
  <2>2. \A p : PendingIn(project, stack[2], p) => p \in Completed'
    BY <1>5, <1>6 DEF PendingIn
  <2> QED
    BY <1>1, <1>4, <1>6, <2>1, <2>2, AccountedPopped
<1>10. InlinesGrounded'
  BY <1>1, <1>4, GroundedKept DEF Inv
<1>11. ImportsSettled'
  <2>1. \A m \in Paths : \A p : Settled(m, p) => StaysSettled(m, p)
    BY <1>1, <1>3, <1>4, SettledPopped
  <2>2. stack'[1].next = stack[2].next + 1
    BY <1>3, <1>4
  <2> QED
    BY <1>1, <1>4, <1>5, <1>6, <2>1, <2>2, ImportsPopped
<1> QED
  BY <1>4, <1>7, <1>8, <1>9, <1>10, <1>11 DEF Inv

LEMMA ReturnCyclicInv ==
  ASSUME Inv, ReturnCyclic, Typed', GraphAcyclic'
  PROVE  Inv'
<1> DEFINE D == [stack[2] EXCEPT !.errs = @ \cup ErrsLeft]
           f == NextImport(D)
<1>1. /\ Exhausted /\ Top.via = "import"
      /\ inlines' = Inline(From, stack[2].mod)
      /\ ReturnTo(f)
      /\ UNCHANGED <<project, graph, asts, resolveErrs>>
  BY DEF ReturnCyclic, From
<1>2. stack[2] \in Frames /\ Top \in Frames
  BY <1>1, CallerType, TopType DEF Inv, Typed, Exhausted
<1>3. /\ D \in Frames /\ D.mod = stack[2].mod /\ D.via = stack[2].via
      /\ D.errs = stack[2].errs \cup ErrsLeft /\ D.next = stack[2].next
  <2>1. ErrsLeft \subseteq Paths
    BY <1>2 DEF ErrsLeft, Frames
  <2> QED
    BY <1>2, <2>1 DEF Frames
<1> HIDE DEF D
<1>4. /\ f \in Frames /\ f.mod = stack[2].mod /\ f.via = stack[2].via
      /\ f.errs = stack[2].errs \cup ErrsLeft /\ f.next = stack[2].next + 1
  BY <1>3, NextImportType
<1> HIDE DEF f
<1>5. /\ Popped /\ stack'[1] = f /\ Typed /\ Top = stack[1] /\ 1 \in DOMAIN stack
      /\ From \in Paths /\ From = stack[1].mod /\ From \notin Completed
      /\ Mods = Mods' \cup {From} /\ Linked(stack[1], stack[2])
  BY <1>1, <1>4, ReturnStep
<1>6. /\ From = BodyIn(project, stack[2].mod)[stack[2].next]
      /\ DependsOn(graph, stack[2].mod, From)
  BY <1>1, <1>5 DEF Linked
<1>7. DOMAIN inlines' = DOMAIN inlines \cup {From}
  BY <1>1, <1>5, InlinedFacts
<1>8. Completed' = Completed \cup {From}
  BY <1>1, <1>7 DEF Completed
<1>9. /\ EdgesNeeded' /\ PackagesApart(project)' /\ resolveErrs' = {}
      /\ Chained' /\ FramesLinked' /\ FinishedClosed'
  BY <1>1, <1>5, <1>8, ReturnKeeps
<1>10. stack'[1].errs = stack[2].errs \cup (stack[1].errs \ {stack[2].mod})
  BY <1>4, <1>5 DEF ErrsLeft
<1>11. ErrsTravel'
  BY <1>1, <1>5, <1>10, ErrsPopped
<1>12. Accounted'
  <2>1. asts' \cap DOMAIN inlines' = {}
    BY <1>1, <1>5, <1>7 DEF Inv, Accounted, Completed
  <2>2. \A p : PendingIn(project, stack[2], p) => p \in Completed'
    BY <1>6, <1>8 DEF PendingIn
  <2> QED
    BY <1>1, <1>5, <1>8, <2>1, <2>2, AccountedPopped
<1>13. InlinesGrounded'
  BY <1>1, <1>5, GroundedInlined
<1>14. ImportsSettled'
  <2>1. \A m \in Paths : \A p : Settled(m, p) => StaysSettled(m, p)
    BY <1>1, <1>5, <1>10, SettledInlined
  <2>2. stack'[1].next = stack[2].next + 1
    BY <1>4, <1>5
  <2> QED
    BY <1>1, <1>5, <1>6, <1>8, <2>1, <2>2, ImportsPopped
<1> QED
  BY <1>5, <1>9, <1>11, <1>12, <1>13, <1>14 DEF Inv

LEMMA ReturnRootInv ==
  ASSUME Inv, ReturnRoot, Typed', GraphAcyclic'
  PROVE  Inv'
<1>1. /\ Exhausted /\ Top.via = "root" /\ stack' = <<>> /\ resolveErrs' = Top.errs
      /\ UNCHANGED <<project, graph, asts, inlines>>
  BY DEF ReturnRoot
<1>2. /\ Top \in Frames /\ Top = stack[1] /\ From \in Paths /\ From = stack[1].mod
      /\ 1 \in DOMAIN stack /\ Len(stack) \in Nat /\ DOMAIN stack = 1 .. Len(stack)
      /\ Typed /\ ResolverTypeOK
  BY <1>1, TopType DEF Inv, Typed, Exhausted, From
<1>3. Len(stack) = 1
  BY <1>1, <1>2, StackFacts
<1>4. DOMAIN stack = {1} /\ From = Root
  BY <1>2, <1>3 DEF Inv, FramesLinked
<1>5. stack[1].errs = {}
  BY <1>4 DEF Inv, ErrsTravel
<1>6. Mods = {Root}
  BY <1>2, <1>4 DEF Mods
<1>7. DOMAIN stack' = {} /\ Mods' = {} /\ Completed' = Completed /\ resolveErrs' = {}
  BY <1>1, <1>2, <1>5 DEF Mods, Completed
<1>8. ASSUME NEW i \in DOMAIN BodyIn(project, From) PROVE i < stack[1].next
  <2>1. BodyIn(project, From) \in Seq(Paths) /\ Body(From) = BodyIn(project, From)
    BY <1>2, BodyFacts
  <2>2. stack[1].next \in Nat /\ stack[1].next > Len(BodyIn(project, From))
    BY <1>1, <1>2, <2>1 DEF Exhausted, From, Frames
  <2> QED
    BY <2>1, <2>2
<1>9. \A p : ~PendingIn(project, stack[1], p)
  <2>1. stack[1].next \in Nat
    BY <1>2 DEF Frames
  <2> QED
    BY <1>2, <1>8, <2>1 DEF PendingIn
<1>10. EdgesNeeded' /\ PackagesApart(project)'
  BY <1>1, NoEdgesNeeded
<1>11. Chained' /\ FramesLinked' /\ ErrsTravel'
  BY <1>7 DEF Chained, FramesLinked, ErrsTravel
<1>12. Accounted'
  <2>1. /\ asts \cap DOMAIN inlines = {} /\ Completed \cap {Root} = {}
        /\ Completed \ {Root} \subseteq DOMAIN graph
        /\ \A p \in DOMAIN graph : p \in Completed \cup {Root}
    BY <1>4, <1>6, <1>9 DEF Inv, Accounted
  <2> QED
    BY <1>1, <1>7, <2>1 DEF Accounted
<1>13. FinishedClosed'
  <2>1. /\ Closed(graph, Completed)
        /\ \A p \in Paths \ (Completed \cup {Root}) : Parents(graph, p) = {}
    BY <1>6 DEF Inv, FinishedClosed
  <2> QED
    BY <1>1, <1>7, <2>1 DEF FinishedClosed
<1>14. InlinesGrounded'
  BY <1>1, <1>6, <1>7, GroundedKept DEF Inv
<1>15. ASSUME NEW m, NEW p, Settled(m, p) PROVE StaysSettled(m, p)
  BY <1>1, <1>4, <1>5, <1>15 DEF Settled, StaysSettled, SettledIn
<1>16. ImportsSettled'
  <2>1. \A m \in Completed' : \A p \in Imported(project', m) \ {m} : StaysSettled(m, p)
    BY <1>1, <1>7, <1>15 DEF Inv, ImportsSettled
  <2>2. ASSUME NEW p \in Imported(project, Root) \ {Root} PROVE StaysSettled(Root, p)
    <3>1. PICK i \in DOMAIN BodyIn(project, From) : p = BodyIn(project, From)[i]
      <4>1. Imported(project, From)
              = {BodyIn(project, From)[i] : i \in DOMAIN BodyIn(project, From)}
        BY <1>2, BodyFacts
      <4> QED
        BY <1>4, <2>2, <4>1
    <3>2. Settled(From, p)
      <4>1. i < stack[1].next /\ BodyIn(project, From)[i] # From
        BY <1>4, <1>8, <2>2, <3>1
      <4>2. i \in DOMAIN BodyIn(project, stack[1].mod)
        BY <1>2
      <4>3. Settled(stack[1].mod, BodyIn(project, stack[1].mod)[i])
        BY <1>2, <4>1, <4>2 DEF Inv, ImportsSettled
      <4> QED
        BY <1>2, <3>1, <4>3
    <3> QED
      BY <1>4, <1>15, <3>2
  <2>3. \A p \in Imported(project', Root) \ {Root} : StaysSettled(Root, p)
    BY <1>1, <2>2
  <2> QED
    BY <1>7, <2>1, <2>3 DEF ImportsSettled, Settled, StaysSettled
<1> QED
  BY <1>2, <1>7, <1>10, <1>11, <1>12, <1>13, <1>14, <1>16 DEF Inv

LEMMA InvInit ==
  Init /\ PackagesApart(project) => Inv
<1> SUFFICES ASSUME Init, PackagesApart(project) PROVE Inv
  OBVIOUS
<1>1. Typed /\ GraphAcyclic
  BY TypedInit, EmptyGraphAcyclic DEF Init, GraphAcyclic
<1>2. /\ stack = <<Frame(Root, "root")>> /\ graph = EmptyGraph /\ asts = {}
      /\ DOMAIN inlines = {} /\ resolveErrs = {}
  BY DEF Init
<1>3. /\ DOMAIN stack = {1} /\ Len(stack) = 1 /\ stack # <<>> /\ stack[1].mod = Root
      /\ stack[1].errs = {} /\ stack[1].next = 1 /\ stack[1].packageDone = FALSE
  BY <1>2, RootAssumption, FrameType DEF Frame
<1>4. Completed = {} /\ Mods = {Root} /\ DOMAIN graph = {}
  BY <1>2, <1>3 DEF Completed, Mods, EmptyGraph
<1>5. \A p : Parents(graph, p) = {}
  BY <1>4 DEF Parents
<1>6. EdgesNeeded /\ Chained /\ FramesLinked /\ ErrsTravel
  BY <1>3, <1>5 DEF EdgesNeeded, Chained, FramesLinked, ErrsTravel
<1>7. Accounted
  BY <1>2, <1>4 DEF Accounted
<1>8. FinishedClosed
  BY <1>4, <1>5 DEF FinishedClosed, Closed
<1>9. InlinesGrounded
  <2>1. \A p : Parents(Inliners(inlines), p) = {}
    BY <1>2 DEF Inliners, Parents
  <2>2. Inliners(inlines) = EmptyGraph
    BY <1>2 DEF Inliners, EmptyGraph
  <2> QED
    BY <1>2, <2>2, EmptyGraphAcyclic DEF InlinesGrounded
<1>10. ImportsSettled
  <2>1. \A i \in DOMAIN BodyIn(project, Root) : ~(i < 1)
    <3>1. BodyIn(project, Root) \in Seq(Paths)
      BY <1>1, RootAssumption, BodyFacts DEF Typed
    <3> QED
      BY <3>1
  <2> QED
    BY <1>3, <1>4, <2>1 DEF ImportsSettled
<1> QED
  BY <1>1, <1>2, <1>6, <1>7, <1>8, <1>9, <1>10 DEF Inv

LEMMA InvStutter ==
  ASSUME Inv, UNCHANGED resolveVars
  PROVE  Inv'
<1>1. UNCHANGED <<project, graph, asts, inlines, stack, resolveErrs>>
  BY DEF resolveVars
<1>2. Typed' /\ GraphAcyclic'
  BY TypedNext, GraphAcyclicNext DEF Inv
<1>3. Mods' = Mods /\ Completed' = Completed
  BY <1>1 DEF Mods, Completed
<1>4. EdgesNeeded' /\ PackagesApart(project)' /\ Chained' /\ FramesLinked' /\ ErrsTravel'
  <2>1. EdgesNeeded' /\ PackagesApart(project)'
    BY <1>1, NoEdgesNeeded
  <2>2. Chained'
    BY <1>1 DEF Inv, Chained
  <2>3. FramesLinked'
    BY <1>1 DEF Inv, FramesLinked, Linked
  <2>4. ErrsTravel'
    BY <1>1 DEF Inv, ErrsTravel
  <2> QED
    BY <2>1, <2>2, <2>3, <2>4
<1>5. Accounted' /\ FinishedClosed' /\ InlinesGrounded'
  BY <1>1, <1>3 DEF Inv, Accounted, FinishedClosed, InlinesGrounded
<1>6. ImportsSettled'
  BY <1>1, <1>3 DEF Inv, ImportsSettled, Settled
<1> QED
  BY <1>1, <1>2, <1>4, <1>5, <1>6 DEF Inv

LEMMA InvNext ==
  Inv /\ [Next]_resolveVars => Inv'
<1> SUFFICES ASSUME Inv, [Next]_resolveVars PROVE Inv'
  OBVIOUS
<1>1. Typed' /\ GraphAcyclic'
  BY TypedNext, GraphAcyclicNext DEF Inv
<1>2. CASE RegisterPackage
  BY <1>1, <1>2, RegisterPackageInv
<1>3. CASE RefuseImport
  BY <1>1, <1>3, RefuseImportInv
<1>4. CASE ImportKnown
  BY <1>1, <1>4, ImportKnownInv
<1>5. CASE Descend
  BY <1>1, <1>5, DescendInv
<1>6. CASE ReturnPackage
  BY <1>1, <1>6, ReturnPackageInv
<1>7. CASE ReturnImport
  BY <1>1, <1>7, ReturnImportInv
<1>8. CASE ReturnCyclic
  BY <1>1, <1>8, ReturnCyclicInv
<1>9. CASE ReturnRoot
  BY <1>1, <1>9, ReturnRootInv
<1>10. CASE UNCHANGED resolveVars
  BY <1>10, InvStutter
<1> QED
  BY <1>2, <1>3, <1>4, <1>5, <1>6, <1>7, <1>8, <1>9, <1>10 DEF Next, Resolve, Idle

LEMMA InvAlways ==
  Spec /\ PackagesApart(project) => []Inv
<1>1. Init /\ PackagesApart(project) => Inv
  BY InvInit
<1>2. Inv /\ [Next]_resolveVars => Inv'
  BY InvNext
<1> QED
  BY <1>1, <1>2, PTL DEF Spec

LEMMA InvConsequences ==
  ASSUME Inv
  PROVE  /\ NoReentry /\ RootResolves /\ EveryModuleAccounted
         /\ InliningGrounded /\ CircularityEliminated
<1>1. NoReentry
  BY ChainedNoReentry DEF Inv
<1>2. RootResolves
  BY DEF Inv, RootResolves
<1> SUFFICES ASSUME Resolved
             PROVE  /\ EveryModuleAccounted /\ InliningGrounded /\ CircularityEliminated
  BY <1>1, <1>2 DEF EveryModuleAccounted, InliningGrounded, CircularityEliminated
<1>3. stack = <<>> /\ DOMAIN stack = {} /\ Mods = {}
  BY DEF Resolved, Mods
<1>4. EveryModuleAccounted
  BY <1>3 DEF Inv, Accounted, EveryModuleAccounted, Completed
<1>5. ResolverTypeOK /\ InlineGraph = Inliners(inlines)
  BY InlinersFacts DEF Inv, Typed
<1>6. InliningGrounded
  BY <1>3, <1>5 DEF Inv, InlinesGrounded, InliningGrounded, Enclosing
<1>7. CircularityEliminated
  <2> SUFFICES ASSUME NEW m \in asts \cup DOMAIN inlines \cup {Root},
                      NEW p \in ImportSet(m) \ {m}
               PROVE  DependsOn(graph, m, p) \/ p \in Enclosing(m)
    BY DEF CircularityEliminated
  <2>1. m \in Paths
    BY <1>5, RootAssumption DEF ResolverTypeOK
  <2>2. p \in Imported(project, m) \ {m}
    BY <1>5, <2>1, BodyFacts
  <2>3. Settled(m, p)
    BY <1>3, <2>2 DEF Inv, ImportsSettled, Completed
  <2> QED
    BY <1>3, <1>5, <2>3 DEF Settled, SettledIn, Enclosing
<1> QED
  BY <1>4, <1>6, <1>7

(* In a project whose packages are apart, no module is entered again while *)
(* it is being resolved, however its modules import one another: the       *)
(* recursion of resolve() is no deeper than the project has modules, and   *)
(* the debug_asserts on `asts.insert' hold.                                *)
THEOREM ResolutionNeverReenters ==
  Spec /\ PackagesApart(project) => []NoReentry
BY InvAlways, InvConsequences, PTL

(* ... every error a refused import raises is consumed by the module it    *)
(* names: build_root's debug_assert holds.                                 *)
THEOREM ResolutionOfRootSucceeds ==
  Spec /\ PackagesApart(project) => []RootResolves
BY InvAlways, InvConsequences, PTL

(* ... a module with a node is either waiting to be analysed or inlined    *)
(* when resolution is over, never both, never neither.                     *)
THEOREM ResolutionAccountsForAll ==
  Spec /\ PackagesApart(project) => []EveryModuleAccounted
BY InvAlways, InvConsequences, PTL

(* ... inlining is well founded: whatever is inlined ends up in a module   *)
(* that is analysed on its own.                                            *)
THEOREM ResolutionGroundsInlining ==
  Spec /\ PackagesApart(project) => []InliningGrounded
BY InvAlways, InvConsequences, PTL

(* ... and inlining eliminates the circularity: an import without an edge  *)
(* is one from a module that is nested, however deeply, in what it imports. *)
THEOREM ResolutionEliminatesCircularity ==
  Spec /\ PackagesApart(project) => []CircularityEliminated
BY InvAlways, InvConsequences, PTL

=============================================================================
