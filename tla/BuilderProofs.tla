--------------------------- MODULE BuilderProofs ----------------------------
(***************************************************************************)
(* What a build guarantees, for projects of any size and on every schedule.*)
(***************************************************************************)
EXTENDS BuilderProperties, ResolverProofs

\* The frames of build_deps_and_module() and of a thread that lowers modules.
WorkFrames == [pending : SUBSET Paths, inlined : Paths \cup {NoPath}]
LowerFrames == [mod : Paths, next : Nat \ {0}, errs : SUBSET Paths,
                inlinedAt : SUBSET (Paths \X (Nat \ {0}))]

(* What makes the types of the build inductive, whatever was built before:  *)
(* a thread that is at work has a module in hand, and main is no such thread. *)
BuildTyped ==
  /\ Typed /\ BuilderTypeOK
  /\ work \in Seq(WorkFrames)
  /\ lowering \in [Paths -> Seq(LowerFrames)]
  /\ \A t \in Paths \ {Root} :
       threads[t] \in {"lowering", "registered"} => lowering[t] # <<>>
  /\ threads[Root] # "registered"

-----------------------------------------------------------------------------
(* The plan: what resolution leaves to the execution.                       *)

\* The import expressions that were replaced by the AST of the module they
\* import, as a function to that module; where each such module is put.
Place == [e \in inlinedAt |-> BodyIn(project, e[1])[e[2]]]
Targets == {Place[e] : e \in inlinedAt}
PlaceGraph == [p \in Targets |-> {e[1] : e \in {x \in inlinedAt : Place[x] = p}}]

\* The modules that are analysed on their own, the root left aside.
Own == DOMAIN graph \ ({Root} \cup Targets)

\* While the imports are resolved: inlined modules and places correspond, ...
Placed ==
  /\ \A e \in inlinedAt :
       /\ e[2] \in DOMAIN BodyIn(project, e[1])
       /\ DependsOn(graph, e[1], Place[e])
       /\ Place[e] \in DOMAIN inlines /\ inlines[Place[e]] = e[1]
  /\ \A d, e \in inlinedAt : Place[d] = Place[e] => d = e
  /\ DOMAIN inlines \subseteq Targets

\* ... the root needs everything that was parsed, and nothing else.
Needed ==
  /\ Completed \subseteq Ancestors(graph, Root)
  /\ Resolved => Parents(graph, Root) \subseteq Completed

\* Once they are: every import is an edge or leads out of an inlined module, which
\* has one place, below an edge, in a module that is analysed.
Plan ==
  /\ WithinPaths(graph) /\ Acyclic(graph)
  /\ \A p \in Paths : Parents(graph, p) \subseteq DOMAIN graph \ {Root}
  /\ DOMAIN graph \ {Root} \subseteq Ancestors(graph, Root)
  /\ \A e \in inlinedAt : /\ e[2] \in DOMAIN BodyIn(project, e[1])
                          /\ DependsOn(graph, e[1], Place[e])
  /\ \A d, e \in inlinedAt : Place[d] = Place[e] => d = e
  /\ \A m \in DOMAIN graph \cup {Root} : \A p \in Imported(project, m) \ {m} :
       DependsOn(graph, m, p) \/ p \in Ancestors(PlaceGraph, m)
  /\ \A p \in Targets : Ancestors(PlaceGraph, p) \cap (Own \cup {Root}) # {}

-----------------------------------------------------------------------------
(* The main thread's walk through the ancestors of the root.                *)

Visited == DOMAIN graph \ DOMAIN clone
Opened == {work[i].inlined : i \in DOMAIN work} \ {NoPath}
Walking == mainPc \in {"spawn", "insert", "build", "wait"}
Starting == mainPc \in {"insert", "build"}

\* The copy of the graph: what was visited is gone, and all it needs with it.
CloneExact ==
  /\ DOMAIN clone \subseteq DOMAIN graph
  /\ \A p \in DOMAIN clone : clone[p] = graph[p] \cap DOMAIN clone
  /\ \A p \in Visited : Parents(graph, p) \subseteq Visited
  /\ Root \notin Visited

\* The lists of what is still to be visited: the outermost has it all, and none
\* has a module whose visit it is part of.
WorkExact ==
  /\ Walking <=> work # <<>>
  /\ \A i \in DOMAIN work : work[i].pending \subseteq DOMAIN graph \ {Root}
  /\ \A i, j \in DOMAIN work : i <= j => work[j].inlined \notin work[i].pending
  /\ \A i \in DOMAIN work :
       IF i = Len(work) THEN /\ work[i].inlined = NoPath
                             /\ DOMAIN clone \ {Root} \subseteq work[i].pending
       ELSE work[i].inlined \in Targets \cap Visited

\* The ASTs and the inlined modules still to be taken.
AstsExact ==
  Walking =>
    /\ asts = DOMAIN clone \ ({Root} \cup Targets)
    /\ DOMAIN inlines = Targets

\* What was visited is registered, up to what main is busy with.
VisitedKnown ==
  /\ \A p \in Visited : Registered(p) \/ p \in Opened \/ (Starting /\ p = subject)
  /\ \A p \in Paths : Registered(p) \/ Cached(p) => p \in Visited
  /\ Starting => /\ subject \in Visited \cap Own /\ ~Registered(subject)
                 /\ \A p \in Visited : subject \notin Parents(graph, p)
  /\ ~Walking => DOMAIN graph \ {Root} \subseteq Visited

-----------------------------------------------------------------------------
(* The modules in hand, a sequence of frames for each thread.               *)

On(s) == {s[i].mod : i \in DOMAIN s}
NoRepeat(s) == \A i, j \in DOMAIN s : s[i].mod = s[j].mod => i = j

\* Modules are nested the way they are inlined.
Nested(s, place) ==
  \A i \in DOMAIN s :
    /\ s[i].inlinedAt = DOMAIN place
    /\ i < Len(s) => /\ <<s[i + 1].mod, s[i + 1].next>> \in DOMAIN place
                     /\ s[i].mod = place[<<s[i + 1].mod, s[i + 1].next>>]

\* A frame is beyond the import e.
Beyond(s, e) == \E i \in DOMAIN s : s[i].mod = e[1] /\ s[i].next > e[2]

\* The modules whose errors a thread holds.
HeldIn(s, F) == UNION {s[i].errs \cup (F \cap {s[i].mod}) : i \in DOMAIN s}

Bottom(s) == s[Len(s)].mod

StacksExact ==
  /\ \A t \in Paths : NoRepeat(lowering[t]) /\ Nested(lowering[t], Place)
  /\ \A t \in Paths : LET b == Bottom(lowering[t])
                      IN  On(lowering[t]) \subseteq {b} \cup Ancestors(graph, b)
  /\ \A t, u \in Paths : t # u => On(lowering[t]) \cap On(lowering[u]) = {}
  /\ \A t \in Paths : On(lowering[t]) \subseteq Visited \cup {Root}
  /\ \A t \in Paths : \A m \in On(lowering[t]) : Cached(m) => threads[t] = "registered"

\* Which thread has what: the innermost module of a thread is its own, main's is
\* the root or the one it builds in place of a thread.
ThreadsExact ==
  /\ \A t \in Paths : threads[t] # "none" => t \in Visited \cap Own /\ parallel
  /\ \A t \in Paths \ {Root} :
       lowering[t] # <<>> => /\ threads[t] \in {"lowering", "registered"}
                             /\ Bottom(lowering[t]) = t
  /\ \A t \in Paths : threads[t] = "registered" => ModuleLowered(t)
  /\ lowering[Root] # <<>> <=> mainPc \in {"build", "lower"}
  /\ mainPc = "build" => Bottom(lowering[Root]) = subject /\ threads[subject] = "none"
  /\ mainPc = "lower" => Bottom(lowering[Root]) = Root
  /\ mainPc = "insert" => threads[subject] # "none"

PromisesExact ==
  /\ \A p \in Paths : promises[p] = "running" => threads[p] # "none"
  /\ \A p \in Paths : promises[p] = "joined" => threads[p] \in {"none", "exited"}
  /\ \A p \in Own :
       promises[p] = "joined" \/ threads[p] \in {"registered", "exited"} => Cached(p)

\* An inlined module is analysed when the one around it comes to its place.
Past(e) ==
  \/ Cached(e[1])
  \/ \E t \in Paths : Beyond(lowering[t], e)
  \/ e[1] = Root /\ mainPc = "done"

CachedPast == \A e \in inlinedAt : Cached(Place[e]) <=> Past(e)

\* An error that was found is in somebody's hands until the build is done.
Noted(m) == m \in errors \/ \E t \in Paths : m \in HeldIn(lowering[t], faulty)

ErrorsKept ==
  mainPc # "done" =>
    /\ \A m \in faulty : Cached(m) => Noted(m)
    /\ \A e \in missing : Noted(e[1])
    /\ ~aborted

MissedInlined == \A e \in missing : e[2] \in Targets

-----------------------------------------------------------------------------
NotStarted ==
  /\ \A p \in Paths : /\ ~Registered(p) /\ ~Cached(p)
                      /\ threads[p] = "none" /\ lowering[p] = <<>>
  /\ work = <<>> /\ missing = {} /\ ~aborted

Resolving == Inv /\ Placed /\ Needed /\ NotStarted

Executing ==
  /\ mainPc \notin {"resolve", "panic"}
  /\ Plan /\ CloneExact /\ WorkExact /\ AstsExact /\ VisitedKnown
  /\ StacksExact /\ ThreadsExact /\ PromisesExact /\ CachedPast
  /\ ErrorsKept /\ MissedInlined /\ FailuresReported

(* The invariant of the first build.                                        *)
FirstBuild ==
  builds = 1 => IF mainPc = "resolve" THEN Resolving ELSE Executing

-----------------------------------------------------------------------------
(* Type correctness, of any number of builds.                               *)

LEMMA NonEmpty ==
  ASSUME NEW S, NEW s \in Seq(S), s # <<>>
  PROVE  /\ Len(s) \in Nat \ {0} /\ DOMAIN s = 1 .. Len(s) /\ 1 \in DOMAIN s /\ Len(s) \in DOMAIN s
         /\ Head(s) = s[1] /\ s[1] \in S /\ s[Len(s)] \in S
         /\ \A i \in DOMAIN s : s[i] \in S
         /\ Tail(s) \in Seq(S) /\ Len(Tail(s)) = Len(s) - 1 /\ DOMAIN Tail(s) = 1 .. Len(s) - 1
         /\ \A i \in 1 .. Len(s) - 1 : Tail(s)[i] = s[i + 1]
OBVIOUS

LEMMA PushedOne ==
  ASSUME NEW S, NEW s \in Seq(S), NEW f \in S
  PROVE  LET r == <<f>> \o s
         IN  /\ r \in Seq(S) /\ r # <<>> /\ Len(s) \in Nat
             /\ Len(r) = Len(s) + 1 /\ DOMAIN r = 1 .. Len(s) + 1 /\ DOMAIN s = 1 .. Len(s)
             /\ r[1] = f
             /\ \A i \in DOMAIN s : r[i + 1] = s[i]
OBVIOUS

LEMMA Singleton ==
  ASSUME NEW S, NEW f \in S
  PROVE  /\ <<f>> \in Seq(S) /\ <<f>> # <<>> /\ Len(<<f>>) = 1 /\ DOMAIN <<f>> = {1}
         /\ <<f>>[1] = f /\ Head(<<f>>) = f
OBVIOUS

LEMMA NoFrames ==
  ASSUME NEW S
  PROVE  <<>> \in Seq(S) /\ Len(<<>>) = 0 /\ DOMAIN <<>> = {}
OBVIOUS

LEMMA ReplacedNotEmpty ==
  ASSUME NEW S, NEW s \in Seq(S), s # <<>>, NEW f \in S
  PROVE  (<<f>> \o Tail(s)) \in Seq(S) /\ (<<f>> \o Tail(s)) # <<>>
BY NonEmpty, PushedOne

LEMMA MergedTop ==
  ASSUME NEW S, NEW s \in Seq(S), Len(s) > 1, NEW f \in S
  PROVE  LET r == <<f>> \o SubSeq(s, 3, Len(s))
         IN  /\ r \in Seq(S) /\ r # <<>> /\ Len(s) \in Nat
             /\ Len(r) = Len(s) - 1 /\ DOMAIN r = 1 .. Len(s) - 1 /\ DOMAIN s = 1 .. Len(s)
             /\ r[1] = f
             /\ \A i \in DOMAIN r : i > 1 => r[i] = s[i + 1]
<1> DEFINE u == SubSeq(s, 3, Len(s))
           r == <<f>> \o u
<1>1. Len(s) \in Nat /\ DOMAIN s = 1 .. Len(s)
  OBVIOUS
<1>2. u \in Seq(S) /\ Len(u) = Len(s) - 2
      /\ \A i \in 1 .. Len(s) - 2 : u[i] = s[i + 2]
  BY <1>1
<1> HIDE DEF u
<1>3. /\ r \in Seq(S) /\ r # <<>> /\ Len(r) = Len(u) + 1 /\ r[1] = f
      /\ DOMAIN u = 1 .. Len(u) /\ DOMAIN r = 1 .. Len(u) + 1
      /\ \A i \in DOMAIN u : r[i + 1] = u[i]
  BY <1>2, PushedOne
<1> HIDE DEF r
<1>4. Len(r) = Len(s) - 1 /\ DOMAIN r = 1 .. Len(s) - 1
  BY <1>1, <1>2, <1>3
<1>5. ASSUME NEW i \in DOMAIN r, i > 1 PROVE r[i] = s[i + 1]
  <2>1. i - 1 \in 1 .. Len(s) - 2 /\ (i - 1) + 1 = i /\ (i - 1) + 2 = i + 1
    BY <1>1, <1>4, <1>5
  <2>2. i - 1 \in DOMAIN u
    BY <1>2, <1>3, <2>1
  <2> QED
    BY <2>1, <2>2, <1>2, <1>3
<1> QED
  BY <1>1, <1>3, <1>4, <1>5 DEF r, u

-----------------------------------------------------------------------------
LEMMA LowerFrameType ==
  ASSUME NEW m \in Paths, NEW at \in SUBSET (Paths \X (Nat \ {0}))
  PROVE  /\ LowerFrame(m, at) \in LowerFrames
         /\ LowerFrame(m, at).mod = m /\ LowerFrame(m, at).next = 1
         /\ LowerFrame(m, at).errs = {} /\ LowerFrame(m, at).inlinedAt = at
BY DEF LowerFrame, LowerFrames

(* A frame that goes on to its next import, with more errors.               *)
LEMMA AdvancedType ==
  ASSUME NEW f \in LowerFrames, NEW D \in SUBSET Paths
  PROVE  LET e == [f EXCEPT !.next = @ + 1, !.errs = @ \cup D]
         IN  /\ e \in LowerFrames
             /\ e.mod = f.mod /\ e.next = f.next + 1
             /\ e.errs = f.errs \cup D /\ e.inlinedAt = f.inlinedAt
<1> DEFINE d == [f EXCEPT !.next = @ + 1]
<1>1. /\ d \in LowerFrames
      /\ d.mod = f.mod /\ d.next = f.next + 1
      /\ d.errs = f.errs /\ d.inlinedAt = f.inlinedAt
  BY DEF LowerFrames
<1>2. [f EXCEPT !.next = @ + 1, !.errs = @ \cup D] = [d EXCEPT !.errs = @ \cup D]
  OBVIOUS
<1> HIDE DEF d
<1>3. LET e == [d EXCEPT !.errs = @ \cup D]
      IN  /\ e \in LowerFrames
          /\ e.mod = d.mod /\ e.next = d.next
          /\ e.errs = d.errs \cup D /\ e.inlinedAt = d.inlinedAt
  BY <1>1 DEF LowerFrames
<1> QED
  BY <1>1, <1>2, <1>3

LEMMA TakenType ==
  ASSUME BuildTyped, work # <<>>, NEW p
  PROVE  /\ WTop = work[1] /\ WTop \in WorkFrames /\ Taken(p) \in WorkFrames
         /\ Taken(p).pending = WTop.pending \ {p} /\ Taken(p).inlined = WTop.inlined
<1>1. work \in Seq(WorkFrames)
  BY DEF BuildTyped
<1>2. WTop = work[1] /\ WTop \in WorkFrames
  BY <1>1, NonEmpty DEF WTop
<1> QED
  BY <1>2 DEF Taken, WorkFrames

LEMMA WorkFrameType ==
  ASSUME NEW g, NEW p, NEW inlined \in Paths \cup {NoPath}
  PROVE  /\ WorkFrame(g, p, inlined) \in WorkFrames
         /\ WorkFrame(g, p, inlined).pending = Ancestors(g, p)
         /\ WorkFrame(g, p, inlined).inlined = inlined
BY AncestorsType DEF WorkFrame, WorkFrames

(* The modules a thread has in hand, seen from the innermost.               *)
LEMMA InHandType ==
  ASSUME BuildTyped, NEW t \in Paths, lowering[t] # <<>>
  PROVE  /\ lowering[t] \in Seq(LowerFrames)
         /\ LTop(t) = lowering[t][1] /\ LTop(t) \in LowerFrames /\ LTop(t).mod \in Paths
         /\ LTop(t).next \in Nat \ {0} /\ LTop(t).errs \subseteq Paths
         /\ LTop(t).inlinedAt \subseteq Paths \X (Nat \ {0})
         /\ Len(lowering[t]) \in Nat \ {0} /\ DOMAIN lowering[t] = 1 .. Len(lowering[t])
         /\ \A i \in DOMAIN lowering[t] : lowering[t][i] \in LowerFrames
         /\ ErrsOf(LTop(t)) \subseteq Paths
         /\ LTop(t).mod \in faulty => LTop(t).mod \in ErrsOf(LTop(t))
<1>1. lowering[t] \in Seq(LowerFrames)
  BY DEF BuildTyped
<1> DEFINE s == lowering[t]
<1>2. s \in Seq(LowerFrames) /\ s # <<>>
  BY <1>1
<1> HIDE DEF s
<1>3. /\ Len(s) \in Nat \ {0} /\ DOMAIN s = 1 .. Len(s) /\ Head(s) = s[1] /\ s[1] \in LowerFrames
      /\ \A i \in DOMAIN s : s[i] \in LowerFrames
  BY <1>2, NonEmpty
<1>4. LTop(t) = lowering[t][1] /\ LTop(t) \in LowerFrames
  BY <1>3 DEF s, LTop
<1>5. LTop(t).mod \in Paths /\ LTop(t).next \in Nat \ {0} /\ LTop(t).errs \subseteq Paths
      /\ LTop(t).inlinedAt \subseteq Paths \X (Nat \ {0})
  BY <1>4 DEF LowerFrames
<1>6. ErrsOf(LTop(t)) \subseteq Paths
  BY <1>5 DEF ErrsOf
<1>7. LTop(t).mod \in faulty => LTop(t).mod \in ErrsOf(LTop(t))
  BY DEF ErrsOf
<1> QED
  BY <1>1, <1>3, <1>4, <1>5, <1>6, <1>7 DEF s

LEMMA BodyInHand ==
  ASSUME BuildTyped, NEW t \in Paths, lowering[t] # <<>>
  PROVE  /\ Body(LTop(t).mod) \in Seq(Paths) /\ Len(Body(LTop(t).mod)) \in Nat
         /\ Lowering(t) <=> LTop(t).next <= Len(Body(LTop(t).mod))
         /\ Lowered(t) <=> ~Lowering(t)
         /\ Lowering(t) => /\ LTop(t).next \in DOMAIN Body(LTop(t).mod)
                           /\ LImport(t) \in Paths
<1>1. LTop(t).mod \in Paths /\ LTop(t).next \in Nat \ {0}
  BY InHandType
<1>2. Body(LTop(t).mod) \in Seq(Paths)
  BY <1>1, BodyType DEF BuildTyped, Typed
<1> QED
  BY <1>1, <1>2 DEF Lowering, Lowered, LImport

(* What UseImport and LeaveInline make of a frame.                          *)
LEMMA UsedFrame ==
  ASSUME BuildTyped, NEW t \in Paths, lowering[t] # <<>>, NEW found
  PROVE  LET e == [LTop(t) EXCEPT !.next = @ + 1,
                                  !.errs = IF found THEN @ ELSE @ \cup {LTop(t).mod}]
         IN  /\ e \in LowerFrames
             /\ e.mod = LTop(t).mod /\ e.next = LTop(t).next + 1
             /\ e.errs = LTop(t).errs \cup (IF found THEN {} ELSE {LTop(t).mod})
             /\ e.inlinedAt = LTop(t).inlinedAt
<1> DEFINE f == LTop(t)
           D == IF found THEN {} ELSE {f.mod}
<1>1. f \in LowerFrames /\ f.mod \in Paths
  BY InHandType
<1>2. D \in SUBSET Paths
  BY <1>1
<1>3. [f EXCEPT !.next = @ + 1, !.errs = IF found THEN @ ELSE @ \cup {f.mod}]
        = [f EXCEPT !.next = @ + 1, !.errs = @ \cup D]
  <2> HIDE DEF f
  <2>1. CASE found
    BY <2>1
  <2>2. CASE ~found
    BY <2>2
  <2> QED
    BY <2>1, <2>2
<1> HIDE DEF f, D
<1>4. LET e == [f EXCEPT !.next = @ + 1, !.errs = @ \cup D]
      IN  /\ e \in LowerFrames
          /\ e.mod = f.mod /\ e.next = f.next + 1
          /\ e.errs = f.errs \cup D /\ e.inlinedAt = f.inlinedAt
  BY <1>1, <1>2, AdvancedType
<1> QED
  BY <1>3, <1>4 DEF f, D

LEMMA MergedFrame ==
  ASSUME BuildTyped, NEW t \in Paths, Len(lowering[t]) > 1, lowering[t] # <<>>
  PROVE  LET g == lowering[t][2]
             e == AfterInline(g, LTop(t))
         IN  /\ 2 \in DOMAIN lowering[t] /\ g \in LowerFrames /\ e \in LowerFrames
             /\ e.mod = g.mod /\ e.next = g.next + 1
             /\ e.errs = g.errs \cup ErrsOf(LTop(t))
             /\ e.inlinedAt = g.inlinedAt
<1>1. 2 \in DOMAIN lowering[t] /\ lowering[t][2] \in LowerFrames /\ ErrsOf(LTop(t)) \in SUBSET Paths
  BY InHandType
<1> QED
  BY <1>1, AdvancedType DEF AfterInline

LEMMA StatusType ==
  \A f : Status(f) \in {"succeed", "failed"}
BY DEF Status

(* Resolution's variables change in the execution only by what is taken.    *)
LEMMA TypedKept ==
  ASSUME Typed, project' = project, graph' = graph, stack' = stack,
         inlinedAt' = inlinedAt, resolveErrs' = resolveErrs,
         asts' \subseteq asts, cyclic' \subseteq cyclic,
         inlines' = inlines \/ DOMAIN inlines' = {}
  PROVE  Typed'
BY DEF Typed, ResolverTypeOK, RootOutermost

LEMMA BuildTypedInit ==
  InitBuild => BuildTyped
<1> SUFFICES ASSUME InitBuild PROVE BuildTyped
  OBVIOUS
<1>1. Typed
  BY TypedInit DEF InitBuild
<1>2. work \in Seq(WorkFrames) /\ DOMAIN work = {}
  BY NoFrames DEF InitBuild
<1>3. lowering \in [Paths -> Seq(LowerFrames)] /\ \A t \in Paths : DOMAIN lowering[t] = {}
  <2>1. \A t \in Paths : lowering[t] = <<>>
    BY DEF InitBuild
  <2>2. <<>> \in Seq(LowerFrames) /\ DOMAIN <<>> = {}
    BY NoFrames
  <2> QED
    BY <2>1, <2>2 DEF InitBuild
<1>4. DOMAIN clone = {}
  BY DEF InitBuild, EmptyGraph
<1>5. threads[Root] = "none" /\ \A t \in Paths : threads[t] = "none"
  BY RootAssumption DEF InitBuild
<1>6. BuilderTypeOK
  <2>1. builds \in 1 .. MaxBuilds
    BY MaxBuildsAssumption DEF InitBuild
  <2>2. /\ promises \in [Paths -> {"none", "running", "joined"}]
        /\ threads \in [Paths -> {"none", "lowering", "registered", "exited"}]
        /\ cache \in [Paths -> {"none", "succeed", "failed"}]
    BY DEF InitBuild
  <2>3. mainPc = "resolve" /\ parallel \in ParallelChoices /\ faulty \in FaultyChoices
        /\ subject = NoPath /\ deps = {} /\ errors = {} /\ missing = {} /\ reported = {}
        /\ aborted = FALSE
    BY DEF InitBuild
  <2> QED
    BY <1>1, <1>2, <1>3, <1>4, <2>1, <2>2, <2>3 DEF BuilderTypeOK, Typed
<1> QED
  BY <1>1, <1>2, <1>3, <1>5, <1>6 DEF BuildTyped

LEMMA BuildTypedFrom ==
  ASSUME Typed', work' \in Seq(WorkFrames), lowering' \in [Paths -> Seq(LowerFrames)],
         parallel' \in ParallelChoices, faulty' \in FaultyChoices,
         mainPc' \in {"resolve", "spawn", "insert", "build", "wait", "lower", "done", "panic"},
         DOMAIN clone' \subseteq DOMAIN graph', subject' \in Paths \cup {NoPath},
         deps' \subseteq Paths, promises' \in [Paths -> {"none", "running", "joined"}],
         threads' \in [Paths -> {"none", "lowering", "registered", "exited"}],
         cache' \in [Paths -> {"none", "succeed", "failed"}],
         errors' \subseteq Paths, missing' \subseteq Paths \X Paths,
         reported' \subseteq Paths, aborted' \in BOOLEAN, builds' \in 1 .. MaxBuilds,
         \A t \in Paths \ {Root} :
           threads'[t] \in {"lowering", "registered"} => lowering'[t] # <<>>,
         threads'[Root] # "registered"
  PROVE  BuildTyped'
<1>1. \A i \in DOMAIN work' : work'[i] \in WorkFrames
  OBVIOUS
<1>2. \A t \in Paths : \A i \in DOMAIN lowering'[t] : lowering'[t][i] \in LowerFrames
  <2>1. \A t \in Paths : lowering'[t] \in Seq(LowerFrames)
    OBVIOUS
  <2> QED
    BY <2>1
<1>3. ResolverTypeOK'
  BY DEF Typed
<1>4. BuilderTypeOK'
  BY <1>1, <1>2, <1>3 DEF BuilderTypeOK, WorkFrames, LowerFrames
<1> QED
  BY <1>4 DEF BuildTyped

(* The variables that are left alone keep their types.                      *)
LEMMA BuildTypes ==
  ASSUME BuildTyped
  PROVE  /\ Typed /\ ResolverTypeOK
         /\ work \in Seq(WorkFrames) /\ lowering \in [Paths -> Seq(LowerFrames)]
         /\ parallel \in ParallelChoices /\ faulty \in FaultyChoices /\ faulty \subseteq Paths
         /\ mainPc \in {"resolve", "spawn", "insert", "build", "wait", "lower", "done", "panic"}
         /\ DOMAIN clone \subseteq DOMAIN graph /\ subject \in Paths \cup {NoPath}
         /\ deps \subseteq Paths /\ promises \in [Paths -> {"none", "running", "joined"}]
         /\ threads \in [Paths -> {"none", "lowering", "registered", "exited"}]
         /\ cache \in [Paths -> {"none", "succeed", "failed"}]
         /\ errors \subseteq Paths /\ missing \subseteq Paths \X Paths
         /\ reported \subseteq Paths /\ aborted \in BOOLEAN /\ builds \in 1 .. MaxBuilds
         /\ \A t \in Paths \ {Root} :
              threads[t] \in {"lowering", "registered"} => lowering[t] # <<>>
         /\ threads[Root] # "registered"
         /\ inlinedAt \subseteq Paths \X (Nat \ {0})
BY FaultyChoicesAssumption DEF BuildTyped, Typed, BuilderTypeOK, ResolverTypeOK

LEMMA NewStack ==
  ASSUME BuildTyped, NEW t \in Paths, NEW s \in Seq(LowerFrames),
         lowering' = [lowering EXCEPT ![t] = s]
  PROVE  /\ lowering' \in [Paths -> Seq(LowerFrames)] /\ lowering'[t] = s
         /\ \A u \in Paths \ {t} : lowering'[u] = lowering[u]
BY BuildTypes

LEMMA UseImportTyped ==
  ASSUME BuildTyped, NEW t \in Paths, UseImport(t)
  PROVE  BuildTyped'
<1> DEFINE p == LImport(t)
           current == CurrentPath(t)
           found == OnStack(t, p) \/ Cached(p)
           frame == [LTop(t) EXCEPT !.next = @ + 1,
                                    !.errs = IF found THEN @ ELSE @ \cup {LTop(t).mod}]
           s == <<frame>> \o Tail(lowering[t])
<1>1. lowering[t] # <<>> /\ LTop(t) \in LowerFrames /\ lowering[t] \in Seq(LowerFrames)
      /\ LTop(t).mod \in Paths
  BY InHandType DEF UseImport, Lowering
<1>2. p \in Paths
  BY <1>1, BodyInHand DEF UseImport
<1>3. frame \in LowerFrames
  BY <1>1, UsedFrame
<1> HIDE DEF frame
<1>4. s \in Seq(LowerFrames) /\ s # <<>>
  BY <1>1, <1>3, ReplacedNotEmpty
<1> HIDE DEF s
<1>5. Typed'
  BY BuildTypes, TypedKept DEF UseImport, resolveVars
<1>6. UNCHANGED <<parallel, faulty, work, clone, graph, subject, deps, threads, cache, errors,
                  reported, aborted, builds>>
  BY DEF UseImport, resolveVars, inputVars, resultVars
<1>7. CASE mainPc' = "panic" /\ UNCHANGED <<promises, lowering, missing>>
  BY <1>5, <1>6, <1>7, BuildTypes, BuildTypedFrom
<1>8. CASE /\ promises' = (IF Joins(t) /\ parallel THEN Joined(current, {p}) ELSE promises)
           /\ lowering' = [lowering EXCEPT ![t] = s]
           /\ missing' = (IF found THEN missing ELSE missing \cup {<<LTop(t).mod, p>>})
           /\ UNCHANGED mainPc
  <2>1. promises' \in [Paths -> {"none", "running", "joined"}]
    BY <1>8, BuildTypes DEF Joined
  <2>2. missing' \subseteq Paths \X Paths
    BY <1>1, <1>2, <1>8, BuildTypes
  <2>3. /\ lowering' \in [Paths -> Seq(LowerFrames)]
        /\ \A u \in Paths : lowering'[u] = IF u = t THEN s ELSE lowering[u]
    BY <1>4, <1>8, NewStack
  <2> QED
    BY <1>4, <1>5, <1>6, <1>8, <2>1, <2>2, <2>3, BuildTypes, BuildTypedFrom
<1>9. \/ mainPc' = "panic" /\ UNCHANGED <<promises, lowering, missing>>
      \/ /\ promises' = (IF Joins(t) /\ parallel THEN Joined(current, {p}) ELSE promises)
         /\ lowering' = [lowering EXCEPT ![t] = s]
         /\ missing' = (IF found THEN missing ELSE missing \cup {<<LTop(t).mod, p>>})
         /\ UNCHANGED mainPc
  BY DEF UseImport, s, frame
<1> QED
  BY <1>7, <1>8, <1>9

LEMMA EnterInlineTyped ==
  ASSUME BuildTyped, NEW t \in Paths, EnterInline(t)
  PROVE  BuildTyped'
<1> DEFINE f == LowerFrame(LImport(t), LTop(t).inlinedAt)
           s == <<f>> \o lowering[t]
<1>1. lowering[t] # <<>> /\ lowering[t] \in Seq(LowerFrames) /\ LImport(t) \in Paths
      /\ LTop(t).inlinedAt \subseteq Paths \X (Nat \ {0})
  BY InHandType, BodyInHand DEF EnterInline, Lowering
<1>2. f \in LowerFrames
  BY <1>1, LowerFrameType
<1> HIDE DEF f
<1>3. s \in Seq(LowerFrames) /\ s # <<>>
  BY <1>1, <1>2, PushedOne
<1>4. lowering' = [lowering EXCEPT ![t] = s]
  BY DEF EnterInline, s, f
<1> HIDE DEF s
<1>5. Typed'
  BY BuildTypes, TypedKept DEF EnterInline, resolveVars
<1>6. /\ lowering' \in [Paths -> Seq(LowerFrames)]
      /\ \A u \in Paths : lowering'[u] = IF u = t THEN s ELSE lowering[u]
  BY <1>3, <1>4, NewStack
<1> QED
  BY <1>3, <1>5, <1>6, BuildTypes, BuildTypedFrom
  DEF EnterInline, resolveVars, inputVars, mainVars, resultVars

LEMMA LeaveInlineTyped ==
  ASSUME BuildTyped, NEW t \in Paths, LeaveInline(t)
  PROVE  BuildTyped'
<1> DEFINE f == AfterInline(lowering[t][2], LTop(t))
           s == <<f>> \o SubSeq(lowering[t], 3, Len(lowering[t]))
<1>1. /\ lowering[t] # <<>> /\ lowering[t] \in Seq(LowerFrames) /\ Len(lowering[t]) > 1
  BY InHandType DEF LeaveInline, Lowered
<1>2. f \in LowerFrames
  BY <1>1, MergedFrame
<1> HIDE DEF f
<1>3. s \in Seq(LowerFrames) /\ s # <<>>
  BY <1>1, <1>2, MergedTop
<1>4. lowering' = [lowering EXCEPT ![t] = s]
  BY DEF LeaveInline, s, f
<1> HIDE DEF s
<1>5. Typed'
  BY BuildTypes, TypedKept DEF LeaveInline, resolveVars
<1>6. /\ lowering' \in [Paths -> Seq(LowerFrames)]
      /\ \A u \in Paths : lowering'[u] = IF u = t THEN s ELSE lowering[u]
  BY <1>3, <1>4, NewStack
<1>7. cache' \in [Paths -> {"none", "succeed", "failed"}]
  BY StatusType, BuildTypes DEF LeaveInline
<1> QED
  BY <1>3, <1>5, <1>6, <1>7, BuildTypes, BuildTypedFrom
  DEF LeaveInline, resolveVars, inputVars, mainVars, resultVars

LEMMA ThreadEndTyped ==
  ASSUME BuildTyped, NEW t \in Paths, RegisterModule(t) \/ ReportAndExit(t)
  PROVE  BuildTyped'
<1>1. Typed'
  BY BuildTypes, TypedKept DEF RegisterModule, ReportAndExit, resolveVars
<1>2. CASE RegisterModule(t)
  <2>1. cache' \in [Paths -> {"none", "succeed", "failed"}]
    BY <1>2, StatusType, BuildTypes DEF RegisterModule
  <2>2. threads' \in [Paths -> {"none", "lowering", "registered", "exited"}]
    BY <1>2, BuildTypes DEF RegisterModule
  <2>3. lowering[t] # <<>> /\ t # Root
    BY <1>2 DEF RegisterModule, ModuleLowered, Lowered
  <2>4. \A u \in Paths : u # t => threads'[u] = threads[u]
    BY <1>2, BuildTypes DEF RegisterModule
  <2> QED
    BY <1>1, <1>2, <2>1, <2>2, <2>3, <2>4, BuildTypes, BuildTypedFrom, RootAssumption
    DEF RegisterModule, resolveVars, inputVars, mainVars, resultVars
<1>3. CASE ReportAndExit(t)
  <2>1. t # Root /\ lowering[t] # <<>>
    BY <1>3, BuildTypes DEF ReportAndExit
  <2>2. errors' \subseteq Paths
    BY <1>3, <2>1, InHandType, BuildTypes DEF ReportAndExit
  <2>3. /\ lowering' \in [Paths -> Seq(LowerFrames)]
        /\ \A u \in Paths : u # t => lowering'[u] = lowering[u]
    BY <1>3, NoFrames, NewStack DEF ReportAndExit
  <2>4. /\ threads' \in [Paths -> {"none", "lowering", "registered", "exited"}]
        /\ threads'[t] = "exited"
        /\ \A u \in Paths : u # t => threads'[u] = threads[u]
    BY <1>3, BuildTypes DEF ReportAndExit
  <2> QED
    BY <1>1, <1>3, <2>1, <2>2, <2>3, <2>4, BuildTypes, BuildTypedFrom, RootAssumption
    DEF ReportAndExit, resolveVars, inputVars, mainVars, resultVars
<1> QED
  BY <1>2, <1>3

LEMMA AddNodeDomain ==
  ASSUME NEW g, NEW p
  PROVE  DOMAIN AddNode(g, p) = DOMAIN g \cup {p}
BY DEF AddNode

LEMMA RemoveNodeDomain ==
  ASSUME NEW g, NEW p
  PROVE  DOMAIN RemoveNode(g, p) = DOMAIN g \ {p}
BY DEF RemoveNode

LEMMA IncRefGrows ==
  ASSUME NEW g, NEW r, NEW t, NEW q
  PROVE  Parents(g, q) \subseteq Parents(IncRef(g, r, t), q)
<1>1. CASE r = t \/ Refused(g, r, t)
  BY <1>1, IncRefDropped
<1>2. CASE r # t /\ ~Refused(g, r, t)
  BY <1>2, IncRefAccepted
<1> QED
  BY <1>1, <1>2

(* Resolution only adds to the graph, and never changes the project.        *)
LEMMA GraphGrows ==
  ASSUME Resolve
  PROVE  /\ DOMAIN graph \subseteq DOMAIN graph'
         /\ \A q : Parents(graph, q) \subseteq Parents(graph', q)
         /\ project' = project
<1>1. CASE RegisterPackage
  <2> DEFINE h == AddNode(AddNode(graph, Import), Package)
  <2>1. graph' = IncRef(h, From, Package) /\ project' = project
    BY <1>1 DEF RegisterPackage
  <2>2. DOMAIN graph \subseteq DOMAIN h
    <3>1. DOMAIN AddNode(graph, Import) = DOMAIN graph \cup {Import}
      BY AddNodeDomain
    <3>2. DOMAIN h = DOMAIN AddNode(graph, Import) \cup {Package}
      BY AddNodeDomain
    <3> QED
      BY <3>1, <3>2
  <2>3. ASSUME NEW q PROVE Parents(graph, q) = Parents(h, q)
    BY AddNodeParents
  <2> HIDE DEF h
  <2>4. DOMAIN IncRef(h, From, Package) = DOMAIN h \cup {From}
    BY IncRefDomain
  <2>5. ASSUME NEW q PROVE Parents(h, q) \subseteq Parents(graph', q)
    BY <2>1, IncRefGrows
  <2> QED
    BY <2>1, <2>2, <2>3, <2>4, <2>5
<1>2. CASE RefuseImport \/ ImportKnown \/ Descend
  <2> DEFINE h == AddNode(graph, Import)
  <2>1. graph' = IncRef(h, From, Import) /\ project' = project
    BY <1>2 DEF RefuseImport, ImportKnown, Descend, AcceptImport, RegisterImport
  <2>2. DOMAIN h = DOMAIN graph \cup {Import}
    BY AddNodeDomain
  <2>3. ASSUME NEW q PROVE Parents(graph, q) = Parents(h, q)
    BY AddNodeParents
  <2> HIDE DEF h
  <2>4. DOMAIN IncRef(h, From, Import) = DOMAIN h \cup {From}
    BY IncRefDomain
  <2>5. ASSUME NEW q PROVE Parents(h, q) \subseteq Parents(graph', q)
    BY <2>1, IncRefGrows
  <2> QED
    BY <2>1, <2>2, <2>3, <2>4, <2>5
<1>3. CASE ReturnPackage \/ ReturnImport \/ ReturnCyclic \/ ReturnRoot
  BY <1>3 DEF ReturnPackage, ReturnImport, ReturnCyclic, ReturnRoot
<1> QED
  BY <1>1, <1>2, <1>3 DEF Resolve

LEMMA ResolvePhaseTyped ==
  ASSUME BuildTyped, ResolvePhase
  PROVE  BuildTyped'
<1>1. Typed'
  BY BuildTypes, TypedNext DEF ResolvePhase, Next
<1>2. DOMAIN clone' \subseteq DOMAIN graph'
  BY BuildTypes, GraphGrows DEF ResolvePhase, mainVars
<1> QED
  BY <1>1, <1>2, BuildTypes, BuildTypedFrom
  DEF ResolvePhase, inputVars, mainVars, sharedVars, resultVars

LEMMA StartExecutionTyped ==
  ASSUME BuildTyped, StartExecution
  PROVE  BuildTyped'
<1>1. Typed'
  BY BuildTypes, TypedKept DEF StartExecution, resolveVars
<1>2. work' \in Seq(WorkFrames)
  BY WorkFrameType, Singleton DEF StartExecution
<1>3. errors' \subseteq Paths /\ DOMAIN clone' \subseteq DOMAIN graph'
  BY BuildTypes DEF StartExecution, ResolverTypeOK, resolveVars
<1> QED
  BY <1>1, <1>2, <1>3, BuildTypes, BuildTypedFrom
  DEF StartExecution, resolveVars, inputVars, resultVars

(* Taking an ancestor, with or without an AST.                              *)
LEMMA TakeAstTyped ==
  ASSUME BuildTyped, NEW p \in Paths, TakeAst(p)
  PROVE  /\ Typed' /\ work' \in Seq(WorkFrames) /\ DOMAIN clone' \subseteq DOMAIN graph'
         /\ deps' \subseteq Paths
<1>1. Typed'
  BY BuildTypes, TypedKept DEF TakeAst
<1>2. work \in Seq(WorkFrames) /\ work # <<>> /\ Taken(p) \in WorkFrames
  BY BuildTypes, TakenType DEF TakeAst, TakeAncestor
<1>3. work' \in Seq(WorkFrames)
  BY <1>2, ReplacedNotEmpty DEF TakeAst
<1>4. DOMAIN clone' \subseteq DOMAIN graph'
  <2>1. DOMAIN RemoveNode(clone, p) = DOMAIN clone \ {p}
    BY RemoveNodeDomain
  <2> QED
    BY <2>1, BuildTypes DEF TakeAst, TakeAncestor
<1>5. deps' \subseteq Paths
  BY BuildTypes DEF TakeAst
<1> QED
  BY <1>1, <1>3, <1>4, <1>5

LEMMA StartTyped ==
  ASSUME BuildTyped, NEW p \in Paths, AlreadyKnown(p) \/ SpawnThread(p) \/ BuildHere(p)
  PROVE  BuildTyped'
<1>1. /\ Typed' /\ work' \in Seq(WorkFrames) /\ DOMAIN clone' \subseteq DOMAIN graph'
      /\ deps' \subseteq Paths
      /\ UNCHANGED <<inputVars, promises, cache, errors, missing, resultVars>>
  BY TakeAstTyped DEF AlreadyKnown, SpawnThread, BuildHere, TakeAst
<1>2. inlinedAt \in SUBSET (Paths \X (Nat \ {0}))
  BY BuildTypes
<1> DEFINE s == <<LowerFrame(p, inlinedAt)>>
<1>3. s \in Seq(LowerFrames) /\ s # <<>>
  BY <1>2, LowerFrameType, Singleton
<1>4. CASE AlreadyKnown(p)
  BY <1>1, <1>4, BuildTypes, BuildTypedFrom DEF AlreadyKnown, inputVars, resultVars
<1>5. CASE SpawnThread(p)
  <2>1. lowering' = [lowering EXCEPT ![p] = s] /\ mainPc' = "insert" /\ subject' = p
    BY <1>5 DEF SpawnThread
  <2> HIDE DEF s
  <2>2. /\ lowering' \in [Paths -> Seq(LowerFrames)]
        /\ \A u \in Paths : lowering'[u] = IF u = p THEN s ELSE lowering[u]
    BY <1>3, <2>1, NewStack
  <2>3. /\ threads' \in [Paths -> {"none", "lowering", "registered", "exited"}]
        /\ \A u \in Paths : threads'[u] = IF u = p THEN "lowering" ELSE threads[u]
    BY <1>5, BuildTypes DEF SpawnThread
  <2> QED
    BY <1>1, <1>3, <2>1, <2>2, <2>3, BuildTypes, BuildTypedFrom, RootAssumption
    DEF inputVars, resultVars
<1>6. CASE BuildHere(p)
  <2>1. lowering' = [lowering EXCEPT ![Root] = s] /\ mainPc' = "build" /\ subject' = p
        /\ threads' = threads
    BY <1>6 DEF BuildHere
  <2> HIDE DEF s
  <2>2. /\ lowering' \in [Paths -> Seq(LowerFrames)]
        /\ \A u \in Paths : lowering'[u] = IF u = Root THEN s ELSE lowering[u]
    BY <1>3, <2>1, NewStack, RootAssumption
  <2> QED
    BY <1>1, <1>3, <2>1, <2>2, BuildTypes, BuildTypedFrom DEF inputVars, resultVars
<1> QED
  BY <1>4, <1>5, <1>6

LEMMA TakeInlinedTyped ==
  ASSUME BuildTyped, NEW p \in Paths, TakeInlined(p)
  PROVE  /\ Typed' /\ DOMAIN clone' \subseteq DOMAIN graph'
         /\ work \in Seq(WorkFrames) /\ work # <<>> /\ Taken(p) \in WorkFrames
<1>1. Typed'
  BY BuildTypes, TypedKept DEF TakeInlined, resolveVars
<1>2. work \in Seq(WorkFrames) /\ work # <<>> /\ Taken(p) \in WorkFrames
  BY BuildTypes, TakenType DEF TakeInlined, TakeAncestor
<1>3. DOMAIN clone' \subseteq DOMAIN graph'
  <2>1. DOMAIN RemoveNode(clone, p) = DOMAIN clone \ {p}
    BY RemoveNodeDomain
  <2> QED
    BY <2>1, BuildTypes DEF TakeInlined, TakeAncestor, resolveVars
<1> QED
  BY <1>1, <1>2, <1>3

LEMMA InlinedTyped ==
  ASSUME BuildTyped, NEW p \in Paths, InlinedKnown(p) \/ InlinedWait(p) \/ InlinedOpen(p)
  PROVE  BuildTyped'
<1>1. /\ Typed' /\ DOMAIN clone' \subseteq DOMAIN graph'
      /\ work \in Seq(WorkFrames) /\ work # <<>> /\ Taken(p) \in WorkFrames
      /\ UNCHANGED <<inputVars, deps, sharedVars, resultVars>>
  BY TakeInlinedTyped DEF InlinedKnown, InlinedWait, InlinedOpen, TakeInlined
<1>2. (<<Taken(p)>> \o Tail(work)) \in Seq(WorkFrames)
  BY <1>1, ReplacedNotEmpty
<1>3. (<<WorkFrame(clone', inlines[p], p), Taken(p)>> \o Tail(work)) \in Seq(WorkFrames)
  <2> DEFINE f == WorkFrame(clone', inlines[p], p)
             g == Taken(p)
  <2>1. f \in WorkFrames
    BY WorkFrameType
  <2> HIDE DEF f, g
  <2>2. (<<f, g>> \o Tail(work)) \in Seq(WorkFrames)
    BY <1>1, <2>1, PushedTop DEF g
  <2> QED
    BY <2>2 DEF f, g
<1>4. /\ work' \in Seq(WorkFrames)
      /\ mainPc' \in {mainPc, "wait", "panic"} /\ subject' \in {subject, p}
  <2>1. CASE InlinedKnown(p)
    BY <1>2, <2>1 DEF InlinedKnown
  <2>2. CASE InlinedWait(p)
    BY <1>2, <2>2 DEF InlinedWait
  <2>3. CASE InlinedOpen(p)
    <3>1. CASE p \in DOMAIN inlines
      BY <1>3, <2>3, <3>1 DEF InlinedOpen
    <3>2. CASE p \notin DOMAIN inlines
      BY <1>1, <2>3, <3>2 DEF InlinedOpen
    <3> QED
      BY <3>1, <3>2
  <2> QED
    BY <2>1, <2>2, <2>3
<1> QED
  BY <1>1, <1>4, BuildTypes, BuildTypedFrom DEF inputVars, sharedVars, resultVars

LEMMA MarkedType ==
  ASSUME BuildTyped, NEW p
  PROVE  MarkedAsJoined(p) \in [Paths -> {"none", "running", "joined"}]
BY BuildTypes DEF MarkedAsJoined

LEMMA MainTyped ==
  ASSUME BuildTyped,
         InsertPromise \/ WaitUntilFinished \/ CloseInlined \/ FinishHere \/ StartRoot
  PROVE  BuildTyped'
<1>1. Typed'
  <2>1. CASE InsertPromise \/ WaitUntilFinished \/ CloseInlined \/ FinishHere
    BY <2>1, BuildTypes, TypedKept
    DEF InsertPromise, WaitUntilFinished, CloseInlined, FinishHere, resolveVars
  <2>2. CASE StartRoot
    BY <2>2, BuildTypes, TypedKept DEF StartRoot
  <2> QED
    BY <2>1, <2>2
<1>2. CASE InsertPromise
  <2>1. promises' \in [Paths -> {"none", "running", "joined"}]
    BY <1>2, BuildTypes DEF InsertPromise
  <2> QED
    BY <1>1, <1>2, <2>1, BuildTypes, BuildTypedFrom
    DEF InsertPromise, resolveVars, inputVars, resultVars
<1>3. CASE WaitUntilFinished
  BY <1>1, <1>3, BuildTypes, BuildTypedFrom
  DEF WaitUntilFinished, resolveVars, inputVars, sharedVars, resultVars
<1>4. CASE CloseInlined
  <2>1. promises' \in [Paths -> {"none", "running", "joined"}]
    BY <1>4, MarkedType DEF CloseInlined
  <2>2. work' \in Seq(WorkFrames)
    <3>1. work # <<>>
      BY <1>4, NoFrames DEF CloseInlined
    <3> QED
      BY <1>4, <3>1, BuildTypes, NonEmpty DEF CloseInlined
  <2> QED
    BY <1>1, <1>4, <2>1, <2>2, BuildTypes, BuildTypedFrom
    DEF CloseInlined, resolveVars, inputVars, resultVars
<1>5. CASE FinishHere
  <2>1. promises' \in [Paths -> {"none", "running", "joined"}]
    BY <1>5, MarkedType DEF FinishHere
  <2>2. cache' \in [Paths -> {"none", "succeed", "failed"}]
    BY <1>5, StatusType, BuildTypes DEF FinishHere
  <2>3. errors' \subseteq Paths
    BY <1>5, InHandType, BuildTypes, RootAssumption DEF FinishHere, ModuleLowered, Lowered
  <2>4. /\ lowering' \in [Paths -> Seq(LowerFrames)]
        /\ \A u \in Paths \ {Root} : lowering'[u] = lowering[u]
    BY <1>5, NoFrames, NewStack, RootAssumption DEF FinishHere
  <2> QED
    BY <1>1, <1>5, <2>1, <2>2, <2>3, <2>4, BuildTypes, BuildTypedFrom
    DEF FinishHere, resolveVars, inputVars, resultVars
<1>6. CASE StartRoot
  <2> DEFINE s == <<LowerFrame(Root, inlinedAt)>>
  <2>1. s \in Seq(LowerFrames)
    BY BuildTypes, LowerFrameType, Singleton, RootAssumption
  <2>2. lowering' = lowering \/ lowering' = [lowering EXCEPT ![Root] = s]
    BY <1>6 DEF StartRoot
  <2> HIDE DEF s
  <2>3. /\ lowering' \in [Paths -> Seq(LowerFrames)]
        /\ \A u \in Paths \ {Root} : lowering'[u] = lowering[u]
    BY <2>1, <2>2, NewStack, BuildTypes, RootAssumption
  <2>4. work' \in Seq(WorkFrames) /\ mainPc' \in {"lower", "panic"}
    BY <1>6, NoFrames DEF StartRoot
  <2> QED
    BY <1>1, <1>6, <2>3, <2>4, BuildTypes, BuildTypedFrom
    DEF StartRoot, inputVars, resultVars
<1> QED
  BY <1>2, <1>3, <1>4, <1>5, <1>6

LEMMA FinishTyped ==
  ASSUME BuildTyped, AbortRoot \/ JoinAll
  PROVE  BuildTyped'
<1>1. FinishRoot
  BY DEF AbortRoot, JoinAll
<1>2. Typed'
  BY <1>1, BuildTypes, TypedKept DEF FinishRoot, resolveVars
<1>3. /\ lowering' \in [Paths -> Seq(LowerFrames)]
      /\ \A u \in Paths \ {Root} : lowering'[u] = lowering[u]
  BY <1>1, NoFrames, NewStack, RootAssumption DEF FinishRoot
<1>4. ErrsOf(LTop(Root)) \subseteq Paths
  BY <1>1, InHandType, RootAssumption DEF FinishRoot, ModuleLowered, Lowered
<1>5. CASE AbortRoot
  BY <1>1, <1>2, <1>3, <1>4, <1>5, BuildTypes, BuildTypedFrom
  DEF FinishRoot, AbortRoot, resolveVars, inputVars
<1>6. CASE JoinAll
  <2>1. promises' \in [Paths -> {"none", "running", "joined"}]
    BY <1>6, BuildTypes DEF JoinAll, Joined
  <2> QED
    BY <1>1, <1>2, <1>3, <1>4, <1>6, <2>1, BuildTypes, BuildTypedFrom
    DEF FinishRoot, JoinAll, resolveVars, inputVars
<1> QED
  BY <1>5, <1>6

LEMMA NextBuildTyped ==
  ASSUME BuildTyped, NextBuild
  PROVE  BuildTyped'
<1>1. Frame(Root, "root") \in Frames /\ Frame(Root, "root").via = "root"
  BY RootAssumption, FrameType
<1>2. stack' \in Seq(Frames) /\ Len(stack') = 1 /\ DOMAIN stack' = {1} /\ stack'[1].via = "root"
  BY <1>1, Singleton DEF NextBuild
<1>3. RootOutermost'
  BY <1>2 DEF RootOutermost
<1>4. project' \in Layout /\ faulty' \in FaultyChoices
  BY ProjectsAssumption DEF NextBuild
<1>5. Typed'
  BY <1>2, <1>3, <1>4, BuildTypes DEF NextBuild, Typed, ResolverTypeOK
<1>6. builds' \in 1 .. MaxBuilds
  BY BuildTypes, MaxBuildsAssumption DEF NextBuild
<1> QED
  BY <1>4, <1>5, <1>6, BuildTypes, BuildTypedFrom DEF NextBuild, sharedVars

LEMMA BuildTypedNext ==
  BuildTyped /\ [BuildNext]_vars => BuildTyped'
<1> SUFFICES ASSUME BuildTyped, [BuildNext]_vars PROVE BuildTyped'
  OBVIOUS
<1>1. CASE UNCHANGED vars
  <2>1. Typed'
    BY <1>1, BuildTypes, TypedKept DEF vars, resolveVars
  <2> QED
    BY <1>1, <2>1, BuildTypes, BuildTypedFrom
    DEF vars, resolveVars, inputVars, mainVars, sharedVars, resultVars
<1>2. CASE ResolvePhase
  BY <1>2, ResolvePhaseTyped
<1>3. CASE Main
  BY <1>3, StartExecutionTyped, StartTyped, InlinedTyped, MainTyped, FinishTyped DEF Main
<1>4. CASE \E t \in Paths : Thread(t)
  BY <1>4, UseImportTyped, EnterInlineTyped, LeaveInlineTyped, ThreadEndTyped DEF Thread
<1>5. CASE NextBuild
  BY <1>5, NextBuildTyped
<1> QED
  BY <1>1, <1>2, <1>3, <1>4, <1>5 DEF BuildNext, Terminated

(* Type correctness of the whole build, resolution and any number of inputs *)
(* of the shell included: whoever returns, joins, reports or exits has a    *)
(* module in hand.                                                          *)
THEOREM BuilderTypeCorrect == BuildSpec => []BuilderTypeOK
<1>1. BuildTyped => BuilderTypeOK
  BY DEF BuildTyped
<1> QED
  BY <1>1, BuildTypedInit, BuildTypedNext, PTL DEF BuildSpec

-----------------------------------------------------------------------------
(* The first build: resolution leads to a plan.                             *)

LEMMA PlaceFacts ==
  /\ DOMAIN Place = inlinedAt
  /\ \A e \in inlinedAt : Place[e] = BodyIn(project, e[1])[e[2]] /\ Place[e] \in Targets
BY DEF Place, Targets

LEMMA ResolvingInit ==
  InitBuild /\ PackagesApart(project) => Resolving
<1> SUFFICES ASSUME InitBuild, PackagesApart(project) PROVE Resolving
  OBVIOUS
<1>1. Inv
  BY InvInit DEF InitBuild
<1>2. inlinedAt = {} /\ DOMAIN inlines = {} /\ asts = {} /\ stack = <<Frame(Root, "root")>>
  BY DEF InitBuild, Init
<1>3. Placed
  BY <1>2 DEF Placed
<1>4. stack # <<>>
  <2>1. Frame(Root, "root") \in Frames
    BY RootAssumption, FrameType
  <2> QED
    BY <1>2, <2>1, Singleton
<1>5. Needed
  BY <1>2, <1>4 DEF Needed, Completed, Resolved
<1>6. NotStarted
  BY DEF NotStarted, InitBuild, Registered, Cached
<1> QED
  BY <1>1, <1>3, <1>5, <1>6 DEF Resolving

(* Only the return of the root leaves no frame.                             *)
LEMMA StillResolving ==
  ASSUME Typed, Resolve, ~ReturnRoot
  PROVE  stack' # <<>>
<1>1. CASE RegisterPackage \/ RefuseImport \/ ImportKnown \/ Descend
  <2>1. stack # <<>> /\ Importing
    BY <1>1
    DEF RegisterPackage, RefuseImport, ImportKnown, Descend, AcceptImport, RegisterImport, Importing
  <2>2. stack \in Seq(Frames) /\ Top \in Frames
    BY <2>1, TopType DEF Typed, ResolverTypeOK
  <2>3. \A f : f \in Frames => (<<f>> \o Tail(stack)) # <<>>
    BY <2>1, <2>2, ReplacedNotEmpty
  <2>4. CASE RegisterPackage
    <3> DEFINE below == [Top EXCEPT !.packageDone = TRUE]
    <3>1. below \in Frames
      BY <2>2 DEF Frames
    <3>2. Package \in Paths
      BY <2>1, <2>4, PackageType DEF Typed, RegisterPackage
    <3>3. stack' = <<below>> \o Tail(stack) \/ stack' = Pushed(Frame(Package, "package"), below)
      BY <2>4 DEF RegisterPackage
    <3> HIDE DEF below
    <3>4. Pushed(Frame(Package, "package"), below) # <<>>
      <4> DEFINE f == Frame(Package, "package")
                 r == <<f, below>> \o Tail(stack)
      <4>1. f \in Frames
        BY <3>2, FrameType
      <4> HIDE DEF f
      <4>2. Len(r) = Len(stack) + 1 /\ Len(stack) \in Nat
        BY <2>1, <2>2, <3>1, <4>1, PushedTop, NonEmpty
      <4> HIDE DEF r
      <4>3. Len(<<>>) = 0
        OBVIOUS
      <4>4. r # <<>>
        BY <4>2, <4>3
      <4> QED
        BY <4>4 DEF r, f, Pushed
    <3> QED
      BY <2>3, <3>1, <3>3, <3>4
  <2>5. CASE RefuseImport
    <3> DEFINE e == [Top EXCEPT !.errs = @ \cup {Import}]
    <3>1. Import \in Paths
      BY <2>1, ImportType DEF Typed
    <3>2. e \in Frames
      BY <2>2, <3>1 DEF Frames
    <3>3. stack' = <<NextImport(e)>> \o Tail(stack)
      BY <2>5 DEF RefuseImport
    <3> HIDE DEF e
    <3>4. NextImport(e) \in Frames
      BY <3>2, NextImportType
    <3> QED
      BY <2>3, <3>3, <3>4
  <2>6. CASE ImportKnown
    BY <2>2, <2>3, <2>6, NextImportType DEF ImportKnown
  <2>7. CASE Descend
    <3> DEFINE f == Frame(Import, "import")
               r == <<f, Top>> \o Tail(stack)
    <3>1. f \in Frames
      BY <2>1, ImportType, FrameType DEF Typed
    <3>2. stack' = r
      BY <2>7 DEF Descend, Pushed
    <3> HIDE DEF f
    <3>3. Len(r) = Len(stack) + 1 /\ Len(stack) \in Nat
      BY <2>1, <2>2, <3>1, PushedTop, NonEmpty
    <3> HIDE DEF r
    <3>4. Len(<<>>) = 0
      OBVIOUS
    <3> QED
      BY <3>2, <3>3, <3>4
  <2> QED
    BY <1>1, <2>4, <2>5, <2>6, <2>7
<1>2. CASE ReturnPackage \/ ReturnImport \/ ReturnCyclic
  <2>1. Exhausted /\ Top.via # "root"
    BY <1>2 DEF ReturnPackage, ReturnImport, ReturnCyclic
  <2>2. Len(stack) > 1 /\ stack[2] \in Frames /\ stack \in Seq(Frames)
    BY <2>1, CallerType DEF Typed, ResolverTypeOK
  <2>3. \E f : stack' = <<f>> \o Tail(Tail(stack))
    BY <1>2 DEF ReturnPackage, ReturnImport, ReturnCyclic, ReturnTo
  <2>4. Tail(Tail(stack)) \in Seq(Frames)
    BY <2>2, TailOfTail
  <2> DEFINE u == Tail(Tail(stack))
  <2>5. \A f : (<<f>> \o u) # <<>>
    <3>1. u \in Seq(Frames)
      BY <2>4
    <3> HIDE DEF u
    <3> QED
      BY <3>1
  <2> QED
    BY <2>3, <2>5
<1> QED
  BY <1>1, <1>2 DEF Resolve

LEMMA NeededStep ==
  ASSUME Inv, Needed, Resolve, Typed'
  PROVE  Needed'
<1>1. WithinPaths(graph') /\ \A q \in Paths : Parents(graph, q) \subseteq Parents(graph', q)
  BY GraphGrows DEF Typed, ResolverTypeOK, WithinPaths
<1>2. Ancestors(graph, Root) \subseteq Ancestors(graph', Root)
  BY <1>1, AncestorsMonotone, RootAssumption
<1>3. stack # <<>> /\ Typed
  BY DEF Inv, Resolve, RegisterPackage, RefuseImport, ImportKnown, Descend, AcceptImport,
     RegisterImport, ReturnPackage, ReturnImport, ReturnCyclic, ReturnRoot, Importing, Exhausted
<1>4. Completed' \subseteq (Completed \cup Mods) \ {Root}
  <2>1. Top = stack[1] /\ 1 \in DOMAIN stack /\ Len(stack) \in Nat
        /\ DOMAIN stack = 1 .. Len(stack)
    BY <1>3, TopType DEF Typed
  <2>0. Root \notin Completed
    BY DEF Inv, Accounted
  <2>2. CASE RegisterPackage \/ RefuseImport \/ ImportKnown \/ Descend \/ ReturnRoot
    BY <2>0, <2>2 DEF RegisterPackage, RefuseImport, ImportKnown, Descend, AcceptImport,
       RegisterImport, ReturnRoot, Completed
  <2>3. CASE ReturnPackage \/ ReturnImport \/ ReturnCyclic
    <3>1. Top.via # "root" /\ Exhausted
      BY <2>3 DEF ReturnPackage, ReturnImport, ReturnCyclic
    <3>2. Len(stack) > 1 /\ Len(stack) \in DOMAIN stack
      BY <1>3, <2>1, <3>1, CallerType
    <3>3. Top.mod \in Mods
      BY <2>1 DEF Mods
    <3>4. Top.mod # Root
      <4>1. Top.mod \in Ancestors(graph, stack[Len(stack)].mod) /\ stack[Len(stack)].mod = Root
        BY <2>1, <3>2 DEF Inv, Chained, FramesLinked
      <4> QED
        BY <4>1, RootAssumption DEF Inv, GraphAcyclic, Acyclic, DeepDependsOn
    <3>5. Completed' \subseteq Completed \cup {Top.mod}
      BY <2>3 DEF ReturnPackage, ReturnImport, ReturnCyclic, Completed, Inline
    <3> QED
      BY <2>0, <3>3, <3>4, <3>5
  <2> QED
    BY <2>2, <2>3 DEF Resolve
<1>5. Mods \ {Root} \subseteq Ancestors(graph, Root)
  <2> SUFFICES ASSUME NEW k \in DOMAIN stack, stack[k].mod # Root
               PROVE  stack[k].mod \in Ancestors(graph, Root)
    BY DEF Mods
  <2>1. Len(stack) \in DOMAIN stack /\ k <= Len(stack) /\ k # Len(stack)
        /\ stack[Len(stack)].mod = Root
    BY <1>3, StackFacts, TopType DEF Inv, FramesLinked, Typed
  <2> QED
    BY <2>1, StackFacts DEF Inv, Chained
<1>6. Completed' \subseteq Ancestors(graph', Root)
  BY <1>2, <1>4, <1>5 DEF Needed
<1>7. stack' = <<>> => Parents(graph', Root) \subseteq Completed'
  <2> SUFFICES ASSUME stack' = <<>> PROVE Parents(graph', Root) \subseteq Completed'
    OBVIOUS
  <2>1. ReturnRoot
    BY <1>3, StillResolving
  <2>2. graph' = graph /\ asts' = asts /\ inlines' = inlines /\ Top.via = "root"
    BY <2>1 DEF ReturnRoot
  <2>3. Top = stack[1] /\ 1 \in DOMAIN stack /\ Len(stack) = 1
    BY <1>3, <2>2, TopType DEF Typed, RootOutermost
  <2>4. stack[1].mod = Root
    BY <2>3 DEF Inv, FramesLinked
  <2>5. Parents(graph, Root) \subseteq Completed
    BY <2>3, <2>4 DEF Inv, FinishedClosed
  <2> QED
    BY <2>2, <2>5 DEF Completed
<1> QED
  BY <1>6, <1>7 DEF Needed, Resolved

LEMMA PlacedStep ==
  ASSUME Inv, Placed, Resolve
  PROVE  Placed'
<1>1. project' = project /\ \A q : Parents(graph, q) \subseteq Parents(graph', q)
  BY GraphGrows
<1>2. CASE inlinedAt' = inlinedAt /\ inlines' = inlines
  <2>1. Place' = Place
    BY <1>1, <1>2 DEF Place
  <2>2. Targets' = Targets
    BY <1>2, <2>1 DEF Targets
  <2> QED
    BY <1>1, <1>2, <2>1, <2>2 DEF Placed, DependsOn
<1>3. CASE ReturnCyclic
  <2> DEFINE m == stack[2].mod
             n == stack[2].next
             e0 == <<m, n>>
             p == Top.mod
  <2>1. Exhausted /\ Top.via = "import" /\ Typed /\ graph' = graph
    BY <1>3 DEF ReturnCyclic, Inv
  <2>2. Len(stack) > 1 /\ 2 \in DOMAIN stack /\ Top = stack[1] /\ 1 \in DOMAIN stack
    BY <2>1, CallerType, TopType DEF Typed, Exhausted
  <2>3. Linked(stack[1], stack[1 + 1])
    BY <2>2, StackFacts, <2>1 DEF Inv, FramesLinked
  <2>4. /\ n \in DOMAIN BodyIn(project, m) /\ p = BodyIn(project, m)[n]
        /\ DependsOn(graph, m, p)
    BY <2>1, <2>2, <2>3 DEF Linked
  <2>5. inlines' = Inline(p, m) /\ inlinedAt' = inlinedAt \cup {e0}
    BY <1>3 DEF ReturnCyclic
  <2>6. p \notin DOMAIN inlines
    <3>1. p \in Mods
      BY <2>2 DEF Mods
    <3> QED
      BY <3>1 DEF Inv, Accounted, Completed
  <2>7. e0[1] = m /\ e0[2] = n
    OBVIOUS
  <2> HIDE DEF m, n, e0, p
  <2>8. /\ DOMAIN inlines' = DOMAIN inlines \cup {p} /\ inlines'[p] = m
        /\ \A q \in DOMAIN inlines : inlines'[q] = inlines[q]
    BY <2>5, <2>6 DEF Inline
  <2>9. /\ \A e \in inlinedAt : Place'[e] = Place[e] /\ Place[e] \in DOMAIN inlines
        /\ Place'[e0] = p /\ e0 \notin inlinedAt
    <3>1. Place'[e0] = p
      BY <1>1, <2>4, <2>5, <2>7 DEF Place
    <3>2. \A e \in inlinedAt : Place'[e] = Place[e] /\ Place[e] \in DOMAIN inlines
      BY <1>1, <2>5 DEF Place, Placed
    <3> QED
      BY <2>6, <3>1, <3>2
  <2>10. ASSUME NEW e \in inlinedAt'
         PROVE  /\ e[2] \in DOMAIN BodyIn(project, e[1])
                /\ DependsOn(graph, e[1], Place'[e])
                /\ Place'[e] \in DOMAIN inlines' /\ inlines'[Place'[e]] = e[1]
    <3>1. CASE e = e0
      BY <2>4, <2>7, <2>8, <2>9, <3>1
    <3>2. CASE e \in inlinedAt
      BY <2>6, <2>8, <2>9, <3>2 DEF Placed
    <3> QED
      BY <2>5, <3>1, <3>2
  <2>11. ASSUME NEW d \in inlinedAt', NEW e \in inlinedAt', Place'[d] = Place'[e]
         PROVE  d = e
    BY <2>5, <2>6, <2>9, <2>11 DEF Placed
  <2>12. DOMAIN inlines' \subseteq Targets'
    BY <2>5, <2>8, <2>9 DEF Placed, Targets
  <2> QED
    BY <1>1, <2>1, <2>10, <2>11, <2>12 DEF Placed
<1>4. ReturnCyclic \/ (inlinedAt' = inlinedAt /\ inlines' = inlines)
  BY DEF Resolve, RegisterPackage, RefuseImport, ImportKnown, Descend, AcceptImport,
     RegisterImport, ReturnPackage, ReturnImport, ReturnRoot
<1> QED
  BY <1>2, <1>3, <1>4

LEMMA ResolvePhaseFirst ==
  ASSUME Resolving, ResolvePhase
  PROVE  Resolving'
<1>1. Inv'
  BY InvNext DEF Resolving, ResolvePhase, Next
<1>2. Placed' /\ Needed'
  BY <1>1, PlacedStep, NeededStep DEF Resolving, ResolvePhase, Inv
<1>3. NotStarted'
  BY DEF Resolving, ResolvePhase, NotStarted, mainVars, sharedVars, resultVars, Registered, Cached
<1> QED
  BY <1>1, <1>2, <1>3 DEF Resolving

LEMMA ImportsStay ==
  ASSUME UNCHANGED <<project, inlinedAt>>
  PROVE  Place' = Place /\ Targets' = Targets /\ PlaceGraph' = PlaceGraph
<1>1. Place' = Place
  BY DEF Place
<1>2. Targets' = Targets
  BY <1>1 DEF Targets
<1> QED
  BY <1>1, <1>2 DEF PlaceGraph

LEMMA PlanStays ==
  ASSUME Plan, UNCHANGED <<project, graph, inlinedAt>>
  PROVE  Plan' /\ Place' = Place /\ Targets' = Targets /\ Own' = Own
<1>1. Place' = Place /\ Targets' = Targets /\ PlaceGraph' = PlaceGraph
  BY ImportsStay
<1>2. Own' = Own
  BY <1>1 DEF Own
<1> QED
  BY <1>1, <1>2 DEF Plan

LEMMA ResolvedPlan ==
  ASSUME Resolving, Resolved
  PROVE  Plan /\ asts = DOMAIN graph \ ({Root} \cup Targets) /\ DOMAIN inlines = Targets
<1>1. /\ Inv /\ Placed /\ Needed /\ Typed /\ ResolverTypeOK
      /\ stack = <<>> /\ DOMAIN stack = {} /\ Mods = {}
  BY DEF Resolving, Resolved, Inv, Typed, Mods
<1>2. DOMAIN inlines = Targets
  <2>1. \A e \in inlinedAt : Place[e] \in DOMAIN inlines
    BY <1>1 DEF Placed
  <2>2. Targets \subseteq DOMAIN inlines
    BY <2>1 DEF Targets
  <2> QED
    BY <1>1, <2>2 DEF Placed
<1>3. asts \cap DOMAIN inlines = {} /\ Root \notin Completed /\ DOMAIN graph \ {Root} = Completed
  BY <1>1 DEF Inv, Accounted
<1>4. asts = DOMAIN graph \ ({Root} \cup Targets) /\ asts = Own
  BY <1>2, <1>3 DEF Completed, Own
<1>5. WithinPaths(graph) /\ Acyclic(graph)
  BY <1>1, GraphTypes DEF Inv, GraphAcyclic
<1>6. ASSUME NEW p \in Paths PROVE Parents(graph, p) \subseteq DOMAIN graph \ {Root}
  <2>1. CASE p \in Completed
    BY <1>1, <1>3, <2>1 DEF Inv, FinishedClosed, Closed
  <2>2. CASE p = Root
    BY <1>1, <1>3, <2>2 DEF Needed, Resolved
  <2>3. CASE p \notin Completed \cup {Root}
    BY <1>3, <2>3 DEF Parents
  <2> QED
    BY <2>1, <2>2, <2>3
<1>7. DOMAIN graph \ {Root} \subseteq Ancestors(graph, Root)
  BY <1>1, <1>3 DEF Needed
<1>8. Inliners(inlines) = PlaceGraph
  <2>1. DOMAIN Inliners(inlines) = Targets /\ DOMAIN PlaceGraph = Targets
    BY <1>2 DEF Inliners, PlaceGraph
  <2>2. ASSUME NEW p \in Targets PROVE Inliners(inlines)[p] = PlaceGraph[p]
    <3>1. PICK d \in inlinedAt : Place[d] = p
      BY DEF Targets
    <3>2. inlines[p] = d[1]
      BY <1>1, <3>1 DEF Placed
    <3>3. {e[1] : e \in {x \in inlinedAt : Place[x] = p}} = {d[1]}
      BY <1>1, <3>1 DEF Placed
    <3> QED
      BY <1>2, <3>2, <3>3 DEF Inliners, PlaceGraph
  <2> QED
    BY <2>1, <2>2 DEF Inliners, PlaceGraph
<1>9. ASSUME NEW m \in DOMAIN graph \cup {Root}, NEW p \in Imported(project, m) \ {m}
      PROVE  DependsOn(graph, m, p) \/ p \in Ancestors(PlaceGraph, m)
  <2>1. Settled(m, p)
    BY <1>1, <1>3 DEF Inv, ImportsSettled
  <2> QED
    BY <1>1, <1>8, <2>1 DEF Settled, SettledIn
<1>10. ASSUME NEW p \in Targets PROVE Ancestors(PlaceGraph, p) \cap (Own \cup {Root}) # {}
  BY <1>1, <1>2, <1>4, <1>8 DEF Inv, InlinesGrounded
<1>11. Plan
  BY <1>1, <1>5, <1>6, <1>7, <1>9, <1>10 DEF Plan, Placed
<1> QED
  BY <1>2, <1>4, <1>11

(* What the plan says of the modules.                                       *)
LEMMA PlanFacts ==
  ASSUME Plan
  PROVE  /\ Targets \subseteq DOMAIN graph \ {Root} /\ Root \notin Targets
         /\ DOMAIN graph \subseteq Paths /\ Own \subseteq Paths /\ Targets \subseteq Paths
         /\ Root \notin Own
         /\ DOMAIN graph \ {Root} = Own \cup Targets
         /\ Own \cap Targets = {}
         /\ \A p \in Paths : p \notin Parents(graph, p) /\ Root \notin Ancestors(graph, p)
         /\ Ancestors(graph, Root) = DOMAIN graph \ {Root}
<1>1. WithinPaths(graph) /\ DOMAIN graph \subseteq Paths
  BY DEF Plan, WithinPaths
<1>2. ASSUME NEW p \in Paths
      PROVE  p \notin Parents(graph, p) /\ Ancestors(graph, p) \subseteq DOMAIN graph \ {Root}
  <2>1. p \notin Parents(graph, p)
    BY <1>1, AncestorsHaveParents DEF Plan, Acyclic, DeepDependsOn
  <2> DEFINE S == DOMAIN graph \ {Root}
  <2>2. S \in SUBSET Paths /\ Parents(graph, p) \subseteq S
    BY <1>1 DEF Plan
  <2>3. Closed(graph, S)
    BY <2>2 DEF Plan, Closed
  <2>4. Ancestors(graph, p) \subseteq S
    BY <2>2, <2>3, AncestorsLeast
  <2> QED
    BY <2>1, <2>4
<1>3. Targets \subseteq DOMAIN graph \ {Root}
  <2> SUFFICES ASSUME NEW e \in inlinedAt PROVE Place[e] \in DOMAIN graph \ {Root}
    BY DEF Targets
  <2>1. Place[e] \in Parents(graph, e[1])
    BY DEF Plan, DependsOn
  <2>2. e[1] \in Paths
    BY <1>1, <2>1 DEF Parents
  <2> QED
    BY <2>1, <2>2 DEF Plan
<1> QED
  BY <1>1, <1>2, <1>3, RootAssumption DEF Own, Plan

LEMMA StartExecutionFirst ==
  ASSUME Resolving, BuildTyped, StartExecution
  PROVE  Executing'
<1>1. /\ Plan /\ asts = DOMAIN graph \ ({Root} \cup Targets) /\ DOMAIN inlines = Targets
      /\ NotStarted
  BY ResolvedPlan DEF StartExecution, Resolving
<1>2. UNCHANGED <<project, graph, inlinedAt, asts, inlines>>
  BY DEF StartExecution, resolveVars
<1>3. Plan' /\ Place' = Place /\ Targets' = Targets /\ Own' = Own
  BY <1>1, <1>2, PlanStays
<1> DEFINE f == WorkFrame(graph, Root, NoPath)
<1>4. f \in WorkFrames /\ f.pending = Ancestors(graph, Root) /\ f.inlined = NoPath
  BY WorkFrameType
<1>5. work' = <<f>>
  BY DEF StartExecution
<1> HIDE DEF f
<1>6. DOMAIN work' = {1} /\ Len(work') = 1 /\ work' # <<>> /\ work'[1] = f
  BY <1>4, <1>5, Singleton
<1>7. /\ mainPc' = "spawn" /\ clone' = graph
      /\ UNCHANGED <<promises, threads, lowering, cache, missing, aborted>>
  BY DEF StartExecution, resultVars
<1>8. Visited' = {}
  BY <1>2, <1>7 DEF Visited
<1>9. CloneExact'
  <2>1. \A p \in DOMAIN graph : graph[p] = graph[p] \cap DOMAIN graph
    BY <1>1, PlanFacts DEF Plan, Parents
  <2> QED
    BY <1>2, <1>7, <1>8, <2>1 DEF CloneExact, Starting
<1>10. WorkExact'
  BY <1>1, <1>2, <1>4, <1>6, <1>7, PlanFacts, NoPathAssumption DEF WorkExact, Walking
<1>11. AstsExact'
  BY <1>1, <1>2, <1>3, <1>7 DEF AstsExact
<1>12. \A p \in Paths : /\ promises[p] = "none" /\ cache[p] = "none"
                        /\ threads[p] = "none" /\ lowering[p] = <<>>
  BY <1>1 DEF NotStarted, Registered, Cached
<1>13. VisitedKnown'
  BY <1>7, <1>8, <1>12 DEF VisitedKnown, Registered, Cached, Starting, Walking
<1>14. \A t \in Paths : /\ DOMAIN lowering[t] = {} /\ On(lowering[t]) = {}
                        /\ \A F : HeldIn(lowering[t], F) = {}
  BY <1>12, NoFrames DEF On, HeldIn
<1>15. StacksExact'
  BY <1>7, <1>12, <1>14 DEF StacksExact, NoRepeat, Nested
<1>16. ThreadsExact'
  BY <1>7, <1>12, RootAssumption DEF ThreadsExact, ModuleLowered
<1>17. PromisesExact' /\ MissedInlined'
  BY <1>1, <1>3, <1>7, <1>12, PlanFacts DEF PromisesExact, MissedInlined, NotStarted
<1>18. CachedPast'
  <2>1. \A e \in inlinedAt : Place[e] \in Paths /\ e[1] \in Paths
    BY <1>1, PlanFacts, PlaceFacts, BuildTypes
  <2> QED
    BY <1>2, <1>3, <1>7, <1>12, <1>14, <2>1 DEF CachedPast, Past, Cached, Beyond
<1>19. ErrorsKept' /\ FailuresReported'
  <2>1. faulty' \subseteq Paths
    BY BuildTypes DEF StartExecution, inputVars
  <2> QED
    BY <1>1, <1>7, <1>12, <2>1 DEF ErrorsKept, FailuresReported, NotStarted, Cached
<1> QED
  BY <1>3, <1>7, <1>9, <1>10, <1>11, <1>13, <1>15, <1>16, <1>17, <1>18, <1>19 DEF Executing

-----------------------------------------------------------------------------
(* What a step leaves alone.                                                *)

LEMMA StacksKept ==
  ASSUME StacksExact, UNCHANGED <<project, graph, inlinedAt, lowering, cache, threads>>,
         Visited \subseteq Visited'
  PROVE  StacksExact'
<1>1. Place' = Place
  BY ImportsStay
<1> QED
  BY <1>1 DEF StacksExact, Cached

LEMMA PastKept ==
  ASSUME CachedPast, UNCHANGED <<project, inlinedAt, lowering, cache>>,
         mainPc' = "done" <=> mainPc = "done"
  PROVE  CachedPast'
<1>1. Place' = Place
  BY ImportsStay
<1> QED
  BY <1>1 DEF CachedPast, Past, Cached

LEMMA ErrorsStay ==
  ASSUME ErrorsKept, MissedInlined, mainPc # "done", mainPc' # "done",
         UNCHANGED <<project, inlinedAt, faulty, lowering, cache, errors, missing, aborted>>
  PROVE  ErrorsKept' /\ MissedInlined' /\ FailuresReported'
<1>1. Targets' = Targets
  BY ImportsStay
<1> QED
  BY <1>1 DEF ErrorsKept, MissedInlined, Noted, Cached, FailuresReported

LEMMA PromisesKept ==
  ASSUME PromisesExact, UNCHANGED <<promises, threads, cache>>, Own' = Own
  PROVE  PromisesExact'
BY DEF PromisesExact, Cached

-----------------------------------------------------------------------------
(* The walk.                                                                *)

LEMMA WalkFacts ==
  ASSUME Executing, BuildTyped, work # <<>>
  PROVE  /\ Walking /\ mainPc # "done"
         /\ work \in Seq(WorkFrames) /\ Len(work) \in Nat \ {0} /\ DOMAIN work = 1 .. Len(work)
         /\ 1 \in DOMAIN work /\ WTop = work[1]
         /\ \A i \in DOMAIN work : work[i] \in WorkFrames
         /\ WTop.pending \subseteq DOMAIN graph \ {Root}
         /\ WTop.pending \cap Opened = {}
<1>1. work \in Seq(WorkFrames)
  BY BuildTypes
<1>2. Len(work) \in Nat \ {0} /\ DOMAIN work = 1 .. Len(work) /\ 1 \in DOMAIN work
      /\ WTop = work[1] /\ \A i \in DOMAIN work : work[i] \in WorkFrames
  BY <1>1, NonEmpty DEF WTop
<1>3. WorkExact
  BY DEF Executing
<1>4. \A i \in DOMAIN work : work[i].inlined \notin work[1].pending
  BY <1>2, <1>3 DEF WorkExact
<1> QED
  BY <1>1, <1>2, <1>3, <1>4 DEF WorkExact, Walking, Opened

(* Removing a node that has become ready from the copy.                     *)
LEMMA CloneTaken ==
  ASSUME Plan, CloneExact, NEW p \in DOMAIN clone \ {Root}, Parents(clone, p) = {},
         clone' = RemoveNode(clone, p), graph' = graph
  PROVE  /\ CloneExact' /\ DOMAIN clone' = DOMAIN clone \ {p}
         /\ Visited' = Visited \cup {p} /\ p \notin Visited
         /\ Parents(graph, p) \subseteq Visited /\ p \notin Parents(graph, p)
         /\ \A q \in Visited : p \notin Parents(graph, q)
<1>1. DOMAIN clone' = DOMAIN clone \ {p} /\ p \in DOMAIN graph
      /\ \A q \in DOMAIN clone' : clone'[q] = clone[q] \ {p}
  BY DEF RemoveNode, CloneExact
<1>2. Visited' = Visited \cup {p} /\ p \notin Visited
  BY <1>1 DEF Visited, CloneExact
<1>3. p \in Paths /\ p \notin Parents(graph, p)
  BY <1>1, PlanFacts
<1>4. Parents(graph, p) \subseteq Visited
  BY <1>1, <1>3 DEF Parents, CloneExact, Visited, Plan
<1>5. CloneExact'
  BY <1>1, <1>2, <1>4 DEF CloneExact
<1> QED
  BY <1>1, <1>2, <1>3, <1>4, <1>5 DEF CloneExact

LEMMA CloneLeft ==
  ASSUME CloneExact, NEW p, p \notin DOMAIN clone,
         clone' = RemoveNode(clone, p), graph' = graph
  PROVE  CloneExact' /\ DOMAIN clone' = DOMAIN clone /\ Visited' = Visited
<1>1. DOMAIN clone' = DOMAIN clone /\ \A q \in DOMAIN clone : clone'[q] = clone[q]
  BY DEF RemoveNode, CloneExact
<1>2. Visited' = Visited
  BY <1>1 DEF Visited
<1> QED
  BY <1>1, <1>2 DEF CloneExact

(* Taking an ancestor from the innermost list.                              *)
LEMMA WorkTaken ==
  ASSUME WorkExact, BuildTyped, work # <<>>, NEW p,
         work' = <<Taken(p)>> \o Tail(work), Walking',
         graph' = graph, Targets' = Targets, Visited \subseteq Visited',
         DOMAIN clone' \subseteq DOMAIN clone \ {p}
  PROVE  WorkExact' /\ Opened' = Opened
<1>1. work \in Seq(WorkFrames) /\ Taken(p) \in WorkFrames /\ WTop = work[1]
      /\ Taken(p).pending = WTop.pending \ {p} /\ Taken(p).inlined = WTop.inlined
  BY BuildTypes, TakenType
<1>2. Len(work) \in Nat \ {0} /\ DOMAIN work = 1 .. Len(work)
  BY <1>1, NonEmpty
<1>3. /\ Len(work') = Len(work) /\ DOMAIN work' = DOMAIN work /\ work'[1] = Taken(p)
      /\ work' # <<>>
      /\ \A i \in DOMAIN work : i > 1 => work'[i] = work[i]
  BY <1>1, ReplacedTop, ReplacedNotEmpty
<1>4. \A i \in DOMAIN work : /\ work'[i].inlined = work[i].inlined
                             /\ work'[i].pending \subseteq work[i].pending
                             /\ work[i].pending \ {p} \subseteq work'[i].pending
  <2> TAKE i \in DOMAIN work
  <2>1. CASE i = 1
    BY <1>1, <1>3, <2>1
  <2>2. CASE i > 1
    BY <1>3, <2>2
  <2> QED
    BY <1>2, <2>1, <2>2
<1>5. Opened' = Opened
  <2>1. \A i \in DOMAIN work : work'[i].inlined = work[i].inlined
    BY <1>4
  <2>2. {work'[i].inlined : i \in DOMAIN work'} = {work[i].inlined : i \in DOMAIN work}
    BY <1>3, <2>1
  <2> QED
    BY <2>2 DEF Opened
<1>6. ASSUME NEW i \in DOMAIN work'
      PROVE  /\ work'[i].pending \subseteq DOMAIN graph' \ {Root}
             /\ IF i = Len(work') THEN /\ work'[i].inlined = NoPath
                                       /\ DOMAIN clone' \ {Root} \subseteq work'[i].pending
                ELSE work'[i].inlined \in Targets' \cap Visited'
  <2>1. i \in DOMAIN work /\ (i = Len(work') <=> i = Len(work))
    BY <1>3
  <2>2. /\ work'[i].inlined = work[i].inlined
        /\ work'[i].pending \subseteq work[i].pending
        /\ work[i].pending \ {p} \subseteq work'[i].pending
    BY <1>4, <2>1
  <2> QED
    BY <2>1, <2>2 DEF WorkExact
<1>7. ASSUME NEW i \in DOMAIN work', NEW j \in DOMAIN work', i <= j
      PROVE  work'[j].inlined \notin work'[i].pending
  BY <1>3, <1>4, <1>7 DEF WorkExact
<1> QED
  BY <1>3, <1>5, <1>6, <1>7 DEF WorkExact

(* Opening a list for an inlined module.                                    *)
LEMMA WorkOpened ==
  ASSUME WorkExact, BuildTyped, work # <<>>, NEW p \in Targets, NEW f \in WorkFrames,
         f.inlined = p, f.pending \subseteq DOMAIN clone' \ {Root},
         DOMAIN clone' \subseteq DOMAIN graph,
         work' = <<f, Taken(p)>> \o Tail(work), Walking',
         graph' = graph, Targets' = Targets, Visited' = Visited \cup {p},
         DOMAIN clone' \subseteq DOMAIN clone \ {p}, Targets \subseteq Paths
  PROVE  WorkExact' /\ Opened' = Opened \cup {p}
<1>1. work \in Seq(WorkFrames) /\ Taken(p) \in WorkFrames /\ WTop = work[1]
      /\ Taken(p).pending = WTop.pending \ {p} /\ Taken(p).inlined = WTop.inlined
  BY BuildTypes, TakenType
<1>2. Len(work) \in Nat \ {0} /\ DOMAIN work = 1 .. Len(work) /\ 1 \in DOMAIN work
  BY <1>1, NonEmpty
<1>3. /\ Len(work') = Len(work) + 1 /\ DOMAIN work' = 1 .. Len(work) + 1
      /\ work'[1] = f /\ work'[2] = Taken(p)
      /\ \A i \in DOMAIN work : i > 1 => work'[i + 1] = work[i]
  BY <1>1, PushedTop
<1>4. \A i \in DOMAIN work : /\ i + 1 \in DOMAIN work'
                             /\ work'[i + 1].inlined = work[i].inlined
                             /\ work'[i + 1].pending \subseteq work[i].pending
                             /\ work[i].pending \ {p} \subseteq work'[i + 1].pending
  <2> TAKE i \in DOMAIN work
  <2>1. CASE i = 1
    BY <1>1, <1>2, <1>3, <2>1
  <2>2. CASE i > 1
    BY <1>2, <1>3, <2>2
  <2> QED
    BY <1>2, <2>1, <2>2
<1>5. \A i \in DOMAIN work' : i = 1 \/ (i - 1 \in DOMAIN work /\ (i - 1) + 1 = i)
  BY <1>2, <1>3
<1>6. Opened' = Opened \cup {p}
  <2>1. p # NoPath /\ 1 \in DOMAIN work'
    BY <1>2, <1>3, NoPathAssumption
  <2>2. ASSUME NEW q \in Opened' PROVE q \in Opened \cup {p}
    <3>1. PICK i \in DOMAIN work' : q = work'[i].inlined /\ q # NoPath
      BY DEF Opened
    <3>2. CASE i = 1
      BY <1>3, <3>1, <3>2
    <3>3. CASE i - 1 \in DOMAIN work /\ (i - 1) + 1 = i
      <4>1. work'[(i - 1) + 1].inlined = work[i - 1].inlined
        BY <1>4, <3>3
      <4> QED
        BY <3>1, <3>3, <4>1 DEF Opened
    <3> QED
      BY <1>5, <3>2, <3>3
  <2>3. Opened \subseteq Opened'
    BY <1>4 DEF Opened
  <2>4. p \in Opened'
    BY <1>3, <2>1 DEF Opened
  <2> QED
    BY <2>2, <2>3, <2>4
<1>7. ASSUME NEW i \in DOMAIN work'
      PROVE  /\ work'[i].pending \subseteq DOMAIN graph' \ {Root}
             /\ IF i = Len(work') THEN /\ work'[i].inlined = NoPath
                                       /\ DOMAIN clone' \ {Root} \subseteq work'[i].pending
                ELSE work'[i].inlined \in Targets' \cap Visited'
  <2>1. CASE i = 1
    BY <1>2, <1>3, <2>1
  <2>2. CASE i - 1 \in DOMAIN work /\ (i - 1) + 1 = i
    <3> DEFINE k == i - 1
    <3>1. k \in DOMAIN work /\ k + 1 = i
      BY <2>2
    <3> HIDE DEF k
    <3>2. /\ work'[i].inlined = work[k].inlined
          /\ work'[i].pending \subseteq work[k].pending
          /\ work[k].pending \ {p} \subseteq work'[i].pending
          /\ k = Len(work) <=> i = Len(work')
      BY <1>2, <1>3, <1>4, <3>1
    <3> QED
      BY <3>1, <3>2 DEF WorkExact
  <2> QED
    BY <1>5, <2>1, <2>2
<1>8. ASSUME NEW i \in DOMAIN work', NEW j \in DOMAIN work', i <= j
      PROVE  work'[j].inlined \notin work'[i].pending
  <2>1. work'[j].inlined \notin DOMAIN clone'
    <3>1. j = Len(work') => work'[j].inlined = NoPath
      BY <1>7
    <3>2. j # Len(work') => work'[j].inlined \in Visited'
      BY <1>7
    <3>3. DOMAIN clone' \cap Visited' = {} /\ NoPath \notin DOMAIN clone'
      BY NoPathAssumption, BuildTypes DEF Visited, ResolverTypeOK
    <3> QED
      BY <3>1, <3>2, <3>3
  <2>2. CASE i = 1
    BY <1>3, <2>1, <2>2
  <2>3. CASE i > 1
    <3> DEFINE k == i - 1
               l == j - 1
    <3>1. k \in DOMAIN work /\ l \in DOMAIN work /\ k <= l /\ k + 1 = i /\ l + 1 = j
      BY <1>2, <1>3, <1>8, <2>3
    <3> HIDE DEF k, l
    <3>2. work'[j].inlined = work[l].inlined /\ work'[i].pending \subseteq work[k].pending
      BY <1>4, <3>1
    <3> QED
      BY <3>1, <3>2 DEF WorkExact
  <2> QED
    BY <1>3, <2>2, <2>3
<1>9. work' # <<>>
  BY <1>2, <1>3, NoFrames
<1> QED
  BY <1>6, <1>7, <1>8, <1>9 DEF WorkExact

(* Closing it again.                                                        *)
LEMMA WorkClosed ==
  ASSUME WorkExact, BuildTyped, Len(work) > 1, work # <<>>, work' = Tail(work), Walking',
         UNCHANGED <<graph, clone>>, Targets' = Targets
  PROVE  WorkExact' /\ Opened \subseteq Opened' \cup {WTop.inlined}
<1>1. work \in Seq(WorkFrames)
  BY BuildTypes
<1>2. /\ Len(work) \in Nat \ {0} /\ DOMAIN work = 1 .. Len(work) /\ WTop = work[1]
      /\ Len(work') = Len(work) - 1 /\ DOMAIN work' = 1 .. Len(work) - 1
      /\ \A i \in 1 .. Len(work) - 1 : work'[i] = work[i + 1]
  BY <1>1, NonEmpty DEF WTop
<1>3. Visited' = Visited /\ work' # <<>>
  BY <1>2, NoFrames DEF Visited
<1>4. ASSUME NEW i \in DOMAIN work'
      PROVE  i + 1 \in DOMAIN work /\ work'[i] = work[i + 1] /\ (i + 1 = Len(work) <=> i = Len(work'))
  BY <1>2
<1>5. ASSUME NEW i \in DOMAIN work'
      PROVE  /\ work'[i].pending \subseteq DOMAIN graph' \ {Root}
             /\ IF i = Len(work') THEN /\ work'[i].inlined = NoPath
                                       /\ DOMAIN clone' \ {Root} \subseteq work'[i].pending
                ELSE work'[i].inlined \in Targets' \cap Visited'
  <2> DEFINE k == i + 1
  <2>1. k \in DOMAIN work /\ work'[i] = work[k] /\ (k = Len(work) <=> i = Len(work'))
    BY <1>4
  <2> HIDE DEF k
  <2> QED
    BY <1>3, <2>1 DEF WorkExact
<1>6. ASSUME NEW i \in DOMAIN work', NEW j \in DOMAIN work', i <= j
      PROVE  work'[j].inlined \notin work'[i].pending
  <2> DEFINE k == i + 1
             l == j + 1
  <2>1. k \in DOMAIN work /\ work'[i] = work[k] /\ l \in DOMAIN work /\ work'[j] = work[l] /\ k <= l
    BY <1>2, <1>4, <1>6
  <2> HIDE DEF k, l
  <2> QED
    BY <2>1 DEF WorkExact
<1>7. Opened \subseteq Opened' \cup {WTop.inlined}
  <2> SUFFICES ASSUME NEW k \in DOMAIN work, k # 1, work[k].inlined # NoPath
               PROVE  work[k].inlined \in Opened'
    BY <1>2 DEF Opened
  <2> DEFINE i == k - 1
  <2>1. i \in DOMAIN work' /\ i + 1 = k /\ i \in 1 .. Len(work) - 1
    BY <1>2
  <2> HIDE DEF i
  <2>2. work'[i] = work[k]
    BY <1>2, <2>1
  <2> QED
    BY <2>1, <2>2 DEF Opened
<1> QED
  BY <1>3, <1>5, <1>6, <1>7 DEF WorkExact

LEMMA ReadyFacts ==
  ASSUME Executing, BuildTyped, NEW p \in Paths, TakeAncestor(p)
  PROVE  /\ mainPc = "spawn" /\ work # <<>> /\ clone' = RemoveNode(clone, p)
         /\ p \in DOMAIN graph \ {Root} /\ p \notin Opened
         /\ p \in Visited => Registered(p)
         /\ p \notin Visited => /\ p \in DOMAIN clone \ {Root} /\ Parents(clone, p) = {}
                                /\ ~Registered(p) /\ ~Cached(p)
<1>1. mainPc = "spawn" /\ work # <<>> /\ clone' = RemoveNode(clone, p)
      /\ p \in WTop.pending /\ Parents(clone, p) = {}
  BY DEF TakeAncestor, Ready
<1>2. p \in DOMAIN graph \ {Root} /\ p \notin Opened
  BY <1>1, WalkFacts
<1>3. VisitedKnown
  BY DEF Executing
<1> QED
  BY <1>1, <1>2, <1>3 DEF VisitedKnown, Visited, Starting

(* Main goes on without having started or finished anything.                *)
LEMMA WalkStays ==
  ASSUME Executing, BuildTyped,
         UNCHANGED <<resolveVars, inputVars, sharedVars, resultVars>>,
         CloneExact', WorkExact', DOMAIN clone' = DOMAIN clone, Opened' = Opened,
         mainPc \in {"spawn", "wait"}, mainPc' \in {"spawn", "wait"}
  PROVE  Executing'
<1>1. /\ UNCHANGED <<project, graph, asts, inlines, inlinedAt, parallel, faulty,
                     promises, threads, lowering, cache, errors, missing, aborted>>
      /\ Walking /\ Walking' /\ ~Starting /\ ~Starting'
  BY DEF resolveVars, inputVars, sharedVars, resultVars, Walking, Starting
<1>2. Plan' /\ Targets' = Targets /\ Own' = Own
  BY <1>1, PlanStays DEF Executing
<1>3. Visited' = Visited
  BY <1>1 DEF Visited
<1>4. AstsExact'
  BY <1>1, <1>2 DEF Executing, AstsExact
<1>5. VisitedKnown'
  BY <1>1, <1>3 DEF Executing, VisitedKnown, Registered, Cached
<1>6. StacksExact' /\ CachedPast'
  BY <1>1, <1>3, StacksKept, PastKept DEF Executing
<1>7. ThreadsExact'
  BY <1>1, <1>2, <1>3
  DEF Executing, ThreadsExact, ModuleLowered, Lowered, LTop, Body
<1>8. PromisesExact'
  BY <1>1, <1>2, PromisesKept DEF Executing
<1>9. ErrorsKept' /\ MissedInlined' /\ FailuresReported'
  BY <1>1, ErrorsStay DEF Executing
<1> QED
  BY <1>2, <1>4, <1>5, <1>6, <1>7, <1>8, <1>9 DEF Executing

LEMMA InlinedPassed ==
  ASSUME Executing, BuildTyped, NEW p \in Paths, InlinedKnown(p) \/ InlinedWait(p)
  PROVE  Executing'
<1>1. TakeInlined(p) /\ TakeAncestor(p) /\ (Cached(p) \/ Registered(p))
      /\ work' = <<Taken(p)>> \o Tail(work) /\ mainPc' \in {mainPc, "wait"}
  BY DEF InlinedKnown, InlinedWait, TakeInlined
<1>2. /\ UNCHANGED <<resolveVars, inputVars, sharedVars, resultVars>>
      /\ UNCHANGED <<project, graph, inlinedAt>>
  BY <1>1 DEF TakeInlined, resolveVars
<1>3. p \in Visited /\ work # <<>> /\ mainPc = "spawn" /\ clone' = RemoveNode(clone, p)
  BY <1>1, ReadyFacts
<1>4. p \notin DOMAIN clone
  BY <1>3 DEF Visited
<1>5. CloneExact' /\ DOMAIN clone' = DOMAIN clone /\ Visited' = Visited
  BY <1>2, <1>3, <1>4, CloneLeft DEF Executing
<1>6. Targets' = Targets
  BY <1>2, ImportsStay
<1>7. Walking'
  BY <1>1, <1>3 DEF Walking
<1>8. WorkExact' /\ Opened' = Opened
  BY <1>1, <1>2, <1>3, <1>4, <1>5, <1>6, <1>7, WorkTaken DEF Executing
<1> QED
  BY <1>1, <1>2, <1>3, <1>5, <1>8, WalkStays

LEMMA WaitFirst ==
  ASSUME Executing, BuildTyped, WaitUntilFinished
  PROVE  Executing'
<1>1. /\ UNCHANGED <<resolveVars, inputVars, sharedVars, resultVars, clone, work>>
      /\ UNCHANGED <<project, graph, inlinedAt>>
      /\ mainPc = "wait" /\ mainPc' = "spawn"
  BY DEF WaitUntilFinished, resolveVars
<1>2. Targets' = Targets
  BY <1>1, ImportsStay
<1>3. CloneExact' /\ Opened' = Opened /\ Visited' = Visited
  BY <1>1 DEF Executing, CloneExact, Opened, Visited
<1>4. WorkExact'
  BY <1>1, <1>2, <1>3 DEF Executing, WorkExact, Walking
<1> QED
  BY <1>1, <1>3, <1>4, WalkStays

(* The module of a list that was opened is inlined: no `unreachable!'.      *)
LEMMA InlinedOpenFirst ==
  ASSUME Executing, BuildTyped, NEW p \in Paths, InlinedOpen(p)
  PROVE  Executing'
<1>1. TakeInlined(p) /\ TakeAncestor(p) /\ p \notin asts /\ ~Cached(p) /\ ~Registered(p)
  BY DEF InlinedOpen, TakeInlined
<1>2. /\ UNCHANGED <<project, graph, asts, inlines, inlinedAt, parallel, faulty,
                     promises, threads, lowering, cache, errors, missing, aborted>>
  BY <1>1 DEF TakeInlined, resolveVars, inputVars, sharedVars, resultVars
<1>3. /\ mainPc = "spawn" /\ work # <<>> /\ clone' = RemoveNode(clone, p)
      /\ p \in DOMAIN graph \ {Root} /\ p \notin Visited
      /\ p \in DOMAIN clone \ {Root} /\ Parents(clone, p) = {}
  BY <1>1, ReadyFacts
<1>4. p \in Targets /\ p \in DOMAIN inlines
  BY <1>1, <1>3 DEF Executing, AstsExact, Walking
<1> DEFINE f == WorkFrame(clone', inlines[p], p)
<1>5. work' = <<f, Taken(p)>> \o Tail(work) /\ mainPc' = "spawn"
  BY <1>3, <1>4 DEF InlinedOpen
<1>6. f \in WorkFrames /\ f.inlined = p /\ f.pending = Ancestors(clone', inlines[p])
  BY WorkFrameType
<1> HIDE DEF f
<1>7. /\ CloneExact' /\ DOMAIN clone' = DOMAIN clone \ {p} /\ Visited' = Visited \cup {p}
      /\ Parents(graph, p) \subseteq Visited
  BY <1>2, <1>3, CloneTaken DEF Executing
<1>8. Plan' /\ Place' = Place /\ Targets' = Targets /\ Own' = Own
  BY <1>2, PlanStays DEF Executing
<1>9. Plan /\ Targets \subseteq Paths /\ DOMAIN graph \subseteq Paths
  BY PlanFacts DEF Executing
<1>10. f.pending \subseteq DOMAIN clone' \ {Root}
  <2> DEFINE S == DOMAIN clone' \ {Root}
  <2>1. DOMAIN clone' \subseteq DOMAIN graph
    BY <1>2, <1>7 DEF CloneExact
  <2>2. \A q \in DOMAIN clone' : clone'[q] \subseteq S
    BY <1>2, <1>7, <1>9, <2>1 DEF CloneExact, Plan, Parents
  <2>3. S \in SUBSET Paths /\ Parents(clone', inlines[p]) \subseteq S /\ Closed(clone', S)
    BY <1>9, <2>1, <2>2 DEF Closed, Parents
  <2>4. Ancestors(clone', inlines[p]) \subseteq S
    BY <2>3, AncestorsLeast
  <2> QED
    BY <1>6, <2>4
<1>11. DOMAIN clone' \subseteq DOMAIN graph /\ Walking' /\ ~Starting /\ ~Starting' /\ Walking
  BY <1>2, <1>3, <1>5, <1>7 DEF CloneExact, Walking, Starting
<1>12. WorkExact' /\ Opened' = Opened \cup {p}
  BY <1>2, <1>3, <1>4, <1>5, <1>6, <1>7, <1>8, <1>9, <1>10, <1>11, WorkOpened DEF Executing
<1>13. AstsExact'
  BY <1>2, <1>4, <1>7, <1>8, <1>11 DEF Executing, AstsExact
<1>14. VisitedKnown'
  BY <1>2, <1>7, <1>11, <1>12 DEF Executing, VisitedKnown, Registered, Cached
<1>15. StacksExact' /\ CachedPast'
  BY <1>2, <1>3, <1>5, <1>7, StacksKept, PastKept DEF Executing
<1>16. ThreadsExact'
  BY <1>2, <1>3, <1>5, <1>7, <1>8
  DEF Executing, ThreadsExact, ModuleLowered, Lowered, LTop, Body
<1>17. PromisesExact'
  BY <1>2, <1>8, PromisesKept DEF Executing
<1>18. ErrorsKept' /\ MissedInlined' /\ FailuresReported'
  BY <1>2, <1>3, <1>5, ErrorsStay DEF Executing
<1> QED
  BY <1>5, <1>7, <1>8, <1>12, <1>13, <1>14, <1>15, <1>16, <1>17, <1>18 DEF Executing

LEMMA CloseInlinedFirst ==
  ASSUME Executing, BuildTyped, CloseInlined
  PROVE  Executing'
<1>1. /\ UNCHANGED <<project, graph, asts, inlines, inlinedAt, parallel, faulty, clone,
                     mainPc, threads, lowering, cache, errors, missing, aborted>>
      /\ mainPc = "spawn" /\ Len(work) > 1 /\ work' = Tail(work)
      /\ promises' = MarkedAsJoined(WTop.inlined)
  BY DEF CloseInlined, resolveVars, inputVars, resultVars
<1>2. work # <<>> /\ Walking /\ Walking' /\ ~Starting /\ ~Starting'
  BY <1>1, NoFrames DEF Walking, Starting
<1>3. Plan' /\ Place' = Place /\ Targets' = Targets /\ Own' = Own
  BY <1>1, PlanStays DEF Executing
<1>4. WorkExact' /\ Opened \subseteq Opened' \cup {WTop.inlined} /\ Visited' = Visited
  BY <1>1, <1>2, <1>3, WorkClosed DEF Executing, Visited
<1> DEFINE p == WTop.inlined
<1>5. p \in Targets \cap Visited /\ p \in Paths
  <2>1. 1 \in DOMAIN work /\ WTop = work[1] /\ Len(work) # 1
    BY <1>1, <1>2, WalkFacts
  <2> QED
    BY <2>1, PlanFacts DEF Executing, WorkExact
<1>6. /\ promises'[p] = "joined"
      /\ \A q \in Paths : q # p => promises'[q] = promises[q]
  BY <1>1, <1>5, BuildTypes DEF MarkedAsJoined
<1> HIDE DEF p
<1>7. CloneExact' /\ AstsExact'
  BY <1>1, <1>2, <1>3, <1>4 DEF Executing, CloneExact, AstsExact
<1>8. VisitedKnown'
  <2>1. \A q \in Paths : Registered(q) => promises'[q] # "none"
    BY <1>6 DEF Registered
  <2>2. \A q \in Paths : promises'[q] # "none" => Registered(q) \/ q = p
    BY <1>6 DEF Registered
  <2>3. Opened \subseteq Opened' \cup {p} /\ Visited \subseteq Paths
    BY <1>4, PlanFacts DEF p, Executing, Visited
  <2> QED
    BY <1>1, <1>2, <1>4, <1>5, <1>6, <2>1, <2>2, <2>3
    DEF Executing, VisitedKnown, Registered, Cached
<1>9. StacksExact' /\ CachedPast'
  BY <1>1, <1>4, StacksKept, PastKept DEF Executing
<1>10. ThreadsExact'
  BY <1>1, <1>3, <1>4 DEF Executing, ThreadsExact, ModuleLowered, Lowered, LTop, Body
<1>11. PromisesExact'
  <2>1. threads[p] = "none" /\ p \notin Own
    BY <1>5, BuildTypes, PlanFacts DEF Executing, ThreadsExact
  <2>2. Own \subseteq Paths
    BY PlanFacts DEF Executing
  <2> QED
    BY <1>1, <1>3, <1>6, <2>1, <2>2 DEF Executing, PromisesExact, Cached
<1>12. ErrorsKept' /\ MissedInlined' /\ FailuresReported'
  BY <1>1, ErrorsStay DEF Executing
<1> QED
  BY <1>1, <1>3, <1>4, <1>7, <1>8, <1>9, <1>10, <1>11, <1>12 DEF Executing

-----------------------------------------------------------------------------
(* Starting the analysis of a module.                                       *)

(* On a thread, all but the innermost module are inlined ones.              *)
LEMMA InlinedOnStack ==
  ASSUME Executing, BuildTyped, NEW t \in Paths, NEW i \in DOMAIN lowering[t],
         i # Len(lowering[t])
  PROVE  lowering[t][i].mod \in Targets /\ i + 1 \in DOMAIN lowering[t]
         /\ <<lowering[t][i + 1].mod, lowering[t][i + 1].next>> \in inlinedAt
         /\ lowering[t][i].mod = Place[<<lowering[t][i + 1].mod, lowering[t][i + 1].next>>]
<1>1. i < Len(lowering[t]) /\ i + 1 \in DOMAIN lowering[t]
  BY InHandType, NoFrames
<1>2. Nested(lowering[t], Place)
  BY DEF Executing, StacksExact
<1> QED
  BY <1>1, <1>2, PlaceFacts DEF Nested

LEMMA RootNotOnThreads ==
  ASSUME Executing, BuildTyped, NEW t \in Paths \ {Root}
  PROVE  Root \notin On(lowering[t])
<1> SUFFICES ASSUME NEW i \in DOMAIN lowering[t], lowering[t][i].mod = Root PROVE FALSE
  BY DEF On
<1>1. lowering[t] # <<>>
  BY NoFrames
<1>2. Bottom(lowering[t]) = t
  BY <1>1 DEF Executing, ThreadsExact
<1>3. i # Len(lowering[t])
  BY <1>2 DEF Bottom
<1>4. Root \in Targets
  BY <1>3, InlinedOnStack
<1> QED
  BY <1>4, PlanFacts DEF Executing

LEMMA FreshFrame ==
  ASSUME NEW m \in Paths, inlinedAt \in SUBSET (Paths \X (Nat \ {0}))
  PROVE  LET s == <<LowerFrame(m, inlinedAt)>>
         IN  /\ s \in Seq(LowerFrames) /\ s # <<>> /\ Bottom(s) = m
             /\ On(s) = {m} /\ NoRepeat(s) /\ Nested(s, Place)
             /\ \A e \in inlinedAt : ~Beyond(s, e)
             /\ \A F : HeldIn(s, F) = F \cap {m}
<1> DEFINE f == LowerFrame(m, inlinedAt)
           s == <<f>>
<1>1. f \in LowerFrames /\ f.mod = m /\ f.next = 1 /\ f.errs = {} /\ f.inlinedAt = inlinedAt
  BY LowerFrameType
<1> HIDE DEF f
<1>2. s \in Seq(LowerFrames) /\ s # <<>> /\ Len(s) = 1 /\ DOMAIN s = {1} /\ s[1] = f
  BY <1>1, Singleton
<1> HIDE DEF s
<1>3. Bottom(s) = m
  BY <1>1, <1>2 DEF Bottom
<1>4. On(s) = {m}
  BY <1>1, <1>2 DEF On
<1>5. NoRepeat(s)
  BY <1>2 DEF NoRepeat
<1>6. Nested(s, Place)
  BY <1>1, <1>2, PlaceFacts DEF Nested
<1>7. \A e \in inlinedAt : ~Beyond(s, e)
  BY <1>1, <1>2 DEF Beyond
<1>8. ASSUME NEW F PROVE HeldIn(s, F) = F \cap {m}
  <2>1. HeldIn(s, F) = UNION {s[1].errs \cup (F \cap {s[1].mod})}
    BY <1>2 DEF HeldIn
  <2> QED
    BY <1>1, <1>2, <2>1
<1> QED
  BY <1>2, <1>3, <1>4, <1>5, <1>6, <1>7, <1>8 DEF s, f

(* A thread that had nothing in hand begins with m.                         *)
LEMMA FreshStack ==
  ASSUME Executing, BuildTyped, NEW t \in Paths, NEW m \in Paths, lowering[t] = <<>>,
         lowering' = [lowering EXCEPT ![t] = <<LowerFrame(m, inlinedAt)>>],
         \A u \in Paths : m \notin On(lowering[u]), ~Cached(m),
         UNCHANGED <<project, graph, inlinedAt, faulty, cache, errors, missing, aborted>>,
         Visited \subseteq Visited', m \in Visited' \cup {Root},
         \A u \in Paths \ {t} : threads'[u] = threads[u],
         mainPc # "done", mainPc' # "done"
  PROVE  /\ StacksExact' /\ CachedPast' /\ ErrorsKept' /\ MissedInlined' /\ FailuresReported'
         /\ lowering'[t] # <<>> /\ Bottom(lowering'[t]) = m
         /\ \A u \in Paths \ {t} : lowering'[u] = lowering[u]
<1> DEFINE s == <<LowerFrame(m, inlinedAt)>>
<1>1. /\ s \in Seq(LowerFrames) /\ s # <<>> /\ Bottom(s) = m
      /\ On(s) = {m} /\ NoRepeat(s) /\ Nested(s, Place)
      /\ \A e \in inlinedAt : ~Beyond(s, e)
      /\ \A F : HeldIn(s, F) = F \cap {m}
  BY FreshFrame, BuildTypes
<1>2. lowering' = [lowering EXCEPT ![t] = s]
  OBVIOUS
<1> HIDE DEF s
<1>3. lowering'[t] = s /\ \A u \in Paths \ {t} : lowering'[u] = lowering[u]
  BY <1>1, <1>2, NewStack
<1>4. Place' = Place /\ Targets' = Targets
  BY ImportsStay
<1>5. /\ On(lowering[t]) = {} /\ \A e \in inlinedAt : ~Beyond(lowering[t], e)
      /\ \A F : HeldIn(lowering[t], F) = {}
  BY NoFrames DEF On, Beyond, HeldIn
<1>6. StacksExact'
  <2>1. StacksExact
    BY DEF Executing
  <2>2. ASSUME NEW u \in Paths PROVE NoRepeat(lowering'[u]) /\ Nested(lowering'[u], Place')
    BY <1>1, <1>3, <1>4, <2>1 DEF StacksExact
  <2>3. ASSUME NEW u \in Paths, NEW v \in Paths, u # v
        PROVE  On(lowering'[u]) \cap On(lowering'[v]) = {}
    <3>1. On(lowering[u]) \cap On(lowering[v]) = {}
      BY <2>1, <2>3 DEF StacksExact
    <3> QED
      BY <1>1, <1>3, <2>3, <3>1
  <2>4. ASSUME NEW u \in Paths PROVE On(lowering'[u]) \subseteq Visited' \cup {Root}
    BY <1>1, <1>3, <2>1 DEF StacksExact
  <2>5. ASSUME NEW u \in Paths
        PROVE  LET b == Bottom(lowering'[u])
               IN  On(lowering'[u]) \subseteq {b} \cup Ancestors(graph', b)
    BY <1>1, <1>3, <2>1 DEF StacksExact
  <2>6. ASSUME NEW u \in Paths, NEW q \in On(lowering'[u]), Cached(q)'
        PROVE  threads'[u] = "registered"
    <3>1. Cached(q)
      BY <2>6 DEF Cached
    <3>2. u # t
      BY <1>1, <1>3, <2>6, <3>1
    <3> QED
      BY <1>3, <2>1, <3>1, <3>2, <2>6 DEF StacksExact
  <2> QED
    BY <2>2, <2>3, <2>4, <2>5, <2>6 DEF StacksExact
<1>7. CachedPast'
  <2>1. ASSUME NEW e \in inlinedAt
        PROVE  (\E u \in Paths : Beyond(lowering'[u], e)) <=> \E u \in Paths : Beyond(lowering[u], e)
    BY <1>1, <1>3, <1>5
  <2> QED
    BY <1>4, <2>1 DEF Executing, CachedPast, Past, Cached
<1>8. ASSUME NEW q, Noted(q) PROVE Noted(q)'
  BY <1>3, <1>5, <1>8 DEF Noted
<1>9. ErrorsKept'
  BY <1>8 DEF Executing, ErrorsKept, Cached
<1>10. MissedInlined' /\ FailuresReported'
  BY <1>4 DEF Executing, MissedInlined, FailuresReported
<1> QED
  BY <1>1, <1>3, <1>6, <1>7, <1>9, <1>10

LEMMA TakenStart ==
  ASSUME Executing, BuildTyped, NEW p \in Paths, TakeAst(p),
         subject' = p, mainPc' \in {"insert", "build"}
  PROVE  /\ mainPc = "spawn" /\ p \in Own /\ p \in Paths \ {Root}
         /\ p \notin Visited /\ Visited' = Visited \cup {p}
         /\ ~Cached(p) /\ promises[p] = "none" /\ threads[p] = "none" /\ lowering[p] = <<>>
         /\ lowering[Root] = <<>> /\ \A u \in Paths : p \notin On(lowering[u])
         /\ UNCHANGED <<project, graph, inlinedAt, parallel, faulty,
                        promises, cache, errors, missing, aborted>>
         /\ Own' = Own
         /\ Plan' /\ CloneExact' /\ WorkExact' /\ AstsExact' /\ VisitedKnown'
<1>1. /\ UNCHANGED <<project, graph, inlines, inlinedAt, parallel, faulty,
                     promises, cache, errors, missing, aborted>>
      /\ TakeAncestor(p) /\ p \in asts /\ asts' = asts \ {p}
      /\ work' = <<Taken(p)>> \o Tail(work)
  BY DEF TakeAst, inputVars, resultVars
<1>2. /\ mainPc = "spawn" /\ work # <<>> /\ clone' = RemoveNode(clone, p) /\ Walking
      /\ Walking' /\ ~Starting /\ Starting'
  BY <1>1, ReadyFacts DEF Walking, Starting
<1>3. p \in Own /\ p \in DOMAIN clone /\ p # Root
  BY <1>1, <1>2 DEF Executing, AstsExact, CloneExact, Own
<1>4. p \notin Visited
  BY <1>3 DEF Visited
<1>5. Parents(clone, p) = {} /\ ~Registered(p) /\ ~Cached(p)
  BY <1>1, <1>4, ReadyFacts
<1>6. /\ CloneExact' /\ DOMAIN clone' = DOMAIN clone \ {p} /\ Visited' = Visited \cup {p}
      /\ Parents(graph, p) \subseteq Visited /\ p \notin Parents(graph, p)
      /\ \A q \in Visited : p \notin Parents(graph, q)
  BY <1>1, <1>2, <1>3, <1>5, CloneTaken DEF Executing
<1>7. Plan' /\ Targets' = Targets /\ Own' = Own
  BY <1>1, PlanStays DEF Executing
<1>8. WorkExact' /\ Opened' = Opened
  BY <1>1, <1>2, <1>6, <1>7, WorkTaken DEF Executing
<1>9. AstsExact'
  BY <1>1, <1>2, <1>6, <1>7 DEF Executing, AstsExact
<1>10. VisitedKnown'
  BY <1>1, <1>2, <1>3, <1>5, <1>6, <1>7, <1>8 DEF Executing, VisitedKnown, Registered, Cached
<1>11. lowering[p] = <<>> /\ threads[p] = "none" /\ lowering[Root] = <<>>
  BY <1>2, <1>3, <1>4 DEF Executing, ThreadsExact
<1>12. \A u \in Paths : p \notin On(lowering[u])
  BY <1>3, <1>4 DEF Executing, StacksExact
<1> QED
  BY <1>1, <1>2, <1>3, <1>4, <1>5, <1>6, <1>7, <1>8, <1>9, <1>10, <1>11, <1>12 DEF Registered

LEMMA SpawnFirst ==
  ASSUME Executing, BuildTyped, NEW p \in Paths, SpawnThread(p)
  PROVE  Executing'
<1>1. /\ TakeAst(p) /\ mainPc' = "insert" /\ subject' = p /\ parallel
      /\ threads' = [threads EXCEPT ![p] = "lowering"]
      /\ lowering' = [lowering EXCEPT ![p] = <<LowerFrame(p, inlinedAt)>>]
  BY DEF SpawnThread
<1>2. /\ mainPc = "spawn" /\ p \in Own /\ p \in Paths \ {Root}
      /\ p \notin Visited /\ Visited' = Visited \cup {p}
      /\ ~Cached(p) /\ promises[p] = "none" /\ threads[p] = "none" /\ lowering[p] = <<>>
      /\ lowering[Root] = <<>> /\ \A u \in Paths : p \notin On(lowering[u])
      /\ UNCHANGED <<project, graph, inlinedAt, parallel, faulty,
                     promises, cache, errors, missing, aborted>>
      /\ Own' = Own
      /\ Plan' /\ CloneExact' /\ WorkExact' /\ AstsExact' /\ VisitedKnown'
  BY <1>1, TakenStart
<1>3. threads'[p] = "lowering" /\ \A u \in Paths \ {p} : threads'[u] = threads[u]
  BY <1>1, BuildTypes
<1>4. /\ StacksExact' /\ CachedPast' /\ ErrorsKept' /\ MissedInlined' /\ FailuresReported'
      /\ lowering'[p] # <<>> /\ Bottom(lowering'[p]) = p
      /\ \A u \in Paths \ {p} : lowering'[u] = lowering[u]
  BY <1>1, <1>2, <1>3, FreshStack
<1>5. ThreadsExact'
  <2>1. ThreadsExact
    BY DEF Executing
  <2>2. \A t \in Paths : threads'[t] # "none" => t \in Visited' \cap Own' /\ parallel'
    BY <1>1, <1>2, <1>3, <2>1 DEF ThreadsExact
  <2>3. \A t \in Paths \ {Root} :
          lowering'[t] # <<>> => /\ threads'[t] \in {"lowering", "registered"}
                                 /\ Bottom(lowering'[t]) = t
    BY <1>3, <1>4, <2>1 DEF ThreadsExact
  <2>4. \A t \in Paths : threads'[t] = "registered" => ModuleLowered(t)'
    BY <1>2, <1>3, <1>4, <2>1 DEF ThreadsExact, ModuleLowered, Lowered, LTop, Body
  <2>5. lowering'[Root] = <<>>
    BY <1>2, <1>4, RootAssumption
  <2> QED
    BY <1>1, <1>3, <2>2, <2>3, <2>4, <2>5 DEF ThreadsExact
<1>6. PromisesExact'
  <2>1. \A q \in Paths : cache'[q] = cache[q] /\ promises'[q] = promises[q]
    BY <1>2
  <2>2. \A q \in Paths : q # p => threads'[q] = threads[q]
    BY <1>3
  <2>3. /\ \A q \in Paths : promises'[q] = "running" => threads'[q] # "none"
        /\ \A q \in Paths : promises'[q] = "joined" => threads'[q] \in {"none", "exited"}
    BY <1>2, <1>3, <2>1, <2>2 DEF Executing, PromisesExact
  <2>4. ASSUME NEW q \in Own, promises'[q] = "joined" \/ threads'[q] \in {"registered", "exited"}
        PROVE  Cached(q)'
    <3>1. q # p /\ q \in Paths
      BY <1>2, <1>3, <2>4, PlanFacts DEF Executing
    <3> QED
      BY <2>1, <2>2, <2>4, <3>1 DEF Executing, PromisesExact, Cached
  <2> QED
    BY <1>2, <2>3, <2>4 DEF PromisesExact
<1> QED
  BY <1>1, <1>2, <1>4, <1>5, <1>6 DEF Executing

LEMMA BuildHereFirst ==
  ASSUME Executing, BuildTyped, NEW p \in Paths, BuildHere(p)
  PROVE  Executing'
<1>1. /\ TakeAst(p) /\ mainPc' = "build" /\ subject' = p /\ threads' = threads
      /\ lowering' = [lowering EXCEPT ![Root] = <<LowerFrame(p, inlinedAt)>>]
  BY DEF BuildHere
<1>2. /\ mainPc = "spawn" /\ p \in Own /\ p \in Paths \ {Root}
      /\ p \notin Visited /\ Visited' = Visited \cup {p}
      /\ ~Cached(p) /\ promises[p] = "none" /\ threads[p] = "none" /\ lowering[p] = <<>>
      /\ lowering[Root] = <<>> /\ \A u \in Paths : p \notin On(lowering[u])
      /\ UNCHANGED <<project, graph, inlinedAt, parallel, faulty,
                     promises, cache, errors, missing, aborted>>
      /\ Own' = Own
      /\ Plan' /\ CloneExact' /\ WorkExact' /\ AstsExact' /\ VisitedKnown'
  BY <1>1, TakenStart
<1>3. /\ StacksExact' /\ CachedPast' /\ ErrorsKept' /\ MissedInlined' /\ FailuresReported'
      /\ lowering'[Root] # <<>> /\ Bottom(lowering'[Root]) = p
      /\ \A u \in Paths \ {Root} : lowering'[u] = lowering[u]
  BY <1>1, <1>2, FreshStack, RootAssumption
<1>4. ThreadsExact'
  <2>1. ThreadsExact
    BY DEF Executing
  <2>2. \A t \in Paths : threads'[t] = "registered" => ModuleLowered(t)'
    <3>1. threads[Root] # "registered"
      BY BuildTypes
    <3> QED
      BY <1>1, <1>2, <1>3, <2>1, <3>1 DEF ThreadsExact, ModuleLowered, Lowered, LTop, Body
  <2> QED
    BY <1>1, <1>2, <1>3, <2>1, <2>2 DEF ThreadsExact
<1>5. PromisesExact'
  BY <1>1, <1>2, PromisesKept DEF Executing
<1> QED
  BY <1>1, <1>2, <1>3, <1>4, <1>5 DEF Executing

(* Nothing of the first build is known before it is taken.                  *)
LEMMA NeverKnown ==
  ASSUME Executing, BuildTyped, NEW p \in Paths
  PROVE  ~AlreadyKnown(p)
<1> SUFFICES ASSUME AlreadyKnown(p) PROVE FALSE
  OBVIOUS
<1>1. TakeAncestor(p) /\ p \in asts /\ (Registered(p) \/ Cached(p))
  BY DEF AlreadyKnown, TakeAst
<1>2. mainPc = "spawn"
  BY <1>1, ReadyFacts
<1>3. p \notin Visited
  BY <1>1, <1>2 DEF Executing, AstsExact, Walking, Visited
<1> QED
  BY <1>1, <1>3, ReadyFacts

LEMMA InsertFirst ==
  ASSUME Executing, BuildTyped, InsertPromise
  PROVE  Executing'
<1>1. /\ UNCHANGED <<project, graph, asts, inlines, inlinedAt, parallel, faulty, clone, work,
                     threads, lowering, cache, errors, missing, aborted>>
      /\ mainPc = "insert" /\ mainPc' = "spawn"
      /\ promises' = (IF Registered(subject) THEN promises
                      ELSE [promises EXCEPT ![subject] = "running"])
  BY DEF InsertPromise, resolveVars, inputVars, resultVars
<1>2. Walking /\ Walking' /\ Starting /\ ~Starting'
  BY <1>1 DEF Walking, Starting
<1>3. Plan' /\ Targets' = Targets /\ Own' = Own
  BY <1>1, PlanStays DEF Executing
<1>4. subject \in Visited \cap Own /\ ~Registered(subject) /\ subject \in Paths
      /\ threads[subject] # "none"
  BY <1>1, <1>2, PlanFacts DEF Executing, VisitedKnown, ThreadsExact
<1>5. promises'[subject] = "running" /\ \A q \in Paths \ {subject} : promises'[q] = promises[q]
  BY <1>1, <1>4, BuildTypes
<1>6. Visited' = Visited /\ Opened' = Opened /\ Visited \subseteq Paths
  BY <1>1, PlanFacts DEF Visited, Opened, Executing
<1>7. CloneExact' /\ WorkExact' /\ AstsExact'
  BY <1>1, <1>2, <1>3, <1>6 DEF Executing, CloneExact, WorkExact, AstsExact
<1>8. VisitedKnown'
  BY <1>1, <1>2, <1>4, <1>5, <1>6 DEF Executing, VisitedKnown, Registered, Cached
<1>9. StacksExact' /\ CachedPast'
  BY <1>1, <1>6, StacksKept, PastKept DEF Executing
<1>10. ThreadsExact'
  BY <1>1, <1>3, <1>6 DEF Executing, ThreadsExact, ModuleLowered, Lowered, LTop, Body
<1>11. PromisesExact'
  <2>1. \A q \in Paths \ {subject} :
          q \in Own /\ (promises[q] = "joined" \/ threads[q] \in {"registered", "exited"}) =>
            Cached(q)
    BY DEF Executing, PromisesExact
  <2>2. threads[subject] \in {"registered", "exited"} => Cached(subject)
    BY <1>4 DEF Executing, PromisesExact
  <2> QED
    BY <1>1, <1>3, <1>4, <1>5, <2>1, <2>2 DEF Executing, PromisesExact, Cached
<1>12. ErrorsKept' /\ MissedInlined' /\ FailuresReported'
  BY <1>1, ErrorsStay DEF Executing
<1> QED
  BY <1>1, <1>3, <1>7, <1>8, <1>9, <1>10, <1>11, <1>12 DEF Executing

-----------------------------------------------------------------------------
(* The end of a module that is analysed on its own.                         *)

LEMMA OneFrame ==
  ASSUME BuildTyped, NEW t \in Paths, ModuleLowered(t)
  PROVE  /\ lowering[t] # <<>> /\ Lowered(t) /\ DOMAIN lowering[t] = {1}
         /\ lowering[t][1] = LTop(t) /\ Bottom(lowering[t]) = LTop(t).mod
         /\ On(lowering[t]) = {LTop(t).mod}
         /\ HeldIn(lowering[t], faulty) = ErrsOf(LTop(t))
<1>1. lowering[t] # <<>> /\ Lowered(t) /\ Len(lowering[t]) = 1
  BY DEF ModuleLowered, Lowered
<1>2. DOMAIN lowering[t] = {1} /\ lowering[t][1] = LTop(t)
  BY <1>1, InHandType
<1>3. On(lowering[t]) = {LTop(t).mod}
  BY <1>2 DEF On
<1>4. HeldIn(lowering[t], faulty) = ErrsOf(LTop(t))
  <2>1. HeldIn(lowering[t], faulty)
          = UNION {lowering[t][1].errs \cup (faulty \cap {lowering[t][1].mod})}
    BY <1>2 DEF HeldIn
  <2> QED
    BY <1>2, <2>1 DEF ErrsOf
<1> QED
  BY <1>1, <1>2, <1>3, <1>4 DEF Bottom

(* A module that is lowered is beyond all its imports.                      *)
LEMMA LoweredBeyond ==
  ASSUME Plan, BuildTyped, NEW t \in Paths, Lowered(t), NEW e \in inlinedAt, e[1] = LTop(t).mod
  PROVE  Beyond(lowering[t], e)
<1>1. lowering[t] # <<>> /\ LTop(t).next > Len(Body(LTop(t).mod))
  BY DEF Lowered
<1>2. LTop(t) = lowering[t][1] /\ 1 \in DOMAIN lowering[t] /\ LTop(t).next \in Nat
  BY <1>1, InHandType
<1>3. e[2] \in DOMAIN Body(LTop(t).mod)
  BY DEF Plan, Body, BodyIn
<1>4. Body(LTop(t).mod) \in Seq(Paths)
  BY <1>1, BodyInHand
<1>5. e[2] \in Nat /\ Len(Body(LTop(t).mod)) \in Nat /\ e[2] <= Len(Body(LTop(t).mod))
  BY <1>3, <1>4
<1> QED
  BY <1>1, <1>2, <1>5 DEF Beyond

(* Thread t, which analyses p on its own, is done with it.                  *)
LEMMA PastWhenDone ==
  ASSUME Executing, BuildTyped, NEW t \in Paths, NEW p \in Own, ModuleLowered(t),
         LTop(t).mod = p, UNCHANGED <<project, inlinedAt>>,
         \A q \in Paths \ {p} : cache'[q] = cache[q], Cached(p)',
         lowering' = lowering \/ lowering' = [lowering EXCEPT ![t] = <<>>],
         mainPc' = "done" <=> mainPc = "done"
  PROVE  CachedPast'
<1>1. Plan /\ CachedPast /\ Targets \subseteq Paths /\ Own \cap Targets = {} /\ Own \subseteq Paths
  BY PlanFacts DEF Executing
<1>2. Place' = Place
  BY ImportsStay
<1>3. \A u \in Paths \ {t} : lowering'[u] = lowering[u]
  BY BuildTypes
<1>4. ASSUME NEW e \in inlinedAt PROVE Cached(Place[e])' <=> Past(e)'
  <2>1. Cached(Place[e])' <=> Cached(Place[e])
    BY <1>1, <1>2, PlaceFacts DEF Cached
  <2>2. CASE e[1] = p
    <3>1. Beyond(lowering[t], e)
      BY <1>1, <2>2, OneFrame, LoweredBeyond
    <3>2. Past(e)
      BY <3>1 DEF Past
    <3>3. Past(e)'
      BY <2>2 DEF Past
    <3> QED
      BY <1>1, <2>1, <3>2, <3>3 DEF CachedPast
  <2>3. CASE e[1] # p
    <3>1. ~Beyond(lowering[t], e)
      BY <2>3, OneFrame DEF Beyond
    <3>2. ~Beyond(<<>>, e)
      BY NoFrames DEF Beyond
    <3>3. ~Beyond(lowering'[t], e)
      BY <3>1, <3>2, BuildTypes
    <3>4. e[1] \in Paths
      BY BuildTypes
    <3>5. Past(e)' <=> Past(e)
      BY <1>3, <2>3, <3>1, <3>3, <3>4 DEF Past, Cached
    <3> QED
      BY <1>1, <2>1, <3>5 DEF CachedPast
  <2> QED
    BY <2>2, <2>3
<1> QED
  BY <1>2, <1>4 DEF CachedPast

LEMMA FinishHereFirst ==
  ASSUME Executing, BuildTyped, FinishHere
  PROVE  Executing'
<1>1. /\ UNCHANGED <<project, graph, asts, inlines, inlinedAt, parallel, faulty, clone, work,
                     threads, missing, aborted>>
      /\ mainPc = "build" /\ mainPc' = "spawn" /\ ModuleLowered(Root)
      /\ cache' = [cache EXCEPT ![subject] = Status(LTop(Root))]
      /\ errors' = errors \cup ErrsOf(LTop(Root))
      /\ promises' = [promises EXCEPT ![subject] = "joined"]
      /\ lowering' = [lowering EXCEPT ![Root] = <<>>]
  BY DEF FinishHere, MarkedAsJoined, resolveVars, inputVars, resultVars
<1>2. Walking /\ Walking' /\ Starting /\ ~Starting'
  BY <1>1 DEF Walking, Starting
<1>3. Plan' /\ Place' = Place /\ Targets' = Targets /\ Own' = Own
  BY <1>1, PlanStays DEF Executing
<1>4. subject \in Visited \cap Own /\ ~Registered(subject) /\ subject \in Paths \ {Root}
      /\ threads[subject] = "none" /\ Bottom(lowering[Root]) = subject
  BY <1>1, <1>2, PlanFacts DEF Executing, VisitedKnown, ThreadsExact
<1>5. /\ lowering[Root] # <<>> /\ LTop(Root).mod = subject
      /\ On(lowering[Root]) = {subject}
      /\ HeldIn(lowering[Root], faulty) = ErrsOf(LTop(Root))
      /\ subject \in faulty => subject \in ErrsOf(LTop(Root))
  BY <1>1, <1>4, OneFrame, InHandType, RootAssumption
<1>6. /\ promises'[subject] = "joined" /\ cache'[subject] # "none"
      /\ \A q \in Paths \ {subject} : promises'[q] = promises[q] /\ cache'[q] = cache[q]
  BY <1>1, <1>4, StatusType, BuildTypes
<1>7. lowering'[Root] = <<>> /\ \A u \in Paths \ {Root} : lowering'[u] = lowering[u]
  BY <1>1, BuildTypes, RootAssumption
<1>8. Visited' = Visited /\ Opened' = Opened /\ Visited \subseteq Paths
  BY <1>1, PlanFacts DEF Visited, Opened, Executing
<1>9. CloneExact' /\ WorkExact' /\ AstsExact'
  BY <1>1, <1>2, <1>3, <1>8 DEF Executing, CloneExact, WorkExact, AstsExact
<1>10. VisitedKnown'
  BY <1>1, <1>2, <1>4, <1>6, <1>8 DEF Executing, VisitedKnown, Registered, Cached
<1>11. On(<<>>) = {} /\ NoRepeat(<<>>) /\ Nested(<<>>, Place) /\ HeldIn(<<>>, faulty) = {}
  BY NoFrames DEF On, NoRepeat, Nested, HeldIn
<1>12. StacksExact'
  <2>1. \A u \in Paths \ {Root} : subject \notin On(lowering[u])
    BY <1>5, RootAssumption DEF Executing, StacksExact
  <2>2. StacksExact
    BY DEF Executing
  <2>3. ASSUME NEW u \in Paths, NEW q \in On(lowering'[u]), Cached(q)'
        PROVE  threads'[u] = "registered"
    <3>1. u # Root
      BY <1>7, <1>11, <2>3
    <3>2. q \in On(lowering[u]) /\ q # subject /\ q \in Paths
      BY <1>7, <1>8, <2>1, <2>2, <2>3, <3>1, RootAssumption DEF StacksExact
    <3> QED
      BY <1>1, <1>6, <2>2, <2>3, <3>2 DEF StacksExact, Cached
  <2> QED
    BY <1>1, <1>3, <1>7, <1>8, <1>11, <2>2, <2>3 DEF StacksExact
<1>13. CachedPast'
  BY <1>1, <1>4, <1>5, <1>6, PastWhenDone, RootAssumption DEF Cached
<1>14. ThreadsExact'
  <2>1. \A t \in Paths : threads'[t] = "registered" => ModuleLowered(t)'
    <3>1. threads[Root] # "registered"
      BY BuildTypes
    <3> QED
      BY <1>1, <1>7, <3>1 DEF Executing, ThreadsExact, ModuleLowered, Lowered, LTop, Body
  <2> QED
    BY <1>1, <1>3, <1>7, <1>8, <2>1 DEF Executing, ThreadsExact
<1>15. PromisesExact'
  BY <1>1, <1>3, <1>4, <1>6, PlanFacts DEF Executing, PromisesExact, Cached
<1>16. ErrorsKept' /\ MissedInlined' /\ FailuresReported'
  <2>1. ASSUME NEW q, Noted(q) PROVE Noted(q)'
    <3>1. CASE q \in errors
      BY <1>1, <3>1 DEF Noted
    <3>2. CASE q \in HeldIn(lowering[Root], faulty)
      BY <1>1, <1>5, <3>2 DEF Noted
    <3>3. CASE \E u \in Paths \ {Root} : q \in HeldIn(lowering[u], faulty)
      BY <1>1, <1>7, <3>3 DEF Noted
    <3> QED
      BY <2>1, <3>1, <3>2, <3>3 DEF Noted
  <2>2. ASSUME NEW q, q = subject, q \in faulty PROVE Noted(q)'
    BY <1>1, <1>5, <2>2 DEF Noted
  <2>3. ErrorsKept'
    BY <1>1, <1>4, <1>6, <2>1, <2>2, BuildTypes DEF Executing, ErrorsKept, Cached
  <2> QED
    BY <1>1, <1>3, <2>3 DEF Executing, MissedInlined, FailuresReported
<1> QED
  BY <1>1, <1>3, <1>9, <1>10, <1>12, <1>13, <1>14, <1>15, <1>16 DEF Executing

(* A step of a thread leaves the walk of the main thread alone.             *)
LEMMA WalkKept ==
  ASSUME Executing, BuildTyped, UNCHANGED <<resolveVars, inputVars, mainVars, resultVars>>
  PROVE  /\ UNCHANGED <<project, graph, inlinedAt, parallel, faulty, mainPc, subject, builds,
                        aborted, reported>>
         /\ Plan' /\ Place' = Place /\ Targets' = Targets /\ Own' = Own
         /\ Visited' = Visited /\ CloneExact' /\ WorkExact' /\ AstsExact'
         /\ Opened' = Opened /\ (Starting' <=> Starting) /\ (Walking' <=> Walking)
<1>1. /\ UNCHANGED <<project, graph, asts, inlines, inlinedAt, parallel, faulty, clone, work,
                     mainPc, subject, builds, aborted, reported>>
  BY DEF resolveVars, inputVars, mainVars, resultVars
<1>2. Plan' /\ Place' = Place /\ Targets' = Targets /\ Own' = Own
  BY <1>1, PlanStays DEF Executing
<1>3. Visited' = Visited /\ Opened' = Opened /\ (Starting' <=> Starting) /\ (Walking' <=> Walking)
  BY <1>1 DEF Visited, Opened, Starting, Walking
<1>4. CloneExact' /\ WorkExact' /\ AstsExact'
  BY <1>1, <1>2, <1>3 DEF Executing, CloneExact, WorkExact, AstsExact
<1> QED
  BY <1>1, <1>2, <1>3, <1>4

(* While a thread works, the build has not ended normally.                  *)
LEMMA StillAtWork ==
  ASSUME Executing, BuildTyped, NEW t \in Paths, threads[t] \in {"lowering", "registered"},
         UNCHANGED <<mainPc, aborted, builds>>
  PROVE  FailuresReported'
BY DEF Executing, FailuresReported

LEMMA RegisterFirst ==
  ASSUME Executing, BuildTyped, NEW t \in Paths, RegisterModule(t)
  PROVE  Executing'
<1>1. /\ UNCHANGED <<resolveVars, inputVars, mainVars, resultVars>>
      /\ UNCHANGED <<promises, lowering, errors, missing>>
      /\ t # Root /\ threads[t] = "lowering" /\ ModuleLowered(t)
      /\ cache' = [cache EXCEPT ![t] = Status(LTop(t))]
      /\ threads' = [threads EXCEPT ![t] = "registered"]
  BY DEF RegisterModule
<1>2. /\ UNCHANGED <<project, graph, inlinedAt, parallel, faulty, mainPc, subject, builds,
                     aborted, reported>>
      /\ Plan' /\ Place' = Place /\ Targets' = Targets /\ Own' = Own
      /\ Visited' = Visited /\ CloneExact' /\ WorkExact' /\ AstsExact'
      /\ Opened' = Opened /\ (Starting' <=> Starting) /\ (Walking' <=> Walking)
  BY <1>1, WalkKept
<1>3. t \in Visited \cap Own /\ LTop(t).mod = t
      /\ lowering[t] # <<>> /\ On(lowering[t]) = {t}
      /\ HeldIn(lowering[t], faulty) = ErrsOf(LTop(t)) /\ (t \in faulty => t \in ErrsOf(LTop(t)))
  BY <1>1, OneFrame, InHandType DEF Executing, ThreadsExact
<1>4. /\ cache'[t] # "none" /\ \A q \in Paths \ {t} : cache'[q] = cache[q]
      /\ threads'[t] = "registered" /\ \A q \in Paths \ {t} : threads'[q] = threads[q]
  BY <1>1, StatusType, BuildTypes
<1>5. VisitedKnown'
  BY <1>1, <1>2, <1>3, <1>4 DEF Executing, VisitedKnown, Registered, Cached
<1>6. StacksExact'
  <2>1. StacksExact
    BY DEF Executing
  <2>2. ASSUME NEW u \in Paths, NEW q \in On(lowering'[u]), Cached(q)'
        PROVE  threads'[u] = "registered"
    <3>1. CASE u = t
      BY <1>4, <3>1
    <3>2. CASE u # t
      <4>1. q # t
        BY <1>1, <1>3, <2>1, <2>2, <3>2 DEF StacksExact
      <4>2. q \in Paths
        BY <1>1, <2>1, <2>2, PlanFacts, RootAssumption DEF StacksExact, Visited, Executing
      <4> QED
        BY <1>1, <1>4, <2>1, <2>2, <3>2, <4>1, <4>2 DEF StacksExact, Cached
    <3> QED
      BY <3>1, <3>2
  <2> QED
    BY <1>1, <1>2, <2>1, <2>2 DEF StacksExact
<1>7. CachedPast'
  BY <1>1, <1>2, <1>3, <1>4, PastWhenDone DEF Cached
<1>8. ThreadsExact'
  <2>1. \A u \in Paths : threads'[u] = "registered" => ModuleLowered(u)'
    BY <1>1, <1>2, <1>4 DEF Executing, ThreadsExact, ModuleLowered, Lowered, LTop, Body
  <2> QED
    BY <1>1, <1>2, <1>3, <1>4, <2>1 DEF Executing, ThreadsExact
<1>9. PromisesExact'
  BY <1>1, <1>2, <1>3, <1>4, PlanFacts DEF Executing, PromisesExact, Cached
<1>10. ErrorsKept' /\ MissedInlined'
  <2>1. ASSUME NEW q, Noted(q) PROVE Noted(q)'
    BY <1>1, <1>2, <2>1 DEF Noted
  <2>2. t \in faulty => Noted(t)'
    BY <1>1, <1>2, <1>3 DEF Noted
  <2> QED
    BY <1>1, <1>2, <1>4, <2>1, <2>2, BuildTypes DEF Executing, ErrorsKept, MissedInlined, Cached
<1>11. FailuresReported'
  BY <1>1, <1>2, StillAtWork
<1> QED
  BY <1>2, <1>5, <1>6, <1>7, <1>8, <1>9, <1>10, <1>11 DEF Executing

LEMMA ReportFirst ==
  ASSUME Executing, BuildTyped, NEW t \in Paths, ReportAndExit(t)
  PROVE  Executing'
<1>1. /\ UNCHANGED <<resolveVars, inputVars, mainVars, resultVars>>
      /\ UNCHANGED <<promises, cache, missing>>
      /\ threads[t] = "registered"
      /\ errors' = errors \cup ErrsOf(LTop(t))
      /\ threads' = [threads EXCEPT ![t] = "exited"]
      /\ lowering' = [lowering EXCEPT ![t] = <<>>]
  BY DEF ReportAndExit
<1>2. /\ UNCHANGED <<project, graph, inlinedAt, parallel, faulty, mainPc, subject, builds,
                     aborted, reported>>
      /\ Plan' /\ Place' = Place /\ Targets' = Targets /\ Own' = Own
      /\ Visited' = Visited /\ CloneExact' /\ WorkExact' /\ AstsExact'
      /\ Opened' = Opened /\ (Starting' <=> Starting) /\ (Walking' <=> Walking)
  BY <1>1, WalkKept
<1>3. t # Root /\ ModuleLowered(t) /\ t \in Own
  BY <1>1, BuildTypes DEF Executing, ThreadsExact
<1>4. /\ LTop(t).mod = t /\ Cached(t)
      /\ HeldIn(lowering[t], faulty) = ErrsOf(LTop(t))
  BY <1>1, <1>3, OneFrame DEF Executing, ThreadsExact, PromisesExact
<1>5. /\ lowering'[t] = <<>> /\ \A q \in Paths \ {t} : lowering'[q] = lowering[q]
      /\ threads'[t] = "exited" /\ \A q \in Paths \ {t} : threads'[q] = threads[q]
  BY <1>1, BuildTypes
<1>6. VisitedKnown'
  BY <1>1, <1>2 DEF Executing, VisitedKnown, Registered, Cached
<1>7. StacksExact'
  <2>1. On(<<>>) = {} /\ NoRepeat(<<>>) /\ Nested(<<>>, Place)
    BY NoFrames DEF On, NoRepeat, Nested
  <2> QED
    BY <1>1, <1>2, <1>5, <2>1 DEF Executing, StacksExact, Cached
<1>8. CachedPast'
  BY <1>1, <1>2, <1>3, <1>4, PastWhenDone DEF Cached
<1>9. ThreadsExact'
  <2>1. \A u \in Paths : threads'[u] = "registered" => ModuleLowered(u)'
    BY <1>1, <1>2, <1>5 DEF Executing, ThreadsExact, ModuleLowered, Lowered, LTop, Body
  <2> QED
    BY <1>1, <1>2, <1>3, <1>5, <2>1, RootAssumption DEF Executing, ThreadsExact
<1>10. PromisesExact'
  BY <1>1, <1>2, <1>3, <1>4, <1>5, PlanFacts DEF Executing, PromisesExact, Cached
<1>11. ErrorsKept' /\ MissedInlined'
  <2>1. ASSUME NEW q, Noted(q) PROVE Noted(q)'
    <3>1. CASE q \in errors
      BY <1>1, <3>1 DEF Noted
    <3>2. CASE q \in HeldIn(lowering[t], faulty)
      BY <1>1, <1>4, <3>2 DEF Noted
    <3>3. CASE \E u \in Paths \ {t} : q \in HeldIn(lowering[u], faulty)
      BY <1>2, <1>5, <3>3 DEF Noted
    <3> QED
      BY <2>1, <3>1, <3>2, <3>3 DEF Noted
  <2> QED
    BY <1>1, <1>2, <2>1 DEF Executing, ErrorsKept, MissedInlined, Cached
<1>12. FailuresReported'
  BY <1>1, <1>2, StillAtWork
<1> QED
  BY <1>2, <1>6, <1>7, <1>8, <1>9, <1>10, <1>11, <1>12 DEF Executing

-----------------------------------------------------------------------------
(* The walk is over: everything was started.                                *)
LEMMA WalkOver ==
  ASSUME Executing, BuildTyped, mainPc = "spawn", Len(work) = 1, WTop.pending = {}
  PROVE  /\ asts = {} /\ DOMAIN graph \ {Root} \subseteq Visited
         /\ \A p \in Ancestors(graph, Root) : Registered(p)
<1>1. work # <<>> /\ Walking /\ ~Starting
  BY NoFrames DEF Walking, Starting
<1>2. 1 \in DOMAIN work /\ DOMAIN work = {1} /\ WTop = work[1]
  BY <1>1, WalkFacts
<1>3. DOMAIN clone \subseteq {Root} /\ work[1].inlined = NoPath
  BY <1>2 DEF Executing, WorkExact
<1>4. asts = {} /\ DOMAIN graph \ {Root} \subseteq Visited
  BY <1>1, <1>3 DEF Executing, AstsExact, Visited
<1>5. Opened = {}
  BY <1>2, <1>3 DEF Opened
<1>6. \A p \in Ancestors(graph, Root) : Registered(p)
  BY <1>1, <1>4, <1>5, PlanFacts DEF Executing, VisitedKnown
<1> QED
  BY <1>4, <1>6

LEMMA StartRootFirst ==
  ASSUME Executing, BuildTyped, StartRoot
  PROVE  Executing'
<1>1. mainPc = "spawn" /\ Len(work) = 1 /\ WTop.pending = {} /\ work' = <<>>
      /\ UNCHANGED <<project, graph, inlinedAt, parallel, faulty, clone, promises, threads,
                     cache, errors, missing, aborted>>
  BY DEF StartRoot, inputVars, resultVars
<1>2. DOMAIN graph \ {Root} \subseteq Visited /\ \A p \in Ancestors(graph, Root) : Registered(p)
  BY <1>1, WalkOver
<1>3. mainPc' = "lower" /\ lowering' = [lowering EXCEPT ![Root] = <<LowerFrame(Root, inlinedAt)>>]
  BY <1>2 DEF StartRoot
<1>4. Plan' /\ Place' = Place /\ Targets' = Targets /\ Own' = Own
  BY <1>1, PlanStays DEF Executing
<1>5. Visited' = Visited /\ ~Starting /\ ~Starting' /\ ~Walking' /\ Walking
  BY <1>1, <1>3 DEF Visited, Starting, Walking
<1>6. DOMAIN work' = {}
  BY <1>1, NoFrames
<1>7. CloneExact' /\ WorkExact' /\ AstsExact'
  BY <1>1, <1>5, <1>6 DEF Executing, CloneExact, WorkExact, AstsExact
<1>8. VisitedKnown'
  <2>1. \A p \in Visited : Registered(p)
    <3>1. Visited \subseteq DOMAIN graph \ {Root}
      BY DEF Executing, CloneExact, Visited
    <3> QED
      BY <1>2, <3>1, PlanFacts DEF Executing
  <2> QED
    BY <1>1, <1>2, <1>5, <2>1 DEF Executing, VisitedKnown, Registered, Cached
<1>9. lowering[Root] = <<>> /\ ~Cached(Root) /\ \A u \in Paths : Root \notin On(lowering[u])
  <2>1. lowering[Root] = <<>>
    BY <1>1 DEF Executing, ThreadsExact
  <2>2. ~Cached(Root)
    BY RootAssumption DEF Executing, VisitedKnown, CloneExact
  <2>3. On(<<>>) = {}
    BY NoFrames DEF On
  <2> QED
    BY <2>1, <2>2, <2>3, RootNotOnThreads
<1>10. /\ StacksExact' /\ CachedPast' /\ ErrorsKept' /\ MissedInlined' /\ FailuresReported'
       /\ lowering'[Root] # <<>> /\ Bottom(lowering'[Root]) = Root
       /\ \A u \in Paths \ {Root} : lowering'[u] = lowering[u]
  BY <1>1, <1>3, <1>5, <1>9, FreshStack, RootAssumption
<1>11. ThreadsExact'
  <2>1. \A t \in Paths : threads'[t] = "registered" => ModuleLowered(t)'
    <3>1. threads[Root] # "registered"
      BY BuildTypes
    <3> QED
      BY <1>1, <1>10, <3>1 DEF Executing, ThreadsExact, ModuleLowered, Lowered, LTop, Body
  <2> QED
    BY <1>1, <1>3, <1>4, <1>5, <1>10, <2>1 DEF Executing, ThreadsExact
<1>12. PromisesExact'
  BY <1>1, <1>4, PromisesKept DEF Executing
<1> QED
  BY <1>3, <1>4, <1>7, <1>8, <1>10, <1>11, <1>12 DEF Executing

-----------------------------------------------------------------------------
(* What the steps inside a module do to the modules in hand.                *)

(* The innermost module goes on after an import that was not replaced.      *)
LEMMA AdvanceStack ==
  ASSUME NEW place, DOMAIN place \subseteq Paths \X (Nat \ {0}),
         NEW s \in Seq(LowerFrames), s # <<>>, NoRepeat(s), Nested(s, place),
         NEW f \in LowerFrames, f.mod = s[1].mod, f.next = s[1].next + 1,
         f.inlinedAt = s[1].inlinedAt, s[1].errs \subseteq f.errs,
         <<s[1].mod, s[1].next>> \notin DOMAIN place
  PROVE  LET r == <<f>> \o Tail(s)
         IN  /\ r \in Seq(LowerFrames) /\ r # <<>> /\ On(r) = On(s)
             /\ NoRepeat(r) /\ Nested(r, place) /\ Bottom(r) = Bottom(s)
             /\ \A F : HeldIn(s, F) \cup f.errs \subseteq HeldIn(r, F)
             /\ \A e \in DOMAIN place : Beyond(r, e) <=> Beyond(s, e)
<1> DEFINE r == <<f>> \o Tail(s)
<1>1. /\ Len(s) \in Nat \ {0} /\ DOMAIN s = 1 .. Len(s) /\ 1 \in DOMAIN s
      /\ \A i \in DOMAIN s : s[i] \in LowerFrames
  BY NonEmpty
<1>2. /\ r \in Seq(LowerFrames) /\ Len(r) = Len(s) /\ DOMAIN r = DOMAIN s
      /\ r[1] = f /\ \A i \in DOMAIN s : i > 1 => r[i] = s[i]
  BY ReplacedTop
<1>3. r # <<>>
  BY ReplacedNotEmpty
<1> HIDE DEF r
<1>4. \A i \in DOMAIN s : i = 1 \/ i > 1
  BY <1>1
<1>5. \A i \in DOMAIN s : r[i].mod = s[i].mod /\ r[i].inlinedAt = s[i].inlinedAt
                          /\ s[i].errs \subseteq r[i].errs
  BY <1>2, <1>4
<1>6. On(r) = On(s)
  <2>1. {r[i].mod : i \in DOMAIN r} = {s[i].mod : i \in DOMAIN s}
    BY <1>2, <1>5
  <2> QED
    BY <2>1 DEF On
<1>7. NoRepeat(r)
  BY <1>2, <1>5 DEF NoRepeat
<1>8. Nested(r, place)
  <2> SUFFICES ASSUME NEW i \in DOMAIN r
               PROVE  /\ r[i].inlinedAt = DOMAIN place
                      /\ i < Len(r) => /\ <<r[i + 1].mod, r[i + 1].next>> \in DOMAIN place
                                       /\ r[i].mod = place[<<r[i + 1].mod, r[i + 1].next>>]
    BY DEF Nested
  <2>1. r[i].inlinedAt = DOMAIN place /\ r[i].mod = s[i].mod
    BY <1>2, <1>5 DEF Nested
  <2>2. CASE i < Len(r)
    <3> DEFINE k == i + 1
    <3>1. k \in DOMAIN s /\ k > 1
      BY <1>1, <1>2, <2>2
    <3>2. /\ <<s[k].mod, s[k].next>> \in DOMAIN place
          /\ s[i].mod = place[<<s[k].mod, s[k].next>>]
      BY <1>2, <2>2 DEF Nested
    <3> HIDE DEF k
    <3>3. r[k] = s[k]
      BY <1>2, <3>1
    <3> QED
      BY <2>1, <3>2, <3>3 DEF k
  <2> QED
    BY <2>1, <2>2
<1>9. Bottom(r) = Bottom(s)
  <2>1. Len(s) \in DOMAIN s /\ Len(r) = Len(s)
    BY <1>1, <1>2
  <2>2. r[Len(s)].mod = s[Len(s)].mod
    BY <1>5, <2>1
  <2> QED
    BY <2>1, <2>2 DEF Bottom
<1>10. ASSUME NEW F PROVE HeldIn(s, F) \cup f.errs \subseteq HeldIn(r, F)
  BY <1>1, <1>2, <1>5 DEF HeldIn
<1>11. ASSUME NEW e \in DOMAIN place PROVE Beyond(r, e) <=> Beyond(s, e)
  <2>1. e = <<e[1], e[2]>> /\ e[2] \in Nat
    OBVIOUS
  <2>2. s[1].mod = e[1] => s[1].next # e[2]
    BY <2>1
  <2>3. s[1].next \in Nat
    BY <1>1 DEF LowerFrames
  <2>4. (f.mod = e[1] /\ f.next > e[2]) <=> (s[1].mod = e[1] /\ s[1].next > e[2])
    BY <2>1, <2>2, <2>3
  <2> QED
    BY <1>1, <1>2, <1>4, <2>4 DEF Beyond
<1> QED
  BY <1>2, <1>3, <1>6, <1>7, <1>8, <1>9, <1>10, <1>11 DEF r

(* The module an import was replaced with is put on top.                    *)
LEMMA PushStack ==
  ASSUME NEW place, DOMAIN place \subseteq Paths \X (Nat \ {0}),
         NEW s \in Seq(LowerFrames), s # <<>>, NoRepeat(s), Nested(s, place),
         <<s[1].mod, s[1].next>> \in DOMAIN place, NEW m \in Paths \ On(s),
         m = place[<<s[1].mod, s[1].next>>]
  PROVE  LET r == <<LowerFrame(m, DOMAIN place)>> \o s
         IN  /\ r \in Seq(LowerFrames) /\ r # <<>> /\ On(r) = On(s) \cup {m}
             /\ NoRepeat(r) /\ Nested(r, place) /\ Bottom(r) = Bottom(s)
             /\ \A F : HeldIn(s, F) \subseteq HeldIn(r, F)
             /\ \A e \in DOMAIN place : Beyond(r, e) <=> Beyond(s, e)
<1> DEFINE f == LowerFrame(m, DOMAIN place)
           r == <<f>> \o s
<1>1. /\ Len(s) \in Nat \ {0} /\ DOMAIN s = 1 .. Len(s) /\ 1 \in DOMAIN s
      /\ \A i \in DOMAIN s : s[i] \in LowerFrames
  BY NonEmpty
<1>2. f \in LowerFrames /\ f.mod = m /\ f.next = 1 /\ f.inlinedAt = DOMAIN place
  BY LowerFrameType
<1> HIDE DEF f
<1>3. /\ r \in Seq(LowerFrames) /\ r # <<>> /\ Len(r) = Len(s) + 1
      /\ DOMAIN r = 1 .. Len(s) + 1 /\ r[1] = f /\ \A i \in DOMAIN s : r[i + 1] = s[i]
  BY <1>2, PushedOne
<1> HIDE DEF r
<1>4. ASSUME NEW i \in DOMAIN r, i # 1
      PROVE  i - 1 \in DOMAIN s /\ r[i] = s[i - 1]
  <2> DEFINE k == i - 1
  <2>1. k \in DOMAIN s /\ k + 1 = i
    BY <1>1, <1>3, <1>4
  <2> HIDE DEF k
  <2>2. r[i] = s[k]
    BY <1>3, <2>1
  <2> QED
    BY <2>1, <2>2 DEF k
<1>5. \A i \in DOMAIN s : i + 1 \in DOMAIN r /\ r[i + 1] = s[i]
  BY <1>1, <1>3
<1>6. 1 \in DOMAIN r
  BY <1>1, <1>3
<1>7. On(r) = On(s) \cup {m}
  <2>1. \A i \in DOMAIN r : r[i].mod \in On(s) \cup {m}
    BY <1>2, <1>3, <1>4 DEF On
  <2>2. On(s) \subseteq On(r)
    BY <1>5 DEF On
  <2>3. m \in On(r)
    BY <1>2, <1>3, <1>6 DEF On
  <2> QED
    BY <2>1, <2>2, <2>3 DEF On
<1>8. NoRepeat(r)
  <2> SUFFICES ASSUME NEW i \in DOMAIN r, NEW j \in DOMAIN r, r[i].mod = r[j].mod PROVE i = j
    BY DEF NoRepeat
  <2>1. \A k \in DOMAIN r : k # 1 => r[k].mod # m
    BY <1>4 DEF On
  <2>2. CASE i = 1 \/ j = 1
    BY <1>2, <1>3, <2>1, <2>2
  <2>3. CASE i # 1 /\ j # 1
    <3>1. i - 1 = j - 1
      BY <1>4, <2>3 DEF NoRepeat
    <3> QED
      BY <1>3, <3>1
  <2> QED
    BY <2>2, <2>3
<1>9. Nested(r, place)
  <2> SUFFICES ASSUME NEW i \in DOMAIN r
               PROVE  /\ r[i].inlinedAt = DOMAIN place
                      /\ i < Len(r) => /\ <<r[i + 1].mod, r[i + 1].next>> \in DOMAIN place
                                       /\ r[i].mod = place[<<r[i + 1].mod, r[i + 1].next>>]
    BY DEF Nested
  <2>1. CASE i = 1
    <3>1. r[i + 1] = s[1]
      BY <1>1, <1>5, <2>1
    <3> QED
      BY <1>2, <1>3, <2>1, <3>1
  <2>2. CASE i # 1
    <3> DEFINE k == i - 1
    <3>1. k \in DOMAIN s /\ r[i] = s[k] /\ k + 1 = i
      BY <1>3, <1>4, <2>2
    <3>2. i < Len(r) => k < Len(s) /\ i \in DOMAIN s
      BY <1>1, <1>3, <3>1
    <3> HIDE DEF k
    <3>3. i < Len(r) => r[i + 1] = s[k + 1]
      BY <1>5, <3>1, <3>2
    <3> QED
      BY <3>1, <3>2, <3>3 DEF Nested
  <2> QED
    BY <2>1, <2>2
<1>10. Bottom(r) = Bottom(s)
  <2>1. Len(s) \in DOMAIN s
    BY <1>1
  <2>2. r[Len(s) + 1] = s[Len(s)]
    BY <1>3, <2>1
  <2> QED
    BY <1>3, <2>2 DEF Bottom
<1>11. ASSUME NEW F PROVE HeldIn(s, F) \subseteq HeldIn(r, F)
  BY <1>5 DEF HeldIn
<1>12. ASSUME NEW e \in DOMAIN place PROVE Beyond(r, e) <=> Beyond(s, e)
  <2>1. e[2] \in Nat \ {0}
    OBVIOUS
  <2>2. ~(f.next > e[2])
    BY <1>2, <2>1
  <2>3. Beyond(s, e) => Beyond(r, e)
    BY <1>5 DEF Beyond
  <2>4. ASSUME NEW i \in DOMAIN r, r[i].mod = e[1], r[i].next > e[2] PROVE Beyond(s, e)
    <3>1. i # 1
      BY <1>3, <2>2, <2>4
    <3> DEFINE k == i - 1
    <3>2. k \in DOMAIN s /\ r[i] = s[k]
      BY <1>4, <3>1
    <3> HIDE DEF k
    <3> QED
      BY <2>4, <3>2 DEF Beyond
  <2> QED
    BY <2>3, <2>4 DEF Beyond
<1> QED
  BY <1>3, <1>7, <1>8, <1>9, <1>10, <1>11, <1>12 DEF r, f

(* The innermost module is done, and its importer goes on.                  *)
LEMMA MergeStack ==
  ASSUME NEW place, DOMAIN place \subseteq Paths \X (Nat \ {0}),
         NEW s \in Seq(LowerFrames), s # <<>>, Len(s) > 1, NoRepeat(s), Nested(s, place),
         NEW f \in LowerFrames, f.mod = s[2].mod, f.next = s[2].next + 1, NEW F,
         f.errs = s[2].errs \cup s[1].errs \cup (F \cap {s[1].mod}),
         f.inlinedAt = s[2].inlinedAt
  PROVE  LET r == <<f>> \o SubSeq(s, 3, Len(s))
         IN  /\ r \in Seq(LowerFrames) /\ r # <<>> /\ On(r) \subseteq On(s)
             /\ s[1].mod \notin On(r)
             /\ NoRepeat(r) /\ Nested(r, place) /\ Bottom(r) = Bottom(s)
             /\ HeldIn(s, F) \subseteq HeldIn(r, F)
             /\ \A e \in DOMAIN place :
                  e[1] # s[1].mod =>
                    (Beyond(r, e) <=> Beyond(s, e) \/ e = <<s[2].mod, s[2].next>>)
<1> DEFINE r == <<f>> \o SubSeq(s, 3, Len(s))
<1>1. /\ Len(s) \in Nat \ {0} /\ DOMAIN s = 1 .. Len(s) /\ 1 \in DOMAIN s /\ 2 \in DOMAIN s
      /\ \A i \in DOMAIN s : s[i] \in LowerFrames
  BY NonEmpty
<1>2. /\ r \in Seq(LowerFrames) /\ r # <<>>
      /\ Len(r) = Len(s) - 1 /\ DOMAIN r = 1 .. Len(s) - 1
      /\ r[1] = f /\ \A i \in DOMAIN r : i > 1 => r[i] = s[i + 1]
  BY MergedTop
<1> HIDE DEF r
<1>3. \A i \in DOMAIN r : /\ i + 1 \in DOMAIN s /\ i + 1 # 1
                          /\ r[i].mod = s[i + 1].mod /\ r[i].inlinedAt = s[i + 1].inlinedAt
                          /\ s[i + 1].errs \subseteq r[i].errs
  <2> TAKE i \in DOMAIN r
  <2>1. i + 1 \in DOMAIN s /\ i + 1 # 1 /\ (i = 1 \/ i > 1)
    BY <1>1, <1>2
  <2>2. CASE i = 1
    BY <1>2, <2>1, <2>2
  <2>3. CASE i > 1
    BY <1>2, <2>1, <2>3
  <2> QED
    BY <2>1, <2>2, <2>3
<1>4. On(r) \subseteq On(s) /\ s[1].mod \notin On(r)
  BY <1>1, <1>3 DEF On, NoRepeat
<1>5. NoRepeat(r)
  <2> SUFFICES ASSUME NEW i \in DOMAIN r, NEW j \in DOMAIN r, r[i].mod = r[j].mod PROVE i = j
    BY DEF NoRepeat
  <2>1. i + 1 = j + 1
    BY <1>3 DEF NoRepeat
  <2> QED
    BY <1>2, <2>1
<1>6. Nested(r, place)
  <2> SUFFICES ASSUME NEW i \in DOMAIN r
               PROVE  /\ r[i].inlinedAt = DOMAIN place
                      /\ i < Len(r) => /\ <<r[i + 1].mod, r[i + 1].next>> \in DOMAIN place
                                       /\ r[i].mod = place[<<r[i + 1].mod, r[i + 1].next>>]
    BY DEF Nested
  <2> DEFINE k == i + 1
             l == k + 1
  <2>1. k \in DOMAIN s /\ r[i].mod = s[k].mod /\ r[i].inlinedAt = s[k].inlinedAt
    BY <1>3
  <2>2. i < Len(r) => k \in DOMAIN r /\ k > 1 /\ k < Len(s)
    BY <1>1, <1>2
  <2>3. i < Len(r) => r[k] = s[l]
    BY <1>2, <2>2
  <2>4. k < Len(s) => <<s[l].mod, s[l].next>> \in DOMAIN place /\ s[k].mod = place[<<s[l].mod, s[l].next>>]
    BY <2>1 DEF Nested
  <2>5. s[k].inlinedAt = DOMAIN place
    BY <2>1 DEF Nested
  <2> HIDE DEF l
  <2> QED
    BY <2>1, <2>2, <2>3, <2>4, <2>5
<1>7. Bottom(r) = Bottom(s)
  <2>1. Len(r) \in DOMAIN r /\ Len(r) + 1 = Len(s)
    BY <1>1, <1>2
  <2> QED
    BY <1>3, <2>1 DEF Bottom
<1>8. \A i \in DOMAIN s : i # 1 => \E k \in DOMAIN r : k + 1 = i
  <2> SUFFICES ASSUME NEW i \in DOMAIN s, i # 1 PROVE \E k \in DOMAIN r : k + 1 = i
    OBVIOUS
  <2>1. i - 1 \in DOMAIN r /\ (i - 1) + 1 = i
    BY <1>1, <1>2
  <2> QED
    BY <2>1
<1>9. HeldIn(s, F) \subseteq HeldIn(r, F)
  <2> SUFFICES ASSUME NEW i \in DOMAIN s, NEW q \in s[i].errs \cup (F \cap {s[i].mod})
               PROVE  q \in HeldIn(r, F)
    BY DEF HeldIn
  <2>1. CASE i = 1
    <3>1. q \in r[1].errs /\ 1 \in DOMAIN r
      BY <1>1, <1>2, <2>1
    <3> QED
      BY <3>1 DEF HeldIn
  <2>2. CASE i # 1
    <3>1. PICK k \in DOMAIN r : k + 1 = i
      BY <1>8, <2>2
    <3>2. q \in r[k].errs \cup (F \cap {r[k].mod})
      BY <1>3, <3>1
    <3> QED
      BY <3>2 DEF HeldIn
  <2> QED
    BY <2>1, <2>2
<1>10. ASSUME NEW e \in DOMAIN place, e[1] # s[1].mod
       PROVE  Beyond(r, e) <=> Beyond(s, e) \/ e = <<s[2].mod, s[2].next>>
  <2>1. e = <<e[1], e[2]>> /\ e[2] \in Nat /\ s[2].next \in Nat
    BY <1>1 DEF LowerFrames
  <2>2. (f.mod = e[1] /\ f.next > e[2])
          <=> (s[2].mod = e[1] /\ s[2].next > e[2]) \/ e = <<s[2].mod, s[2].next>>
    BY <2>1
  <2>3. ASSUME Beyond(r, e) PROVE Beyond(s, e) \/ e = <<s[2].mod, s[2].next>>
    <3>1. PICK i \in DOMAIN r : r[i].mod = e[1] /\ r[i].next > e[2]
      BY <2>3 DEF Beyond
    <3>2. CASE i = 1
      BY <1>1, <1>2, <2>2, <3>1, <3>2 DEF Beyond
    <3>3. CASE i > 1
      <4> DEFINE k == i + 1
      <4>1. k \in DOMAIN s /\ r[i] = s[k]
        BY <1>2, <1>3, <3>3
      <4> HIDE DEF k
      <4> QED
        BY <3>1, <4>1 DEF Beyond
    <3> QED
      BY <1>2, <3>2, <3>3
  <2>4. ASSUME e = <<s[2].mod, s[2].next>> PROVE Beyond(r, e)
    BY <1>1, <1>2, <2>2, <2>4 DEF Beyond
  <2>5. ASSUME Beyond(s, e) PROVE Beyond(r, e)
    <3>1. PICK i \in DOMAIN s : s[i].mod = e[1] /\ s[i].next > e[2]
      BY <2>5 DEF Beyond
    <3>2. i # 1
      BY <1>10, <3>1
    <3>3. PICK k \in DOMAIN r : k + 1 = i
      BY <1>8, <3>2
    <3>4. CASE k = 1
      <4>1. i = 2
        BY <3>3, <3>4
      <4> QED
        BY <1>1, <1>2, <2>2, <3>1, <3>3, <3>4, <4>1 DEF Beyond
    <3>5. CASE k > 1
      <4>1. r[k] = s[i]
        BY <1>2, <3>3, <3>5
      <4> QED
        BY <3>1, <4>1 DEF Beyond
    <3> QED
      BY <1>2, <3>4, <3>5
  <2> QED
    BY <2>3, <2>4, <2>5
<1> QED
  BY <1>2, <1>4, <1>5, <1>6, <1>7, <1>9, <1>10 DEF r

-----------------------------------------------------------------------------
(* What the threads meet.                                                   *)

LEMMA BottomFacts ==
  ASSUME Executing, BuildTyped, NEW t \in Paths, lowering[t] # <<>>
  PROVE  /\ Bottom(lowering[t]) \in On(lowering[t]) /\ Bottom(lowering[t]) \in Own \cup {Root}
         /\ Bottom(lowering[t]) \notin Targets
         /\ t # Root => Bottom(lowering[t]) = t /\ t \in Own
         /\ Bottom(lowering[t]) = Root => t = Root /\ mainPc = "lower"
<1>1. Len(lowering[t]) \in DOMAIN lowering[t]
  BY InHandType
<1>2. Bottom(lowering[t]) \in On(lowering[t])
  BY <1>1 DEF Bottom, On
<1>3. Own \cap Targets = {} /\ Root \notin Targets /\ Root \notin Own
  BY PlanFacts DEF Executing
<1>4. CASE t # Root
  <2>1. Bottom(lowering[t]) = t /\ threads[t] # "none"
    BY <1>4 DEF Executing, ThreadsExact
  <2>2. t \in Own
    BY <2>1 DEF Executing, ThreadsExact
  <2> QED
    BY <1>2, <1>3, <1>4, <2>1, <2>2
<1>5. CASE t = Root
  <2>1. mainPc \in {"build", "lower"}
    BY <1>5 DEF Executing, ThreadsExact
  <2>2. CASE mainPc = "build"
    <3>1. Bottom(lowering[t]) = subject /\ subject \in Own
      BY <1>5, <2>2 DEF Executing, ThreadsExact, VisitedKnown, Starting
    <3> QED
      BY <1>2, <1>3, <1>5, <3>1
  <2>3. CASE mainPc = "lower"
    <3>1. Bottom(lowering[t]) = Root
      BY <1>5, <2>3 DEF Executing, ThreadsExact
    <3> QED
      BY <1>2, <1>3, <1>5, <2>3, <3>1
  <2> QED
    BY <2>1, <2>2, <2>3
<1> QED
  BY <1>4, <1>5

LEMMA RootInHand ==
  ASSUME Executing, BuildTyped, NEW t \in Paths, Root \in On(lowering[t])
  PROVE  t = Root /\ mainPc = "lower"
<1>1. PICK i \in DOMAIN lowering[t] : lowering[t][i].mod = Root
  BY DEF On
<1>2. lowering[t] # <<>>
  BY <1>1, NoFrames
<1>3. i = Len(lowering[t])
  <2>1. Root \notin Targets
    BY PlanFacts DEF Executing
  <2> QED
    BY <1>1, <2>1, InlinedOnStack
<1>4. Bottom(lowering[t]) = Root
  BY <1>1, <1>3 DEF Bottom
<1> QED
  BY <1>2, <1>4, BottomFacts

(* What a module in hand imports was visited before.                        *)
LEMMA InHandImports ==
  ASSUME Executing, BuildTyped, NEW t \in Paths, NEW m \in On(lowering[t])
  PROVE  /\ m \in Visited \cup {Root} /\ m \in Paths /\ m \in DOMAIN graph \cup {Root}
         /\ Parents(graph, m) \subseteq Visited
<1>1. m \in Visited \cup {Root}
  BY DEF Executing, StacksExact
<1>2. Visited \subseteq DOMAIN graph /\ DOMAIN graph \subseteq Paths
  BY PlanFacts DEF Executing, Visited
<1>3. CASE m \in Visited
  BY <1>1, <1>2, <1>3 DEF Executing, CloneExact
<1>4. CASE m = Root
  <2>1. mainPc = "lower"
    BY <1>4, RootInHand
  <2>2. DOMAIN graph \ {Root} \subseteq Visited
    BY <2>1 DEF Executing, VisitedKnown, Walking
  <2> QED
    BY <1>1, <1>2, <1>4, <2>2, RootAssumption DEF Executing, Plan
<1> QED
  BY <1>1, <1>3, <1>4

(* The module a thread is at is not analysed yet.                           *)
LEMMA AtWork ==
  ASSUME Executing, BuildTyped, NEW t \in Paths, lowering[t] # <<>>
  PROVE  /\ LTop(t).mod \in On(lowering[t])
         /\ t # Root => threads[t] \in {"lowering", "registered"}
         /\ t = Root => mainPc \in {"build", "lower"}
         /\ ~ModuleLowered(t) => /\ threads[t] # "registered"
                                 /\ \A m \in On(lowering[t]) : ~Cached(m)
<1>1. LTop(t).mod \in On(lowering[t])
  BY InHandType DEF On
<1> QED
  BY <1>1 DEF Executing, ThreadsExact, StacksExact

(* ... nor is the import it is at behind anybody.                           *)
LEMMA TopNotPast ==
  ASSUME Executing, BuildTyped, NEW t \in Paths, lowering[t] # <<>>, ~ModuleLowered(t),
         <<LTop(t).mod, LTop(t).next>> \in inlinedAt
  PROVE  ~Past(<<LTop(t).mod, LTop(t).next>>)
<1> DEFINE m == LTop(t).mod
           n == LTop(t).next
           e == <<m, n>>
<1>1. m \in On(lowering[t]) /\ ~Cached(m)
  BY AtWork
<1>2. LTop(t) = lowering[t][1] /\ 1 \in DOMAIN lowering[t] /\ n \in Nat
  BY InHandType
<1>3. ASSUME NEW u \in Paths, Beyond(lowering[u], e) PROVE FALSE
  <2>1. PICK i \in DOMAIN lowering[u] : lowering[u][i].mod = m /\ lowering[u][i].next > n
    BY <1>3 DEF Beyond
  <2>2. m \in On(lowering[u])
    BY <2>1 DEF On
  <2>3. u = t
    BY <1>1, <2>2 DEF Executing, StacksExact
  <2>4. i = 1
    BY <1>2, <2>1, <2>3 DEF Executing, StacksExact, NoRepeat
  <2> QED
    BY <1>2, <2>1, <2>3, <2>4
<1>4. ~(m = Root /\ mainPc = "done")
  BY <1>1, RootInHand
<1> QED
  BY <1>1, <1>3, <1>4 DEF Past

(* A thread that has put a module on top of another has, below it, all the  *)
(* modules it is inlined into.                                              *)
LEMMA StackGrounded ==
  ASSUME Executing, BuildTyped, NEW t \in Paths, NEW m \in On(lowering[t])
  PROVE  Ancestors(PlaceGraph, m) \subseteq On(lowering[t])
<1> DEFINE S == On(lowering[t])
<1>1. S \in SUBSET Paths
  BY InHandImports
<1>2. ASSUME NEW q \in S PROVE Parents(PlaceGraph, q) \subseteq S
  <2>1. CASE q \in Targets
    <3>1. PICK i \in DOMAIN lowering[t] : lowering[t][i].mod = q
      BY DEF On
    <3>2. lowering[t] # <<>>
      BY <3>1, NoFrames
    <3>3. i # Len(lowering[t])
      BY <2>1, <3>1, <3>2, BottomFacts DEF Bottom
    <3> DEFINE k == i + 1
               d == <<lowering[t][k].mod, lowering[t][k].next>>
    <3>4. k \in DOMAIN lowering[t] /\ d \in inlinedAt /\ q = Place[d]
      BY <3>1, <3>3, InlinedOnStack
    <3>5. d[1] \in S
      BY <3>4 DEF On
    <3> HIDE DEF d, k
    <3>6. Parents(PlaceGraph, q) = {e[1] : e \in {x \in inlinedAt : Place[x] = q}}
      BY <2>1 DEF Parents, PlaceGraph
    <3>7. \A e \in inlinedAt : Place[e] = q => e = d
      BY <3>4 DEF Executing, Plan
    <3> QED
      BY <3>5, <3>6, <3>7
  <2>2. CASE q \notin Targets
    BY <2>2 DEF Parents, PlaceGraph
  <2> QED
    BY <2>1, <2>2
<1>3. Closed(PlaceGraph, S)
  BY <1>2 DEF Closed
<1> HIDE DEF S
<1>4. Ancestors(PlaceGraph, m) \subseteq S
  BY <1>1, <1>2, <1>3, AncestorsLeast DEF S
<1> QED
  BY <1>4 DEF S

(* A thread that meets an import it has not on its stack depends on it, and *)
(* never the other way round; it was visited, and if it has an AST of its   *)
(* own it was registered.                                                   *)
LEMMA Met ==
  ASSUME Executing, BuildTyped, NEW t \in Paths, Lowering(t), ~IsInlined(t),
         ~OnStack(t, LImport(t))
  PROVE  /\ LImport(t) \in Paths /\ LImport(t) \in Visited
         /\ DeepDependsOn(graph, CurrentPath(t), LImport(t))
         /\ ~NoNeedToJoin(CurrentPath(t), LImport(t))
         /\ LImport(t) \notin Targets => LImport(t) \in Own /\ Registered(LImport(t))
<1> DEFINE m == LTop(t).mod
           p == LImport(t)
           b == Bottom(lowering[t])
           S == On(lowering[t])
<1>1. lowering[t] # <<>> /\ m \in S /\ b \in S
  BY AtWork, BottomFacts DEF Lowering
<1>2. p \in Paths /\ LTop(t).next \in DOMAIN Body(m) /\ p = Body(m)[LTop(t).next]
  BY <1>1, BodyInHand DEF LImport
<1>3. p \notin S
  BY DEF OnStack, On
<1>4. m \in Visited \cup {Root} /\ m \in Paths /\ m \in DOMAIN graph \cup {Root}
      /\ Parents(graph, m) \subseteq Visited
  BY <1>1, InHandImports
<1>5. DependsOn(graph, m, p)
  <2>1. p \in Imported(project, m) \ {m}
    <3>1. m \notin project.unparsed
      BY <1>2 DEF Body
    <3> QED
      BY <1>1, <1>2, <1>3, <3>1 DEF Imported, Body
  <2>2. Ancestors(PlaceGraph, m) \subseteq S
    BY <1>1, StackGrounded
  <2> HIDE DEF m, p, S
  <2> QED
    BY <1>3, <1>4, <2>1, <2>2 DEF Executing, Plan
<1>6. p \in Parents(graph, m) /\ p \in Visited
  BY <1>4, <1>5 DEF DependsOn
<1>7. WithinPaths(graph) /\ Acyclic(graph) /\ Plan
  BY DEF Executing, Plan
<1>8. p \in Ancestors(graph, b)
  <2>1. m \in {b} \cup Ancestors(graph, b)
    BY <1>1 DEF Executing, StacksExact
  <2>2. p \in Ancestors(graph, m)
    BY <1>6, <1>7, AncestorsHaveParents
  <2> QED
    BY <1>7, <2>1, <2>2, AncestorsTransitive
<1>9. p \in DOMAIN graph \ {Root}
  BY <1>4, <1>6, <1>7 DEF Plan
<1> DEFINE c == CurrentPath(t)
<1>10. c \in {b, Root} /\ c \in Paths
  <2>1. b \in Paths
    BY <1>1, InHandImports
  <2> QED
    BY <2>1, RootAssumption DEF CurrentPath, LBottom, Bottom
<1>11. p \in Ancestors(graph, c)
  BY <1>7, <1>8, <1>9, <1>10, PlanFacts
<1> HIDE DEF c, m, p, b, S
<1>12. ~NoNeedToJoin(c, p)
  <2>1. c \notin Ancestors(graph, c)
    BY <1>7, <1>10 DEF Acyclic, DeepDependsOn
  <2>2. c \notin Ancestors(graph, p)
    BY <1>7, <1>11, <2>1, AncestorsTransitive
  <2> QED
    BY <1>11, <2>1, <2>2 DEF NoNeedToJoin, DeepDependsOn
<1>13. p \notin Targets => p \in Own /\ Registered(p)
  <2> SUFFICES ASSUME p \notin Targets PROVE p \in Own /\ Registered(p)
    OBVIOUS
  <2>1. p \in Own
    BY <1>9 DEF Own
  <2>2. p \notin Opened
    <3>1. \A i \in DOMAIN work : work[i].inlined = NoPath \/ work[i].inlined \in Targets
      BY DEF Executing, WorkExact
    <3> QED
      BY <3>1 DEF Opened
  <2>3. ~(Starting /\ p = subject)
    <3> SUFFICES ASSUME Starting, p = subject PROVE FALSE
      OBVIOUS
    <3>1. m # Root
      BY <1>1, RootInHand DEF S, Starting
    <3>2. subject \notin Parents(graph, m)
      BY <1>4, <3>1 DEF Executing, VisitedKnown
    <3> QED
      BY <1>6, <3>2
  <2> QED
    BY <1>6, <2>1, <2>2, <2>3 DEF Executing, VisitedKnown
<1> QED
  BY <1>2, <1>6, <1>11, <1>12, <1>13 DEF c, p, DeepDependsOn

(* As long as anybody has a module in hand, the build has not ended well.   *)
LEMMA NobodyDone ==
  ASSUME Executing, BuildTyped, NEW t \in Paths, lowering[t] # <<>>,
         UNCHANGED <<mainPc, aborted, builds>>
  PROVE  FailuresReported'
<1>1. CASE t = Root
  BY <1>1, AtWork DEF FailuresReported
<1>2. CASE t # Root
  BY <1>2, AtWork, StillAtWork
<1> QED
  BY <1>1, <1>2

(* The stack of t changes in a way that keeps its shape.                    *)
LEMMA StackChanged ==
  ASSUME Executing, BuildTyped, NEW t \in Paths, NEW r \in Seq(LowerFrames),
         lowering[t] # <<>>, r # <<>>, lowering' = [lowering EXCEPT ![t] = r],
         UNCHANGED <<resolveVars, inputVars, mainVars, resultVars, threads>>,
         ~ModuleLowered(t),
         NoRepeat(r), Nested(r, Place), Bottom(r) = Bottom(lowering[t]),
         \A m \in On(r) :
           /\ m \in On(lowering[t]) \/ (m \in Targets \cap Visited
                                        /\ \A u \in Paths : m \notin On(lowering[u]))
           /\ m \in {Bottom(r)} \cup Ancestors(graph, Bottom(r))
           /\ cache'[m] = "none",
         \A u \in Paths \ {t} : \A m \in On(lowering[u]) : Cached(m)' => Cached(m)
  PROVE  StacksExact' /\ ThreadsExact'
<1>1. lowering'[t] = r /\ \A u \in Paths \ {t} : lowering'[u] = lowering[u]
  BY NewStack
<1>2. /\ UNCHANGED <<project, graph, inlinedAt, parallel, faulty, mainPc, subject>>
      /\ Place' = Place /\ Own' = Own /\ Visited' = Visited
  BY WalkKept
<1>3. StacksExact /\ ThreadsExact
  BY DEF Executing
<1>4. StacksExact'
  <2>1. ASSUME NEW u \in Paths PROVE NoRepeat(lowering'[u]) /\ Nested(lowering'[u], Place')
    BY <1>1, <1>2, <1>3 DEF StacksExact
  <2>2. ASSUME NEW u \in Paths
        PROVE  LET b == Bottom(lowering'[u])
               IN  On(lowering'[u]) \subseteq {b} \cup Ancestors(graph', b)
    BY <1>1, <1>2, <1>3 DEF StacksExact
  <2>3. ASSUME NEW u \in Paths, u # t PROVE On(r) \cap On(lowering[u]) = {}
    <3>1. On(lowering[t]) \cap On(lowering[u]) = {}
      BY <1>3, <2>3 DEF StacksExact
    <3> QED
      BY <3>1
  <2>4. ASSUME NEW u \in Paths, NEW v \in Paths, u # v
        PROVE  On(lowering'[u]) \cap On(lowering'[v]) = {}
    <3>1. CASE u = t
      BY <1>1, <2>3, <2>4, <3>1
    <3>2. CASE v = t
      BY <1>1, <2>3, <2>4, <3>2
    <3>3. CASE u # t /\ v # t
      BY <1>1, <1>3, <2>4, <3>3 DEF StacksExact
    <3> QED
      BY <3>1, <3>2, <3>3
  <2>5. ASSUME NEW u \in Paths PROVE On(lowering'[u]) \subseteq Visited' \cup {Root}
    <3>1. On(lowering[u]) \subseteq Visited \cup {Root}
      BY <1>3 DEF StacksExact
    <3> QED
      BY <1>1, <1>2, <3>1
  <2>6. ASSUME NEW u \in Paths, NEW m \in On(lowering'[u]), Cached(m)'
        PROVE  threads'[u] = "registered"
    <3>1. u # t
      BY <1>1, <2>6 DEF Cached
    <3>2. m \in On(lowering[u]) /\ Cached(m)
      BY <1>1, <2>6, <3>1
    <3> QED
      BY <1>3, <3>2 DEF StacksExact
  <2> QED
    BY <2>1, <2>2, <2>4, <2>5, <2>6 DEF StacksExact
<1>5. ThreadsExact'
  <2>1. ASSUME NEW u \in Paths, threads'[u] = "registered" PROVE ModuleLowered(u)'
    <3>1. ModuleLowered(u) /\ u # t
      BY <1>3, <2>1 DEF ThreadsExact
    <3> QED
      BY <1>1, <1>2, <3>1 DEF ModuleLowered, Lowered, LTop, Body
  <2> QED
    BY <1>1, <1>2, <1>3, <2>1, RootAssumption DEF ThreadsExact
<1> QED
  BY <1>4, <1>5

LEMMA EnterInlineFirst ==
  ASSUME Executing, BuildTyped, NEW t \in Paths, EnterInline(t)
  PROVE  Executing'
<1> DEFINE m == LTop(t).mod
           e == <<m, LTop(t).next>>
           p == LImport(t)
           s == lowering[t]
           r == <<LowerFrame(p, inlinedAt)>> \o s
<1>1. /\ UNCHANGED <<resolveVars, inputVars, mainVars, resultVars>>
      /\ UNCHANGED <<promises, threads, cache, errors, missing>>
      /\ Lowering(t) /\ IsInlined(t)
  BY DEF EnterInline
<1>2. s # <<>> /\ ~ModuleLowered(t) /\ s \in Seq(LowerFrames)
      /\ LTop(t) = s[1] /\ 1 \in DOMAIN s
  BY <1>1, InHandType, BodyInHand DEF Lowering, ModuleLowered
<1>3. NoRepeat(s) /\ Nested(s, Place) /\ DOMAIN Place = inlinedAt
      /\ inlinedAt \subseteq Paths \X (Nat \ {0})
  BY PlaceFacts, BuildTypes DEF Executing, StacksExact
<1>4. LTop(t).inlinedAt = inlinedAt /\ e \in inlinedAt /\ lowering' = [lowering EXCEPT ![t] = r]
  <2>1. LTop(t).inlinedAt = inlinedAt
    BY <1>2, <1>3 DEF Nested
  <2> QED
    BY <1>1, <2>1 DEF IsInlined, EnterInline
<1>5. p = Place[e] /\ p \in Targets /\ p \in Paths
  <2>1. Place[e] = BodyIn(project, m)[LTop(t).next] /\ Place[e] \in Targets
    BY <1>4, PlaceFacts
  <2> QED
    BY <2>1, PlanFacts DEF LImport, Body, BodyIn, Executing
<1>6. m \in On(s) /\ ~Cached(m)
  BY <1>2, AtWork
<1>7. ~Cached(p)
  <2>1. ~Past(e)
    BY <1>2, <1>4, TopNotPast
  <2> QED
    BY <1>4, <1>5, <2>1 DEF Executing, CachedPast
<1>8. p \in Parents(graph, m) /\ p \in Visited
  <2>1. DependsOn(graph, e[1], Place[e])
    BY <1>4 DEF Executing, Plan
  <2>2. Parents(graph, m) \subseteq Visited
    BY <1>6, InHandImports
  <2> QED
    BY <1>5, <2>1, <2>2 DEF DependsOn
<1>9. ASSUME NEW u \in Paths PROVE p \notin On(lowering[u])
  <2> SUFFICES ASSUME NEW i \in DOMAIN lowering[u], lowering[u][i].mod = p PROVE FALSE
    BY DEF On
  <2>1. lowering[u] # <<>>
    BY NoFrames
  <2>2. i # Len(lowering[u])
    BY <1>5, <2>1, BottomFacts DEF Bottom
  <2> DEFINE k == i + 1
             d == <<lowering[u][k].mod, lowering[u][k].next>>
  <2>3. k \in DOMAIN lowering[u] /\ d \in inlinedAt /\ p = Place[d]
    BY <2>2, InlinedOnStack
  <2>4. d = e
    BY <1>4, <1>5, <2>3 DEF Executing, Plan
  <2>5. lowering[u][k].mod = m
    BY <2>4
  <2>6. k # 1
    BY <2>1, InHandType
  <2> HIDE DEF k, d
  <2>7. u = t
    <3>1. m \in On(lowering[u])
      BY <2>3, <2>5 DEF On
    <3> QED
      BY <1>6, <3>1 DEF Executing, StacksExact
  <2>8. k = 1
    BY <1>2, <1>3, <2>3, <2>5, <2>7 DEF NoRepeat
  <2> QED
    BY <2>6, <2>8
<1>10. p \in {Bottom(s)} \cup Ancestors(graph, Bottom(s))
  <2>1. m \in {Bottom(s)} \cup Ancestors(graph, Bottom(s))
    BY <1>6 DEF Executing, StacksExact
  <2>2. WithinPaths(graph)
    BY DEF Executing, Plan
  <2>3. p \in Ancestors(graph, m)
    BY <1>8, <2>2, AncestorsHaveParents
  <2> QED
    BY <2>1, <2>2, <2>3, AncestorsTransitive
<1> HIDE DEF s, m, p, e
<1>11. /\ r \in Seq(LowerFrames) /\ r # <<>> /\ On(r) = On(s) \cup {p}
       /\ NoRepeat(r) /\ Nested(r, Place) /\ Bottom(r) = Bottom(s)
       /\ \A F : HeldIn(s, F) \subseteq HeldIn(r, F)
       /\ \A d \in inlinedAt : Beyond(r, d) <=> Beyond(s, d)
  <2>1. <<s[1].mod, s[1].next>> = e
    BY <1>2 DEF e, m
  <2>2. p \in Paths \ On(s)
    BY <1>5, <1>9 DEF s
  <2> QED
    BY <1>2, <1>3, <1>4, <1>5, <2>1, <2>2, PushStack
<1> HIDE DEF r
<1>12. /\ UNCHANGED <<project, graph, inlinedAt, parallel, faulty, mainPc, subject, builds,
                      aborted, reported>>
       /\ Plan' /\ Place' = Place /\ Targets' = Targets /\ Own' = Own
       /\ Visited' = Visited /\ CloneExact' /\ WorkExact' /\ AstsExact'
       /\ Opened' = Opened /\ (Starting' <=> Starting) /\ (Walking' <=> Walking)
  BY <1>1, WalkKept
<1>13. lowering'[t] = r /\ \A u \in Paths \ {t} : lowering'[u] = lowering[u]
  BY <1>4, <1>11, NewStack
<1>14. VisitedKnown'
  BY <1>1, <1>12 DEF Executing, VisitedKnown, Registered, Cached
<1>15. StacksExact' /\ ThreadsExact'
  <2>1. \A q \in On(s) : /\ q \in {Bottom(s)} \cup Ancestors(graph, Bottom(s)) /\ ~Cached(q)
    BY <1>2, AtWork DEF Executing, StacksExact, s
  <2>2. \A q \in On(r) :
          /\ q \in On(s) \/ (q \in Targets \cap Visited
                             /\ \A u \in Paths : q \notin On(lowering[u]))
          /\ q \in {Bottom(r)} \cup Ancestors(graph, Bottom(r))
          /\ cache'[q] = "none"
    BY <1>1, <1>5, <1>7, <1>8, <1>9, <1>10, <1>11, <2>1 DEF Cached
  <2>3. \A u \in Paths \ {t} : \A q \in On(lowering[u]) : Cached(q)' => Cached(q)
    BY <1>1 DEF Cached
  <2> QED
    BY <1>1, <1>2, <1>4, <1>11, <2>2, <2>3, StackChanged DEF s
<1>16. PromisesExact'
  BY <1>1, <1>12, PromisesKept DEF Executing
<1>17. CachedPast'
  <2>1. \A d \in inlinedAt : \A u \in Paths : Beyond(lowering'[u], d) <=> Beyond(lowering[u], d)
    BY <1>11, <1>13 DEF s
  <2> QED
    BY <1>1, <1>12, <2>1 DEF Executing, CachedPast, Past, Cached
<1>18. ErrorsKept' /\ MissedInlined'
  <2>1. ASSUME NEW q, Noted(q) PROVE Noted(q)'
    BY <1>1, <1>11, <1>12, <1>13, <2>1 DEF Noted, s
  <2> QED
    BY <1>1, <1>12, <2>1 DEF Executing, ErrorsKept, MissedInlined, Cached
<1>19. FailuresReported'
  BY <1>2, <1>12, NobodyDone DEF s
<1> QED
  BY <1>12, <1>14, <1>15, <1>16, <1>17, <1>18, <1>19 DEF Executing

LEMMA LeaveInlineFirst ==
  ASSUME Executing, BuildTyped, NEW t \in Paths, LeaveInline(t)
  PROVE  Executing'
<1> DEFINE s == lowering[t]
           p == LTop(t).mod
           e0 == <<s[2].mod, s[2].next>>
           f == AfterInline(s[2], LTop(t))
           r == <<f>> \o SubSeq(s, 3, Len(s))
<1>1. /\ UNCHANGED <<resolveVars, inputVars, mainVars, resultVars>>
      /\ UNCHANGED <<promises, threads, errors, missing>>
      /\ Lowered(t) /\ Len(s) > 1
      /\ lowering' = [lowering EXCEPT ![t] = r]
      /\ cache' = [cache EXCEPT ![p] = Status(LTop(t))]
  BY DEF LeaveInline
<1>2. s # <<>> /\ ~ModuleLowered(t) /\ s \in Seq(LowerFrames)
      /\ LTop(t) = s[1] /\ 1 \in DOMAIN s /\ p \in Paths
  BY <1>1, InHandType DEF Lowered, ModuleLowered
<1>3. NoRepeat(s) /\ Nested(s, Place) /\ DOMAIN Place = inlinedAt
      /\ inlinedAt \subseteq Paths \X (Nat \ {0})
  BY PlaceFacts, BuildTypes DEF Executing, StacksExact
<1>4. e0 \in inlinedAt /\ p = Place[e0] /\ p \in Targets /\ p \in On(s)
  <2>1. 1 # Len(s) /\ 1 + 1 = 2
    BY <1>1
  <2>2. p \in On(s)
    BY <1>2, AtWork
  <2> QED
    BY <1>2, <2>1, <2>2, InlinedOnStack
<1>5. /\ f \in LowerFrames /\ f.mod = s[2].mod /\ f.next = s[2].next + 1
      /\ f.errs = s[2].errs \cup s[1].errs \cup (faulty \cap {s[1].mod})
      /\ f.inlinedAt = s[2].inlinedAt
  <2>1. /\ f \in LowerFrames /\ f.mod = s[2].mod /\ f.next = s[2].next + 1
        /\ f.errs = s[2].errs \cup ErrsOf(LTop(t))
        /\ f.inlinedAt = s[2].inlinedAt
    BY <1>1, <1>2, MergedFrame
  <2>2. ErrsOf(LTop(t)) = s[1].errs \cup (faulty \cap {s[1].mod})
    BY <1>2 DEF ErrsOf
  <2> QED
    BY <2>1, <2>2
<1>6. ASSUME NEW u \in Paths \ {t} PROVE p \notin On(lowering[u])
  BY <1>4 DEF Executing, StacksExact
<1>7. \A q \in On(s) : q \in Visited \cup {Root} /\ ~Cached(q) /\ q \in Paths
                       /\ q \in {Bottom(s)} \cup Ancestors(graph, Bottom(s))
  BY <1>2, AtWork, InHandImports DEF Executing, StacksExact
<1>8. p = s[1].mod
  BY <1>2
<1> HIDE DEF f, p, s
<1>9. /\ r \in Seq(LowerFrames) /\ r # <<>> /\ On(r) \subseteq On(s) /\ p \notin On(r)
      /\ NoRepeat(r) /\ Nested(r, Place) /\ Bottom(r) = Bottom(s)
      /\ HeldIn(s, faulty) \subseteq HeldIn(r, faulty)
      /\ \A e \in inlinedAt : e[1] # p => (Beyond(r, e) <=> Beyond(s, e) \/ e = e0)
  BY <1>1, <1>2, <1>3, <1>5, <1>8, MergeStack
<1> HIDE DEF r, e0
<1>10. /\ UNCHANGED <<project, graph, inlinedAt, parallel, faulty, mainPc, subject, builds,
                      aborted, reported>>
       /\ Plan' /\ Place' = Place /\ Targets' = Targets /\ Own' = Own
       /\ Visited' = Visited /\ CloneExact' /\ WorkExact' /\ AstsExact'
       /\ Opened' = Opened /\ (Starting' <=> Starting) /\ (Walking' <=> Walking)
  BY <1>1, WalkKept
<1>11. lowering'[t] = r /\ \A u \in Paths \ {t} : lowering'[u] = lowering[u]
  BY <1>1, <1>9, NewStack DEF s
<1>12. /\ cache'[p] # "none" /\ \A q \in Paths \ {p} : cache'[q] = cache[q]
  BY <1>1, <1>2, StatusType, BuildTypes
<1>13. p \in Visited
  <2>1. p # Root
    BY <1>4, PlanFacts DEF Executing
  <2> QED
    BY <1>4, <1>7, <2>1
<1>14. VisitedKnown'
  BY <1>1, <1>10, <1>12, <1>13 DEF Executing, VisitedKnown, Registered, Cached
<1>15. StacksExact' /\ ThreadsExact'
  <2>1. \A q \in On(r) :
          /\ q \in On(s)
          /\ q \in {Bottom(r)} \cup Ancestors(graph, Bottom(r))
          /\ cache'[q] = "none"
    <3> TAKE q \in On(r)
    <3>1. q \in On(s) /\ q # p
      BY <1>9
    <3> QED
      BY <1>7, <1>9, <1>12, <3>1 DEF Cached
  <2>2. \A u \in Paths \ {t} : \A q \in On(lowering[u]) : Cached(q)' => Cached(q)
    <3> TAKE u \in Paths \ {t}
    <3> TAKE q \in On(lowering[u])
    <3>1. q \in Paths /\ q # p
      BY <1>6, InHandImports
    <3> QED
      BY <1>12, <3>1 DEF Cached
  <2> QED
    BY <1>1, <1>2, <1>9, <2>1, <2>2, StackChanged DEF s
<1>16. PromisesExact'
  BY <1>1, <1>10, <1>12, PlanFacts DEF Executing, PromisesExact, Cached
<1>17. CachedPast'
  <2> SUFFICES ASSUME NEW e \in inlinedAt PROVE Cached(Place[e])' <=> Past(e)'
    BY <1>10 DEF CachedPast
  <2>1. Place[e] \in Paths /\ e[1] \in Paths /\ (Place[e] = p <=> e = e0)
    BY <1>4, BuildTypes, PlaceFacts, PlanFacts DEF Executing, Plan
  <2>2. cache'[Place[e]] # "none" <=> Cached(Place[e]) \/ e = e0
    BY <1>12, <2>1 DEF Cached
  <2>3. Cached(Place[e])' <=> Cached(Place[e]) \/ e = e0
    BY <1>10, <2>2 DEF Cached
  <2>4. Cached(Place[e]) <=> Past(e)
    BY DEF Executing, CachedPast
  <2>5. CASE e[1] = p
    <3>1. Beyond(lowering[t], e)
      BY <1>1, <2>5, LoweredBeyond DEF Executing, p
    <3>2. Past(e)
      BY <3>1 DEF Past
    <3>3. Past(e)'
      BY <1>12, <2>5 DEF Past, Cached
    <3> QED
      BY <2>3, <2>4, <3>2, <3>3
  <2>6. CASE e[1] # p
    <3>1. cache'[e[1]] = cache[e[1]]
      BY <1>12, <2>1, <2>6
    <3>2. Beyond(r, e) <=> Beyond(s, e) \/ e = e0
      BY <1>9, <2>6
    <3>3. (\E u \in Paths : Beyond(lowering'[u], e))
            <=> (\E u \in Paths : Beyond(lowering[u], e)) \/ e = e0
      BY <1>11, <3>2 DEF s
    <3>4. Past(e)' <=> Past(e) \/ e = e0
      BY <1>10, <3>1, <3>3 DEF Past, Cached
    <3> QED
      BY <2>3, <2>4, <3>4
  <2> QED
    BY <2>5, <2>6
<1>18. ErrorsKept' /\ MissedInlined'
  <2>1. ASSUME NEW q, Noted(q) PROVE Noted(q)'
    BY <1>1, <1>9, <1>10, <1>11, <2>1 DEF Noted, s
  <2>2. p \in faulty => p \in HeldIn(s, faulty)
    BY <1>2, <1>8 DEF HeldIn
  <2>3. ASSUME NEW q, q = p, q \in faulty PROVE Noted(q)'
    BY <1>9, <1>10, <1>11, <2>2, <2>3 DEF Noted
  <2>4. ErrorsKept'
    BY <1>1, <1>10, <1>12, <2>1, <2>3, BuildTypes DEF Executing, ErrorsKept, Cached
  <2> QED
    BY <1>1, <1>10, <2>4 DEF Executing, MissedInlined
<1>19. FailuresReported'
  BY <1>2, <1>10, NobodyDone DEF s
<1> QED
  BY <1>10, <1>14, <1>15, <1>16, <1>17, <1>18, <1>19 DEF Executing

LEMMA UseImportFirst ==
  ASSUME Executing, BuildTyped, NEW t \in Paths, UseImport(t)
  PROVE  Executing'
<1> DEFINE s == lowering[t]
           m == LTop(t).mod
           p == LImport(t)
           c == CurrentPath(t)
           found == OnStack(t, p) \/ Cached(p)
           f == [LTop(t) EXCEPT !.next = @ + 1,
                                !.errs = IF found THEN @ ELSE @ \cup {LTop(t).mod}]
           r == <<f>> \o Tail(s)
<1>1. /\ UNCHANGED <<resolveVars, inputVars, threads, cache, errors, resultVars>>
      /\ UNCHANGED <<work, clone, subject, deps>>
      /\ Lowering(t) /\ ~IsInlined(t)
      /\ Joins(t) /\ parallel => JoinReturns(c, p)
  BY DEF UseImport
<1>2. s # <<>> /\ ~ModuleLowered(t) /\ s \in Seq(LowerFrames)
      /\ LTop(t) = s[1] /\ 1 \in DOMAIN s /\ m \in Paths /\ p \in Paths
  BY <1>1, InHandType, BodyInHand DEF Lowering, ModuleLowered
<1>3. Joins(t) => ~OnStack(t, p) /\ Registered(p) /\ ~Cached(p)
  BY DEF Joins
<1>4. ~OnStack(t, p) => /\ p \in Visited
                        /\ ~NoNeedToJoin(c, p)
                        /\ p \notin Targets => p \in Own /\ Registered(p)
  BY <1>1, Met
<1>5. Joins(t) => Finished(p)
  <2>1. CASE parallel
    BY <1>1, <1>3, <1>4, <2>1 DEF JoinReturns
  <2>2. CASE ~parallel
    <3>1. promises[p] # "running"
      BY <1>2, <2>2 DEF Executing, ThreadsExact, PromisesExact
    <3>2. promises[p] \in {"none", "running", "joined"}
      BY <1>2, BuildTypes
    <3> QED
      BY <1>3, <3>1, <3>2 DEF Finished, Registered
  <2> QED
    BY <2>1, <2>2
<1>6. Joins(t) => JoinReturns(c, p)
  BY <1>5 DEF JoinReturns
<1>7. /\ promises' = (IF Joins(t) /\ parallel THEN Joined(c, {p}) ELSE promises)
      /\ lowering' = [lowering EXCEPT ![t] = r]
      /\ missing' = (IF found THEN missing ELSE missing \cup {<<m, p>>})
      /\ UNCHANGED mainPc
  BY <1>6 DEF UseImport
<1>8. Finished(p) /\ p \in Own => Cached(p)
  BY <1>2 DEF Finished, Executing, PromisesExact
<1>9. found \/ p \in Targets
  BY <1>3, <1>4, <1>5, <1>8 DEF Joins
<1>10. UNCHANGED mainVars
  BY <1>1, <1>7 DEF mainVars
<1>11. /\ UNCHANGED <<project, graph, inlinedAt, parallel, faulty, mainPc, subject, builds,
                      aborted, reported>>
       /\ Plan' /\ Place' = Place /\ Targets' = Targets /\ Own' = Own
       /\ Visited' = Visited /\ CloneExact' /\ WorkExact' /\ AstsExact'
       /\ Opened' = Opened /\ (Starting' <=> Starting) /\ (Walking' <=> Walking)
  BY <1>1, <1>10, WalkKept
<1>12. /\ f \in LowerFrames /\ f.mod = m /\ f.next = s[1].next + 1
       /\ f.errs = s[1].errs \cup (IF found THEN {} ELSE {m})
       /\ f.inlinedAt = s[1].inlinedAt
  BY <1>2, UsedFrame
<1>13. NoRepeat(s) /\ Nested(s, Place) /\ DOMAIN Place = inlinedAt
       /\ inlinedAt \subseteq Paths \X (Nat \ {0})
  BY PlaceFacts, BuildTypes DEF Executing, StacksExact
<1>14. <<s[1].mod, s[1].next>> \notin inlinedAt
  BY <1>1, <1>2, <1>13 DEF IsInlined, Nested
<1>15. m = s[1].mod
  BY <1>2
<1>16. \A q \in On(s) : q \in {Bottom(s)} \cup Ancestors(graph, Bottom(s)) /\ ~Cached(q)
  BY <1>2, AtWork DEF Executing, StacksExact
<1>17. ASSUME NEW q \in Paths
       PROVE  /\ Registered(q) <=> promises'[q] # "none"
              /\ promises'[q] = promises[q] \/ (q = p /\ promises'[q] = "joined" /\ Finished(p))
  <2>1. CASE Joins(t) /\ parallel
    BY <1>3, <1>5, <1>7, <2>1 DEF Joined, Registered
  <2>2. CASE ~(Joins(t) /\ parallel)
    BY <1>7, <2>2 DEF Registered
  <2> QED
    BY <2>1, <2>2
<1>18. found => missing' = missing
  BY <1>7
<1>19. ~found => missing' = missing \cup {<<m, p>>} /\ m \in f.errs /\ p \in Targets
  BY <1>7, <1>9, <1>12
<1> HIDE DEF f, s, m, p, c, found
<1>20. /\ r \in Seq(LowerFrames) /\ r # <<>> /\ On(r) = On(s)
       /\ NoRepeat(r) /\ Nested(r, Place) /\ Bottom(r) = Bottom(s)
       /\ \A F : HeldIn(s, F) \cup f.errs \subseteq HeldIn(r, F)
       /\ \A e \in inlinedAt : Beyond(r, e) <=> Beyond(s, e)
  <2>1. s[1].errs \subseteq f.errs
    BY <1>12
  <2> QED
    BY <1>2, <1>12, <1>13, <1>14, <1>15, <2>1, AdvanceStack
<1> HIDE DEF r
<1>21. lowering'[t] = r /\ \A u \in Paths \ {t} : lowering'[u] = lowering[u]
  BY <1>7, <1>20, NewStack
<1>22. VisitedKnown'
  <2>1. \A q \in Paths : Registered(q) <=> promises'[q] # "none"
    BY <1>17
  <2>2. Visited \subseteq Paths
    BY PlanFacts DEF Executing, Visited
  <2>3. Starting => subject \in Paths
    BY <2>2 DEF Executing, VisitedKnown
  <2> QED
    BY <1>1, <1>11, <2>1, <2>2, <2>3 DEF Executing, VisitedKnown, Registered, Cached
<1>23. StacksExact' /\ ThreadsExact'
  <2>1. \A q \in On(r) :
          /\ q \in On(s)
          /\ q \in {Bottom(r)} \cup Ancestors(graph, Bottom(r))
          /\ cache'[q] = "none"
    BY <1>1, <1>16, <1>20 DEF Cached
  <2>2. \A u \in Paths \ {t} : \A q \in On(lowering[u]) : Cached(q)' => Cached(q)
    BY <1>1 DEF Cached
  <2> QED
    BY <1>1, <1>2, <1>7, <1>10, <1>20, <2>1, <2>2, StackChanged DEF s
<1>24. PromisesExact'
  <2>1. PromisesExact
    BY DEF Executing
  <2>2. Finished(p) => threads[p] \in {"none", "exited"}
    BY <1>2, <2>1 DEF Finished, PromisesExact
  <2>3. \A q \in Paths : promises'[q] = "running" => threads'[q] # "none"
    BY <1>1, <1>17, <2>1 DEF PromisesExact
  <2>4. \A q \in Paths : promises'[q] = "joined" => threads'[q] \in {"none", "exited"}
    BY <1>1, <1>17, <2>1, <2>2 DEF PromisesExact
  <2>5. ASSUME NEW q \in Own, promises'[q] = "joined" \/ threads'[q] \in {"registered", "exited"}
        PROVE  Cached(q)'
    <3>1. q \in Paths
      BY PlanFacts DEF Executing
    <3>2. Cached(q)
      BY <1>1, <1>8, <1>17, <2>1, <2>5, <3>1 DEF PromisesExact
    <3> QED
      BY <1>1, <3>2 DEF Cached
  <2> QED
    BY <1>11, <2>3, <2>4, <2>5 DEF PromisesExact
<1>25. CachedPast'
  <2>1. \A d \in inlinedAt : \A u \in Paths : Beyond(lowering'[u], d) <=> Beyond(lowering[u], d)
    BY <1>20, <1>21 DEF s
  <2> QED
    BY <1>1, <1>11, <2>1 DEF Executing, CachedPast, Past, Cached
<1>26. ErrorsKept' /\ MissedInlined'
  <2>1. ASSUME NEW q, Noted(q) PROVE Noted(q)'
    BY <1>1, <1>11, <1>20, <1>21, <2>1 DEF Noted, s
  <2>2. ASSUME NEW q, q = m, ~found PROVE Noted(q)'
    <3>1. m \in HeldIn(r, faulty)
      BY <1>19, <1>20, <2>2
    <3> QED
      BY <1>11, <1>21, <2>2, <3>1 DEF Noted
  <2>3. ASSUME NEW e \in missing', mainPc # "done" PROVE Noted(e[1])' /\ e[2] \in Targets
    <3>1. CASE e \in missing
      BY <2>1, <2>3, <3>1 DEF Executing, ErrorsKept, MissedInlined
    <3>2. CASE e \notin missing
      <4>1. ~found /\ e[1] = m /\ e[2] = p
        BY <1>18, <1>19, <2>3, <3>2
      <4> QED
        BY <1>19, <2>2, <4>1
    <3> QED
      BY <3>1, <3>2
  <2>4. \A e \in missing' : e[2] \in Targets
    BY <1>18, <1>19 DEF Executing, MissedInlined
  <2> QED
    BY <1>1, <1>11, <2>1, <2>3, <2>4 DEF Executing, ErrorsKept, MissedInlined, Cached
<1>27. FailuresReported'
  BY <1>2, <1>11, NobodyDone DEF s
<1> QED
  BY <1>11, <1>22, <1>23, <1>24, <1>25, <1>26, <1>27 DEF Executing

-----------------------------------------------------------------------------
(* The end of the build.                                                    *)

(* Everything that was started is known by the time the root is lowered.    *)
LEMMA RootLowered ==
  ASSUME Executing, BuildTyped, mainPc = "lower", ModuleLowered(Root)
  PROVE  /\ LTop(Root).mod = Root /\ lowering[Root] # <<>>
         /\ HeldIn(lowering[Root], faulty) = ErrsOf(LTop(Root))
         /\ Root \in faulty => Root \in ErrsOf(LTop(Root))
         /\ DOMAIN graph \ {Root} \subseteq Visited
         /\ \A p \in Visited : p \in Paths \ {Root} /\ Registered(p)
         /\ \A p \in Paths : Registered(p) => ~NoNeedToJoin(Root, p)
<1>1. ~Walking /\ ~Starting /\ work = <<>>
  <2>1. ~Walking /\ ~Starting
    BY DEF Walking, Starting
  <2> QED
    BY <2>1 DEF Executing, WorkExact
<1>2. /\ LTop(Root).mod = Root /\ lowering[Root] # <<>>
      /\ HeldIn(lowering[Root], faulty) = ErrsOf(LTop(Root))
      /\ Root \in faulty => Root \in ErrsOf(LTop(Root))
  BY OneFrame, InHandType, RootAssumption DEF Executing, ThreadsExact
<1>3. Opened = {}
  BY <1>1, NoFrames DEF Opened
<1>4. DOMAIN graph \ {Root} \subseteq Visited /\ \A p \in Visited : Registered(p)
  BY <1>1, <1>3 DEF Executing, VisitedKnown
<1>5. Visited \subseteq DOMAIN graph \ {Root} /\ DOMAIN graph \subseteq Paths
  BY PlanFacts DEF Executing, CloneExact, Visited
<1>6. ASSUME NEW p \in Paths, Registered(p) PROVE ~NoNeedToJoin(Root, p)
  <2>1. p \in DOMAIN graph \ {Root}
    BY <1>5, <1>6 DEF Executing, VisitedKnown
  <2> QED
    BY <2>1, PlanFacts DEF Executing, NoNeedToJoin, DeepDependsOn
<1> QED
  BY <1>2, <1>4, <1>5, <1>6

LEMMA FinishRootFirst ==
  ASSUME Executing, BuildTyped, FinishRoot, UNCHANGED builds
  PROVE  /\ mainPc' = "done" /\ mainPc = "lower"
         /\ UNCHANGED <<project, graph, inlinedAt, faulty, threads, cache, missing>>
         /\ Own' = Own
         /\ Plan' /\ CloneExact' /\ WorkExact' /\ AstsExact'
         /\ StacksExact' /\ ThreadsExact' /\ CachedPast' /\ ErrorsKept' /\ MissedInlined'
<1>1. /\ UNCHANGED <<project, graph, asts, inlines, inlinedAt, parallel, faulty, work, clone,
                     subject, threads, cache, missing>>
      /\ mainPc = "lower" /\ mainPc' = "done" /\ ModuleLowered(Root)
      /\ lowering' = [lowering EXCEPT ![Root] = <<>>]
  BY DEF FinishRoot, resolveVars, inputVars
<1>2. LTop(Root).mod = Root
  BY <1>1, RootLowered
<1>3. lowering'[Root] = <<>> /\ \A u \in Paths \ {Root} : lowering'[u] = lowering[u]
  BY <1>1, BuildTypes, RootAssumption
<1>4. Plan' /\ Place' = Place /\ Targets' = Targets /\ Own' = Own
  BY <1>1, PlanStays DEF Executing
<1>5. Visited' = Visited /\ ~Walking /\ ~Walking'
  BY <1>1 DEF Visited, Walking
<1>6. CloneExact' /\ WorkExact' /\ AstsExact'
  BY <1>1, <1>4, <1>5 DEF Executing, CloneExact, WorkExact, AstsExact
<1>7. On(<<>>) = {} /\ NoRepeat(<<>>) /\ Nested(<<>>, Place)
      /\ \A e : ~Beyond(<<>>, e)
  BY NoFrames DEF On, NoRepeat, Nested, Beyond
<1>8. StacksExact'
  BY <1>1, <1>3, <1>4, <1>5, <1>7 DEF Executing, StacksExact, Cached
<1>9. ThreadsExact'
  <2>1. \A t \in Paths : threads'[t] = "registered" => ModuleLowered(t)'
    <3>1. threads[Root] # "registered"
      BY BuildTypes
    <3> QED
      BY <1>1, <1>3, <3>1 DEF Executing, ThreadsExact, ModuleLowered, Lowered, LTop, Body
  <2> QED
    BY <1>1, <1>3, <1>4, <1>5, <2>1 DEF Executing, ThreadsExact
<1>10. CachedPast'
  <2> SUFFICES ASSUME NEW e \in inlinedAt PROVE Cached(Place[e])' <=> Past(e)'
    BY <1>1, <1>4 DEF CachedPast
  <2>1. Cached(Place[e])' <=> Past(e)
    BY <1>1, <1>4 DEF Executing, CachedPast, Cached
  <2>2. CASE e[1] = Root
    <3>1. Beyond(lowering[Root], e)
      BY <1>1, <1>2, <2>2, LoweredBeyond, RootAssumption DEF Executing, ModuleLowered
    <3>2. Past(e) /\ Past(e)'
      BY <1>1, <2>2, <3>1, RootAssumption DEF Past
    <3> QED
      BY <2>1, <3>2
  <2>3. CASE e[1] # Root
    <3>1. ~Beyond(lowering[Root], e)
      BY <1>1, <1>2, <2>3, OneFrame, RootAssumption DEF Beyond
    <3>2. Past(e)' <=> Past(e)
      BY <1>1, <1>3, <1>7, <2>3, <3>1 DEF Past, Cached
    <3> QED
      BY <2>1, <3>2
  <2> QED
    BY <2>2, <2>3
<1>11. ErrorsKept' /\ MissedInlined'
  BY <1>1, <1>4 DEF ErrorsKept, Executing, MissedInlined
<1> QED
  BY <1>1, <1>4, <1>6, <1>8, <1>9, <1>10, <1>11

LEMMA AbortFirst ==
  ASSUME Executing, BuildTyped, AbortRoot
  PROVE  Executing'
<1>1. FinishRoot /\ aborted' = TRUE /\ UNCHANGED <<promises, builds, clone, subject>>
  BY DEF AbortRoot, FinishRoot
<1>2. /\ mainPc' = "done" /\ mainPc = "lower"
      /\ UNCHANGED <<project, graph, inlinedAt, faulty, threads, cache, missing>>
      /\ Own' = Own
      /\ Plan' /\ CloneExact' /\ WorkExact' /\ AstsExact'
      /\ StacksExact' /\ ThreadsExact' /\ CachedPast' /\ ErrorsKept' /\ MissedInlined'
  BY <1>1, FinishRootFirst
<1>3. ModuleLowered(Root)
  BY <1>1 DEF FinishRoot
<1>4. VisitedKnown'
  <2>1. DOMAIN graph \ {Root} \subseteq Visited /\ \A p \in Visited : Registered(p)
    BY <1>2, <1>3, RootLowered
  <2>2. Visited' = Visited /\ ~Starting'
    BY <1>1, <1>2 DEF Visited, Starting
  <2> QED
    BY <1>1, <1>2, <2>1, <2>2 DEF Executing, VisitedKnown, Registered, Cached
<1>5. PromisesExact'
  BY <1>1, <1>2, PromisesKept DEF Executing
<1>6. FailuresReported'
  BY <1>1 DEF FailuresReported
<1> QED
  BY <1>2, <1>4, <1>5, <1>6 DEF Executing

(* When everybody has been joined, every module of the package has been     *)
(* analysed: an inlined one stands, in the end, in a module of its own.     *)
LEMMA AllAnalysed ==
  ASSUME Executing, BuildTyped, mainPc = "lower", ModuleLowered(Root),
         \A p \in Own : Finished(p)
  PROVE  \A p \in DOMAIN graph \ {Root} : Cached(p)
<1>1. \A p \in Own : Cached(p)
  <2> TAKE p \in Own
  <2>1. p \in Paths
    BY PlanFacts DEF Executing
  <2> QED
    BY <2>1 DEF Finished, Executing, PromisesExact
<1> DEFINE S == {q \in Paths : ~Cached(q) /\ q # Root}
<1>2. S \in SUBSET Paths
  OBVIOUS
<1>3. ASSUME NEW q \in S PROVE Parents(PlaceGraph, q) \subseteq S
  <2>1. CASE q \in Targets
    <3>1. Parents(PlaceGraph, q) = {e[1] : e \in {x \in inlinedAt : Place[x] = q}}
      BY <2>1 DEF Parents, PlaceGraph
    <3>2. ASSUME NEW e \in inlinedAt, Place[e] = q PROVE e[1] \in S
      <4>1. ~Past(e) /\ e[1] \in Paths
        BY <3>2, BuildTypes DEF Executing, CachedPast
      <4>2. e[1] # Root
        <5> SUFFICES ASSUME e[1] = Root PROVE FALSE
          OBVIOUS
        <5>1. Beyond(lowering[Root], e)
          BY RootLowered, LoweredBeyond, RootAssumption DEF Executing, ModuleLowered
        <5> QED
          BY <4>1, <5>1, RootAssumption DEF Past
      <4> QED
        BY <4>1, <4>2 DEF Past
    <3> QED
      BY <3>1, <3>2
  <2>2. CASE q \notin Targets
    BY <2>2 DEF Parents, PlaceGraph
  <2> QED
    BY <2>1, <2>2
<1>4. Closed(PlaceGraph, S)
  BY <1>3 DEF Closed
<1>5. S \cap (Own \cup {Root}) = {}
  BY <1>1
<1>6. ASSUME NEW q \in S PROVE Ancestors(PlaceGraph, q) \subseteq S
  <2> HIDE DEF S
  <2> QED
    BY <1>2, <1>3, <1>4, AncestorsLeast
<1>7. ASSUME NEW p \in Targets PROVE Cached(p)
  <2> SUFFICES ASSUME ~Cached(p) PROVE FALSE
    OBVIOUS
  <2>1. p \in S
    BY PlanFacts DEF Executing
  <2>2. Ancestors(PlaceGraph, p) \cap (Own \cup {Root}) # {}
    BY DEF Executing, Plan
  <2> HIDE DEF S
  <2> QED
    BY <1>5, <1>6, <2>1, <2>2
<1> QED
  BY <1>1, <1>7, PlanFacts DEF Executing

LEMMA JoinAllFirst ==
  ASSUME Executing, BuildTyped, JoinAll
  PROVE  Executing'
<1>1. /\ FinishRoot /\ UNCHANGED <<aborted, builds, clone, subject>>
      /\ \A p \in Paths : Registered(p) => JoinReturns(Root, p)
      /\ promises' = Joined(Root, {p \in Paths : Registered(p)})
      /\ reported' = ErrsOf(LTop(Root)) \cup errors
  BY DEF JoinAll, FinishRoot
<1>2. /\ mainPc' = "done" /\ mainPc = "lower"
      /\ UNCHANGED <<project, graph, inlinedAt, faulty, threads, cache, missing>>
      /\ Own' = Own
      /\ Plan' /\ CloneExact' /\ WorkExact' /\ AstsExact'
      /\ StacksExact' /\ ThreadsExact' /\ CachedPast' /\ ErrorsKept' /\ MissedInlined'
  BY <1>1, FinishRootFirst
<1>3. ModuleLowered(Root)
  BY <1>1 DEF FinishRoot
<1>4. /\ HeldIn(lowering[Root], faulty) = ErrsOf(LTop(Root))
      /\ Root \in faulty => Root \in ErrsOf(LTop(Root))
      /\ DOMAIN graph \ {Root} \subseteq Visited
      /\ \A p \in Visited : p \in Paths \ {Root} /\ Registered(p)
      /\ \A p \in Paths : Registered(p) => ~NoNeedToJoin(Root, p)
  BY <1>2, <1>3, RootLowered
<1>5. \A p \in Paths : Registered(p) => Finished(p)
  BY <1>1, <1>4 DEF JoinReturns
<1>6. \A p \in Paths : promises'[p] = IF Registered(p) THEN "joined" ELSE promises[p]
  BY <1>1, <1>4 DEF Joined
<1>7. \A p \in Paths : Finished(p) => /\ threads[p] \in {"none", "exited"}
                                      /\ p \in Own => Cached(p)
  BY DEF Finished, Executing, PromisesExact
<1>8. VisitedKnown'
  <2>1. Visited' = Visited /\ ~Starting'
    BY <1>1, <1>2 DEF Visited, Starting
  <2> QED
    BY <1>2, <1>4, <1>6, <2>1 DEF Executing, VisitedKnown, Registered, Cached
<1>9. PromisesExact'
  <2>1. ASSUME NEW p \in Paths, promises'[p] # "none"
        PROVE  /\ promises'[p] = "joined" /\ threads'[p] \in {"none", "exited"}
               /\ p \in Own => Cached(p)'
    <3>1. Registered(p) /\ promises'[p] = "joined"
      BY <1>6, <2>1 DEF Registered
    <3>2. threads[p] \in {"none", "exited"} /\ (p \in Own => Cached(p))
      BY <1>5, <1>7, <3>1
    <3> QED
      BY <1>2, <3>1, <3>2 DEF Cached
  <2>2. ASSUME NEW p \in Own, threads'[p] \in {"registered", "exited"} PROVE Cached(p)'
    <3>1. Cached(p)
      BY <1>2, <2>2 DEF Executing, PromisesExact
    <3> QED
      BY <1>2, <3>1 DEF Cached
  <2>3. Own \subseteq Paths
    BY PlanFacts DEF Executing
  <2> QED
    BY <1>2, <2>1, <2>2, <2>3 DEF PromisesExact
<1>10. FailuresReported'
  <2>1. \A p \in Own : Finished(p)
    BY <1>4, <1>5, PlanFacts DEF Executing
  <2>2. \A p \in DOMAIN graph \ {Root} : Cached(p)
    BY <1>2, <1>3, <2>1, AllAnalysed
  <2>3. \A u \in Paths : threads[u] \in {"none", "exited"}
    <3> TAKE u \in Paths
    <3>1. threads[u] # "none" => u \in Visited
      BY DEF Executing, ThreadsExact
    <3> QED
      BY <1>4, <1>5, <1>7, <3>1
  <2>4. \A u \in Paths \ {Root} : HeldIn(lowering[u], faulty) = {}
    <3> TAKE u \in Paths \ {Root}
    <3>1. lowering[u] = <<>>
      BY <2>3 DEF Executing, ThreadsExact
    <3> QED
      BY <3>1, NoFrames DEF HeldIn
  <2>5. \A q : Noted(q) => q \in reported'
    BY <1>1, <1>4, <2>4 DEF Noted
  <2>6. /\ \A q \in faulty : Cached(q) => Noted(q)
        /\ \A e \in missing : Noted(e[1])
    BY <1>2 DEF Executing, ErrorsKept
  <2>7. faulty \cap (DOMAIN graph \cup {Root}) \subseteq reported'
    BY <1>1, <1>4, <2>2, <2>5, <2>6
  <2>8. {e[1] : e \in missing} \subseteq reported'
    BY <2>5, <2>6
  <2> QED
    BY <1>2, <2>3, <2>7, <2>8 DEF FailuresReported
<1> QED
  BY <1>2, <1>8, <1>9, <1>10 DEF Executing

-----------------------------------------------------------------------------
(* The invariant of the first build.                                        *)

LEMMA ExecutingStays ==
  ASSUME Executing, BuildTyped, UNCHANGED vars
  PROVE  Executing'
<1>1. /\ UNCHANGED <<resolveVars, inputVars, mainVars, sharedVars, resultVars>>
      /\ UNCHANGED <<promises, threads, lowering, cache, errors, missing>>
  BY DEF vars, sharedVars
<1>2. /\ UNCHANGED <<project, graph, inlinedAt, parallel, faulty, mainPc, subject, builds,
                     aborted, reported>>
      /\ Plan' /\ Place' = Place /\ Targets' = Targets /\ Own' = Own
      /\ Visited' = Visited /\ CloneExact' /\ WorkExact' /\ AstsExact'
      /\ Opened' = Opened /\ (Starting' <=> Starting) /\ (Walking' <=> Walking)
  BY <1>1, WalkKept
<1>3. VisitedKnown'
  BY <1>1, <1>2 DEF Executing, VisitedKnown, Registered, Cached
<1>4. StacksExact' /\ CachedPast' /\ PromisesExact'
  BY <1>1, <1>2, StacksKept, PastKept, PromisesKept DEF Executing
<1>5. ThreadsExact'
  BY <1>1, <1>2 DEF Executing, ThreadsExact, ModuleLowered, Lowered, LTop, Body
<1>6. ErrorsKept' /\ MissedInlined' /\ FailuresReported'
  BY <1>1, <1>2 DEF Executing, ErrorsKept, MissedInlined, FailuresReported, Noted, Cached
<1> QED
  BY <1>2, <1>3, <1>4, <1>5, <1>6 DEF Executing

LEMMA FirstBuildInit ==
  InitBuild /\ PackagesApart(project) => FirstBuild
BY ResolvingInit DEF FirstBuild, InitBuild

LEMMA FirstBuildNext ==
  FirstBuild /\ BuildTyped /\ [BuildNext]_vars => FirstBuild'
<1> SUFFICES ASSUME FirstBuild, BuildTyped, [BuildNext]_vars, builds' = 1
             PROVE  IF mainPc' = "resolve" THEN Resolving' ELSE Executing'
  BY DEF FirstBuild
<1>1. CASE NextBuild
  <2>1. builds \in 1 .. MaxBuilds /\ builds' = builds + 1
    BY <1>1, BuildTypes DEF NextBuild
  <2> QED
    BY <2>1, MaxBuildsAssumption
<1>2. CASE Main \/ ResolvePhase \/ (\E t \in Paths : Thread(t)) \/ UNCHANGED vars
  <2>1. builds = 1
    BY <1>2 DEF Main, ResolvePhase, Thread, StartExecution, AlreadyKnown, SpawnThread, BuildHere,
       TakeAst, InlinedKnown, InlinedWait, InlinedOpen, TakeInlined, InsertPromise, FinishHere,
       WaitUntilFinished, CloseInlined, StartRoot, AbortRoot, JoinAll, UseImport, EnterInline,
       LeaveInline, RegisterModule, ReportAndExit, resultVars, vars
  <2>2. CASE mainPc = "resolve"
    <3>1. Resolving
      BY <2>1, <2>2 DEF FirstBuild
    <3>2. CASE ResolvePhase
      <4>1. Resolving' /\ mainPc' = "resolve"
        BY <2>2, <3>1, <3>2, ResolvePhaseFirst DEF ResolvePhase, mainVars
      <4> QED
        BY <4>1
    <3>3. CASE Main
      <4>1. StartExecution
        BY <2>2, <3>3 DEF Main, StartExecution, AlreadyKnown, SpawnThread, BuildHere, TakeAst,
           TakeAncestor, InlinedKnown, InlinedWait, InlinedOpen, TakeInlined, InsertPromise,
           FinishHere, WaitUntilFinished, CloseInlined, StartRoot, AbortRoot, JoinAll, FinishRoot
      <4>2. Executing' /\ mainPc' = "spawn"
        BY <3>1, <4>1, StartExecutionFirst DEF StartExecution
      <4> QED
        BY <4>2
    <3>4. CASE \E t \in Paths : Thread(t)
      <4>1. PICK t \in Paths : Thread(t)
        BY <3>4
      <4>2. lowering[t] = <<>> /\ threads[t] = "none"
        BY <3>1 DEF Resolving, NotStarted
      <4> QED
        BY <4>1, <4>2 DEF Thread, UseImport, EnterInline, LeaveInline, RegisterModule,
           ReportAndExit, Lowering, Lowered, ModuleLowered
    <3>5. CASE UNCHANGED vars
      <4>1. Inv'
        BY <3>1, <3>5, InvNext DEF Resolving, vars
      <4>2. UNCHANGED <<project, graph, asts, inlines, inlinedAt, stack, mainPc>>
        BY <3>5 DEF vars, resolveVars, mainVars
      <4>3. Place' = Place /\ Targets' = Targets
        BY <4>2, ImportsStay
      <4>4. Placed' /\ Needed'
        BY <3>1, <4>2, <4>3 DEF Resolving, Placed, Needed, Completed, Resolved
      <4>5. NotStarted'
        BY <3>1, <3>5
        DEF Resolving, NotStarted, vars, mainVars, sharedVars, resultVars, Registered, Cached
      <4> QED
        BY <2>2, <4>1, <4>2, <4>4, <4>5 DEF Resolving
    <3> QED
      BY <1>2, <3>2, <3>3, <3>4, <3>5
  <2>3. CASE mainPc # "resolve"
    <3>1. Executing
      BY <2>1, <2>3 DEF FirstBuild
    <3>2. ASSUME Main PROVE Executing'
      BY <2>3, <3>1, <3>2, NeverKnown, SpawnFirst, BuildHereFirst, InlinedPassed,
         InlinedOpenFirst, InsertFirst, FinishHereFirst, WaitFirst, CloseInlinedFirst,
         StartRootFirst, AbortFirst, JoinAllFirst
      DEF Main, StartExecution
    <3>3. ASSUME \E t \in Paths : Thread(t) PROVE Executing'
      BY <3>1, <3>3, UseImportFirst, EnterInlineFirst, LeaveInlineFirst, RegisterFirst,
         ReportFirst
      DEF Thread
    <3>4. ASSUME UNCHANGED vars PROVE Executing'
      BY <3>1, <3>4, ExecutingStays
    <3>5. ~ResolvePhase
      BY <2>3 DEF ResolvePhase
    <3>6. Executing' => mainPc' # "resolve"
      BY DEF Executing
    <3> QED
      BY <1>2, <3>2, <3>3, <3>4, <3>5, <3>6
  <2> QED
    BY <2>2, <2>3
<1> QED
  BY <1>1, <1>2 DEF BuildNext, Terminated

-----------------------------------------------------------------------------
(* The properties of the first build.                                       *)

(* Before the execution there is nothing the properties could be about.     *)
LEMMA ResolvingSafe ==
  ASSUME Resolving, mainPc = "resolve"
  PROVE  /\ NoPanic /\ EveryAstStarted /\ AnalysedOnce
         /\ StartedAfterDependencies /\ OnlyInlinedMissed /\ FailuresReported
<1>1. /\ \A t \in Paths : threads[t] = "none" /\ lowering[t] = <<>>
      /\ missing = {}
  BY DEF Resolving, NotStarted
<1>2. NoPanic
  <2>1. resolveErrs = {}
    BY DEF Resolving, Inv
  <2> QED
    BY <1>1, <2>1 DEF NoPanic, Lowering
<1>3. AnalysedOnce
  BY <1>1 DEF AnalysedOnce
<1>4. EveryAstStarted /\ StartedAfterDependencies /\ OnlyInlinedMissed /\ FailuresReported
  BY <1>1 DEF EveryAstStarted, StartedAfterDependencies, OnlyInlinedMissed, FailuresReported
<1> QED
  BY <1>2, <1>3, <1>4

(* A thread only joins what it does not analyse itself, and nothing of that *)
(* kind depends on it.                                                      *)
LEMMA ExecutingNoPanic ==
  ASSUME Executing, BuildTyped
  PROVE  NoPanic
<1>1. mainPc \notin {"resolve", "panic"}
  BY DEF Executing
<1>2. mainPc = "insert" => ~Registered(subject)
  BY DEF Executing, VisitedKnown, Starting
<1>3. ASSUME NEW t \in Paths, Lowering(t), ~IsInlined(t), Joins(t)
      PROVE  DeepDependsOn(graph, CurrentPath(t), LImport(t))
  BY <1>3, Met DEF Joins
<1> QED
  BY <1>1, <1>2, <1>3 DEF NoPanic

LEMMA ExecutingOnce ==
  ASSUME Executing, BuildTyped
  PROVE  AnalysedOnce
<1> SUFFICES ASSUME NEW t \in Paths, NEW i \in DOMAIN lowering[t]
             PROVE  /\ Cached(lowering[t][i].mod) => threads[t] = "registered"
                    /\ \A u \in Paths : \A j \in DOMAIN lowering[u] :
                         lowering[u][j].mod = lowering[t][i].mod => t = u /\ i = j
  BY DEF AnalysedOnce
<1> DEFINE m == lowering[t][i].mod
<1>1. m \in On(lowering[t])
  BY DEF On
<1>2. Cached(m) => threads[t] = "registered"
  BY <1>1 DEF Executing, StacksExact
<1>3. ASSUME NEW u \in Paths, NEW j \in DOMAIN lowering[u], lowering[u][j].mod = m
      PROVE  t = u /\ i = j
  <2>1. m \in On(lowering[u])
    BY <1>3 DEF On
  <2>2. t = u
    BY <1>1, <2>1 DEF Executing, StacksExact
  <2> QED
    BY <1>3, <2>2 DEF Executing, StacksExact, NoRepeat
<1> QED
  BY <1>2, <1>3

LEMMA ExecutingOrdered ==
  ASSUME Executing, BuildTyped
  PROVE  StartedAfterDependencies
<1> SUFFICES ASSUME NEW p \in Paths, threads[p] # "none", NEW d \in Parents(graph, p)
             PROVE  Registered(d) \/ \E i \in DOMAIN work : work[i].inlined = d
  BY DEF StartedAfterDependencies
<1>1. p \in Visited
  BY DEF Executing, ThreadsExact
<1>2. d \in Visited
  BY <1>1 DEF Executing, CloneExact
<1>3. ~(Starting /\ d = subject)
  BY <1>1 DEF Executing, VisitedKnown
<1>4. Registered(d) \/ d \in Opened
  BY <1>2, <1>3 DEF Executing, VisitedKnown
<1> QED
  BY <1>4 DEF Opened

LEMMA ExecutingMissed ==
  ASSUME Executing
  PROVE  OnlyInlinedMissed
<1> SUFFICES ASSUME NEW e \in missing PROVE \E at \in inlinedAt : Body(at[1])[at[2]] = e[2]
  BY DEF OnlyInlinedMissed
<1>1. e[2] \in Targets
  BY DEF Executing, MissedInlined
<1>2. PICK at \in inlinedAt : Place[at] = e[2]
  BY <1>1 DEF Targets
<1>3. Body(at[1])[at[2]] = e[2]
  BY <1>2, PlaceFacts DEF Body, BodyIn
<1> QED
  BY <1>3

LEMMA FirstBuildSafe ==
  ASSUME FirstBuild, BuildTyped, builds = 1
  PROVE  /\ NoPanic /\ EveryAstStarted /\ AnalysedOnce
         /\ StartedAfterDependencies /\ OnlyInlinedMissed /\ FailuresReported
<1>1. CASE mainPc = "resolve"
  BY <1>1, ResolvingSafe DEF FirstBuild
<1>2. CASE mainPc # "resolve"
  <2>1. Executing
    BY <1>2 DEF FirstBuild
  <2>2. EveryAstStarted
    BY <2>1, WalkOver DEF EveryAstStarted
  <2>3. FailuresReported
    BY <2>1 DEF Executing
  <2> QED
    BY <2>1, <2>2, <2>3, ExecutingNoPanic, ExecutingOnce, ExecutingOrdered, ExecutingMissed
<1> QED
  BY <1>1, <1>2

LEMMA FirstBuildAlways ==
  BuildSpec /\ PackagesApart(project) => [](FirstBuild /\ BuildTyped)
<1>1. InitBuild /\ PackagesApart(project) => FirstBuild /\ BuildTyped
  BY FirstBuildInit, BuildTypedInit
<1>2. FirstBuild /\ BuildTyped /\ [BuildNext]_vars => (FirstBuild /\ BuildTyped)'
  BY FirstBuildNext, BuildTypedNext
<1> QED
  BY <1>1, <1>2, PTL DEF BuildSpec

LEMMA FirstBuildHolds ==
  BuildSpec /\ PackagesApart(project) =>
    [](builds = 1 => /\ NoPanic /\ EveryAstStarted /\ AnalysedOnce
                     /\ StartedAfterDependencies /\ OnlyInlinedMissed /\ FailuresReported)
<1>1. FirstBuild /\ BuildTyped =>
        (builds = 1 => /\ NoPanic /\ EveryAstStarted /\ AnalysedOnce
                       /\ StartedAfterDependencies /\ OnlyInlinedMissed /\ FailuresReported)
  BY FirstBuildSafe
<1> QED
  BY <1>1, FirstBuildAlways, PTL

(* No assertion of the builder fails in the first build, whatever the       *)
(* package and whatever the threads do: resolution returns to build_root()  *)
(* without an error, the ancestors of the root are all                      *)
(* registered when execute() lowers the root, build_inlined_module() finds  *)
(* the inliner of everything without an AST, each promise is inserted once, *)
(* and a thread only joins modules its own depends on, so that the debug    *)
(* assertions of SharedPromises hold too.                                   *)
THEOREM NothingPanics ==
  BuildSpec /\ PackagesApart(project) => [](builds = 1 => NoPanic)
BY FirstBuildHolds, PTL

(* When the walk through the dependencies of the root is over, every AST    *)
(* that resolution left in the cache has been handed to a thread or built:  *)
(* execute()'s debug_power_assert.                                          *)
THEOREM AllAstsStarted ==
  BuildSpec /\ PackagesApart(project) => [](builds = 1 => EveryAstStarted)
BY FirstBuildHolds, PTL

(* No module is ever analysed twice, in one thread or in two: an inlined    *)
(* module is reached from one place, and the walk meets the others once, so *)
(* that no entry of the module cache is overwritten.                        *)
THEOREM NeverAnalysedTwice ==
  BuildSpec /\ PackagesApart(project) => [](builds = 1 => AnalysedOnce)
BY FirstBuildHolds, PTL

(* start_analysis_process() is called in dependency order: by the time a    *)
(* module gets a thread, so has everything it depends on.                   *)
THEOREM DependenciesStartFirst ==
  BuildSpec /\ PackagesApart(project) => [](builds = 1 => StartedAfterDependencies)
BY FirstBuildHolds, PTL

(* A thread that joins the module it imports finds it in the cache          *)
(* afterwards: only a module that was inlined elsewhere is looked up in     *)
(* vain.                                                                    *)
THEOREM JoinedModulesFound ==
  BuildSpec /\ PackagesApart(project) => [](builds = 1 => OnlyInlinedMissed)
BY FirstBuildHolds, PTL

(* join_all() waits for everybody: a build that comes to its end has every  *)
(* thread's errors, those of inlined modules included, and leaves no thread *)
(* behind.                                                                  *)
THEOREM ErrorsReachArtifact ==
  BuildSpec /\ PackagesApart(project) => []FailuresReported
<1>1. FailuresReported \/ builds = 1
  BY DEF FailuresReported
<1> QED
  BY <1>1, FirstBuildHolds, PTL

-----------------------------------------------------------------------------
(* Without circular imports the first build implements BuildOrder, step by  *)
(* step: nothing is inlined, and what comes before the import a module has  *)
(* reached has been analysed.                                               *)

NoErrors == \A k \in DOMAIN stack : stack[k].errs = {}

\* The imports a frame is beyond are those of the module by itself, or analysed.
ImportsMet(t) ==
  \A i \in DOMAIN lowering[t] :
    LET m == lowering[t][i].mod
    IN  \A n \in DOMAIN Body(m) :
          n < lowering[t][i].next => Body(m)[n] = m \/ Cached(Body(m)[n])

Ordered ==
  builds = 1 =>
    /\ Straight(project) /\ inlinedAt = {} /\ EdgesNeeded
    /\ mainPc = "resolve" => NoErrors
    /\ \A t \in Paths : ImportsMet(t)

LEMMA StraightApart ==
  ASSUME Straight(project)
  PROVE  PackagesApart(project)
BY DEF Straight, PackagesApart

(* No import is refused, so that no error is raised and nothing is inlined. *)
LEMMA StraightAccepted ==
  ASSUME Inv, Straight(project), Importing
  PROVE  ~Refused(AddNode(graph, Import), From, Import) /\ ~PackagePending
<1>1. ResolverTypeOK /\ From \in Paths /\ Import \in Paths
  BY TopType, ImportType DEF Inv, Typed, Importing
<1>2. ~PackagePending
  BY <1>1, ImportFacts DEF Straight
<1>3. ASSUME Import # From, From \in Ancestors(graph, Import) PROVE FALSE
  <2> DEFINE N == Needs(project)
  <2>1. WithinPaths(N) /\ Import \in Parents(N, From)
    BY <1>1, <1>3, NeedsFacts, ImportFacts
  <2>2. From \in Ancestors(N, Import)
    BY <1>1, <1>3, <2>1, AncestorsMonotone DEF Inv, EdgesNeeded
  <2>3. ~(From \in Ancestors(N, From))
    BY <1>1 DEF Straight, Acyclic, DeepDependsOn
  <2> HIDE DEF N
  <2>4. Import \in Ancestors(N, From)
    BY <2>1, AncestorsHaveParents
  <2>5. Ancestors(N, Import) \subseteq Ancestors(N, From)
    BY <2>1, <2>4, AncestorsTransitive
  <2> QED
    BY <2>2, <2>3, <2>5
<1> QED
  BY <1>2, <1>3, AddNodeAncestors DEF Refused, DeepDependsOn

LEMMA StraightResolve ==
  ASSUME Inv, Straight(project), inlinedAt = {}, NoErrors, Resolve
  PROVE  inlinedAt' = {} /\ NoErrors' /\ project' = project
<1>1. Typed /\ ResolverTypeOK /\ stack \in Seq(Frames)
  BY DEF Inv, Typed, ResolverTypeOK
<1>2. ~RegisterPackage /\ ~RefuseImport
  BY StraightAccepted DEF RegisterPackage, RefuseImport, RegisterImport
<1>3. ~ReturnCyclic
  BY <1>1, TopType DEF ReturnCyclic, Exhausted, NoErrors
<1>4. CASE ImportKnown \/ Descend
  <2>1. stack # <<>>
    BY <1>4 DEF ImportKnown, Descend, AcceptImport, RegisterImport, Importing
  <2>2. Top \in Frames /\ Top = stack[1] /\ 1 \in DOMAIN stack /\ DOMAIN stack = 1 .. Len(stack)
        /\ Len(stack) \in Nat
    BY <1>1, <2>1, TopType
  <2>3. Top.errs = {}
    BY <2>2 DEF NoErrors
  <2>4. CASE ImportKnown
    <3>1. stack' = <<NextImport(Top)>> \o Tail(stack)
      BY <2>4 DEF ImportKnown
    <3>2. NextImport(Top) \in Frames /\ NextImport(Top).errs = {}
      BY <2>2, <2>3, NextImportType
    <3>3. DOMAIN stack' = DOMAIN stack /\ stack'[1].errs = {}
          /\ \A i \in DOMAIN stack : i > 1 => stack'[i] = stack[i]
      BY <1>1, <2>1, <3>1, <3>2, ReplacedTop
    <3>4. ASSUME NEW i \in DOMAIN stack' PROVE stack'[i].errs = {}
      BY <2>2, <3>3 DEF NoErrors
    <3> QED
      BY <2>4, <3>4 DEF ImportKnown, AcceptImport, RegisterImport, NoErrors
  <2>5. CASE Descend
    <3> DEFINE f == Frame(Import, "import")
    <3>1. stack' = <<f, Top>> \o Tail(stack)
      BY <2>5 DEF Descend, Pushed
    <3>2. f \in Frames /\ f.errs = {}
      BY <1>1, <2>5, ImportType, FrameType
      DEF Descend, AcceptImport, RegisterImport, Frame
    <3> HIDE DEF f
    <3>3. /\ DOMAIN stack' = 1 .. Len(stack) + 1 /\ stack'[1].errs = {} /\ stack'[2].errs = {}
          /\ \A i \in DOMAIN stack : i > 1 => stack'[i + 1] = stack[i]
      BY <1>1, <2>1, <2>2, <2>3, <3>1, <3>2, PushedTop
    <3>4. ASSUME NEW i \in DOMAIN stack' PROVE stack'[i].errs = {}
      <4>1. CASE i > 2
        <5>1. i - 1 \in DOMAIN stack /\ i - 1 > 1 /\ (i - 1) + 1 = i
          BY <2>2, <3>3, <4>1
        <5> QED
          BY <3>3, <5>1 DEF NoErrors
      <4>2. CASE i = 1 \/ i = 2
        BY <3>3, <4>2
      <4> QED
        BY <2>2, <3>3, <4>1, <4>2
    <3> QED
      BY <2>5, <3>4 DEF Descend, AcceptImport, RegisterImport, NoErrors
  <2> QED
    BY <1>4, <2>4, <2>5
<1>5. CASE ReturnPackage \/ ReturnImport
  <2>1. Exhausted /\ Top.via # "root"
    BY <1>5 DEF ReturnPackage, ReturnImport
  <2>2. Len(stack) > 1 /\ 2 \in DOMAIN stack /\ stack[2] \in Frames
    BY <1>1, <2>1, CallerType
  <2>3. stack[2].errs = {}
    BY <2>2 DEF NoErrors
  <2>4. \E f \in Frames : f.errs = {} /\ stack' = <<f>> \o Tail(Tail(stack))
    BY <1>5, <2>2, <2>3, NextImportType DEF ReturnPackage, ReturnImport, ReturnTo
  <2>5. PICK f \in Frames : f.errs = {} /\ stack' = <<f>> \o Tail(Tail(stack))
    BY <2>4
  <2> DEFINE u == Tail(Tail(stack))
  <2>6. u \in Seq(Frames) /\ Len(u) = Len(stack) - 2 /\ Len(stack) \in Nat
        /\ \A i \in 1 .. Len(stack) - 2 : u[i] = stack[i + 2]
    BY <1>1, <2>2, TailOfTail
  <2>7. stack' = <<f>> \o u
    BY <2>5
  <2> HIDE DEF u
  <2>8. DOMAIN stack' = 1 .. Len(u) + 1 /\ stack'[1] = f
        /\ \A i \in DOMAIN stack' : i > 1 => stack'[i] = u[i - 1]
    BY <2>6, <2>7
  <2>9. ASSUME NEW i \in DOMAIN stack' PROVE stack'[i].errs = {}
    <3>1. CASE i > 1
      <4>1. i - 1 \in 1 .. Len(stack) - 2 /\ (i - 1) + 2 \in DOMAIN stack
        BY <1>1, <2>6, <2>8, <3>1
      <4> QED
        BY <2>6, <2>8, <3>1, <4>1 DEF NoErrors
    <3>2. CASE i = 1
      BY <2>5, <2>8, <3>2
    <3> QED
      BY <2>6, <2>8, <3>1, <3>2
  <2> QED
    BY <1>5, <2>9 DEF ReturnPackage, ReturnImport, NoErrors
<1>6. CASE ReturnRoot
  BY <1>6 DEF ReturnRoot, NoErrors
<1> QED
  BY <1>2, <1>3, <1>4, <1>5, <1>6 DEF Resolve

(* Without inlining each thread has one module in hand.                     *)
LEMMA OneInHand ==
  ASSUME Executing, BuildTyped, inlinedAt = {}, NEW t \in Paths, lowering[t] # <<>>
  PROVE  Len(lowering[t]) = 1 /\ ~IsInlined(t) /\ Targets = {}
<1>1. DOMAIN Place = {} /\ Targets = {}
  BY DEF Place, Targets
<1>2. LTop(t) = lowering[t][1] /\ Len(lowering[t]) \in Nat \ {0}
      /\ DOMAIN lowering[t] = 1 .. Len(lowering[t])
  BY InHandType
<1>3. \A i \in DOMAIN lowering[t] : /\ lowering[t][i].inlinedAt = {}
                                    /\ ~(i < Len(lowering[t]))
  BY <1>1 DEF Executing, StacksExact, Nested
<1>4. 1 \in DOMAIN lowering[t] /\ ~(1 < Len(lowering[t]))
  BY <1>2, <1>3
<1>5. Len(lowering[t]) = 1
  <2> DEFINE n == Len(lowering[t])
  <2>1. n \in Nat \ {0} /\ ~(1 < n)
    BY <1>2, <1>4
  <2> HIDE DEF n
  <2>2. n = 1
    BY <2>1
  <2> QED
    BY <2>2 DEF n
<1>6. LTop(t).inlinedAt = {}
  BY <1>2, <1>3, <1>4
<1> QED
  BY <1>1, <1>5, <1>6 DEF IsInlined

(* What a step does not disturb: analysed modules stay so, and a thread     *)
(* keeps its module, has none, or begins with a new one.                    *)
LEMMA MetKept ==
  ASSUME \A t \in Paths : ImportsMet(t), BuildTyped, project' = project,
         \A p \in Paths : Cached(p) => cache'[p] # "none",
         NEW t \in Paths,
         \/ lowering'[t] = lowering[t]
         \/ lowering'[t] = <<>>
         \/ \E m \in Paths : lowering'[t] = <<LowerFrame(m, inlinedAt)>>
  PROVE  ImportsMet(t)'
<1>1. CASE lowering'[t] = lowering[t]
  <2> SUFFICES ASSUME NEW i \in DOMAIN lowering[t], NEW n \in DOMAIN Body(lowering[t][i].mod),
                      n < lowering[t][i].next
               PROVE  LET p == Body(lowering[t][i].mod)[n]
                      IN  p = lowering[t][i].mod \/ cache'[p] # "none"
    BY <1>1 DEF ImportsMet, Body, Cached
  <2>1. lowering[t] \in Seq(LowerFrames)
    BY BuildTypes
  <2>2. lowering[t][i].mod \in Paths
    <3>1. lowering[t][i] \in LowerFrames
      BY <2>1
    <3> QED
      BY <3>1 DEF LowerFrames
  <2>3. Body(lowering[t][i].mod) \in Seq(Paths)
    BY <2>2, BodyType, BuildTypes
  <2>4. Body(lowering[t][i].mod)[n] \in Paths
    BY <2>3
  <2> QED
    BY <2>4 DEF ImportsMet
<1>2. CASE lowering'[t] = <<>>
  BY <1>2 DEF ImportsMet
<1>3. CASE \E m \in Paths : lowering'[t] = <<LowerFrame(m, inlinedAt)>>
  <2>1. PICK m \in Paths : lowering'[t] = <<LowerFrame(m, inlinedAt)>>
    BY <1>3
  <2>2. DOMAIN lowering'[t] = {1} /\ lowering'[t][1].mod = m /\ lowering'[t][1].next = 1
    BY <2>1 DEF LowerFrame
  <2>3. Body(m) \in Seq(Paths)
    BY BodyType, BuildTypes
  <2>4. \A n \in DOMAIN Body(m) : ~(n < 1)
    BY <2>3
  <2> QED
    BY <2>2, <2>4 DEF ImportsMet, Body
<1> QED
  BY <1>1, <1>2, <1>3

(* A thread goes past an import when it has been analysed, or is the module *)
(* itself.                                                                  *)
LEMMA UseImportMet ==
  ASSUME Executing, BuildTyped, inlinedAt = {}, NEW t \in Paths, UseImport(t),
         \A u \in Paths : ImportsMet(u)
  PROVE  \A u \in Paths : ImportsMet(u)'
<1> DEFINE s == lowering[t]
           m == LTop(t).mod
           p == LImport(t)
           c == CurrentPath(t)
           found == OnStack(t, p) \/ Cached(p)
           f == [LTop(t) EXCEPT !.next = @ + 1,
                                !.errs = IF found THEN @ ELSE @ \cup {LTop(t).mod}]
           r == <<f>> \o Tail(s)
<1>1. Lowering(t) /\ ~IsInlined(t) /\ (Joins(t) /\ parallel => JoinReturns(c, p))
      /\ project' = project /\ cache' = cache
  BY DEF UseImport, resolveVars
<1>2. /\ s # <<>> /\ Len(s) = 1 /\ Targets = {} /\ LTop(t) = s[1]
      /\ m \in Paths /\ p \in Paths /\ LTop(t).next \in DOMAIN Body(m)
      /\ p = Body(m)[LTop(t).next] /\ s \in Seq(LowerFrames) /\ DOMAIN s = {1}
      /\ LTop(t).next \in Nat
  BY <1>1, OneInHand, InHandType, BodyInHand DEF Lowering, LImport
<1>3. OnStack(t, p) => p = m
  BY <1>2 DEF OnStack
<1>4. ~OnStack(t, p) => p \in Own /\ Registered(p) /\ ~NoNeedToJoin(c, p)
  BY <1>1, <1>2, Met
<1>5. Joins(t) /\ ~parallel => Finished(p)
  <2> SUFFICES ASSUME Joins(t), ~parallel PROVE Finished(p)
    OBVIOUS
  <2>1. promises[p] # "running"
    BY <1>2 DEF Executing, ThreadsExact, PromisesExact
  <2> QED
    BY <1>2, <2>1, BuildTypes DEF Joins, Finished, Registered
<1>6. Joins(t) => Finished(p)
  BY <1>1, <1>4, <1>5 DEF Joins, JoinReturns
<1>7. p = m \/ Cached(p)
  BY <1>2, <1>3, <1>4, <1>6 DEF Joins, Finished, Executing, PromisesExact
<1>8. lowering' = [lowering EXCEPT ![t] = r]
  BY <1>6 DEF UseImport, JoinReturns
<1>9. f.mod = m /\ f.next = LTop(t).next + 1 /\ f \in LowerFrames
  BY <1>2, UsedFrame
<1> HIDE DEF f
<1>10. r \in Seq(LowerFrames) /\ DOMAIN r = {1} /\ r[1] = f
  BY <1>2, <1>9, ReplacedTop
<1> HIDE DEF r
<1>11. lowering'[t] = r /\ \A u \in Paths \ {t} : lowering'[u] = lowering[u]
  BY <1>8, <1>10, NewStack
<1>12. ImportsMet(t)'
  <2> SUFFICES ASSUME NEW n \in DOMAIN Body(m), n < LTop(t).next + 1
               PROVE  Body(m)[n] = m \/ Cached(Body(m)[n])
    BY <1>1, <1>9, <1>10, <1>11 DEF ImportsMet, Body, Cached
  <2>1. n < LTop(t).next \/ n = LTop(t).next
    <3>1. Body(m) \in Seq(Paths)
      BY <1>2, BodyType, BuildTypes
    <3>2. n \in Nat
      BY <3>1
    <3> QED
      BY <1>2, <3>2
  <2>2. CASE n < LTop(t).next
    BY <1>2, <2>2 DEF ImportsMet
  <2>3. CASE n = LTop(t).next
    BY <1>2, <1>7, <2>3
  <2> QED
    BY <2>1, <2>2, <2>3
<1>13. ASSUME NEW u \in Paths \ {t} PROVE ImportsMet(u)'
  BY <1>1, <1>11, MetKept DEF Cached
<1> QED
  BY <1>12, <1>13

(* The import graph of BuildOrder is what the modules need.                 *)
LEMMA OrderGraph ==
  ASSUME BuildTyped, Straight(project)
  PROVE  /\ \A m \in Paths : Order!ImportGraph[m] = Parents(Needs(project), m)
         /\ Order!Needed = Ancestors(Needs(project), Root) \cup {Root}
<1>1. ASSUME NEW m \in Paths PROVE Order!ImportGraph[m] = Imported(project, m) \ {m}
  <2>1. CASE m \in project.unparsed
    <3>1. project.imports[m] = <<>>
      BY <2>1 DEF Straight
    <3> QED
      BY <2>1, <3>1 DEF Order!ImportGraph, Imported
  <2>2. CASE m \notin project.unparsed
    BY <2>2 DEF Order!ImportGraph, Imported
  <2> QED
    BY <2>1, <2>2
<1>2. ASSUME NEW m \in Paths PROVE Parents(Needs(project), m) = Imported(project, m) \ {m}
  <2>1. Dragged(project, m) = {}
    BY DEF Straight
  <2> QED
    BY <2>1 DEF Needs, Parents
<1>3. Order!ImportGraph = Needs(project)
  <2>1. \A m \in Paths : Needs(project)[m] = Order!ImportGraph[m]
    BY <1>1, <1>2 DEF Needs, Parents
  <2> QED
    BY <2>1 DEF Order!ImportGraph, Needs
<1>4. Order!Needed = Ancestors(Needs(project), Root) \cup {Root}
  BY <1>3 DEF Order!Needed, Order!Ancestors, Ancestors, Order!Closed, Closed,
     Order!Parents, Parents
<1> QED
  BY <1>1, <1>2, <1>4

(* A thread that is done with its module has just the one BuildOrder may     *)
(* check next.                                                              *)
LEMMA LoweredChecks ==
  ASSUME Executing, BuildTyped, Ordered, builds = 1, NEW t \in Paths, ModuleLowered(t),
         threads[t] # "registered", project' = project,
         Checked' = Checked \cup {LTop(t).mod}
  PROVE  Order!Next
<1> DEFINE m == LTop(t).mod
           N == Needs(project)
<1>1. /\ lowering[t] # <<>> /\ On(lowering[t]) = {m} /\ Bottom(lowering[t]) = m
      /\ DOMAIN lowering[t] = {1} /\ lowering[t][1] = LTop(t)
      /\ LTop(t).next > Len(Body(m))
  BY OneFrame DEF Lowered
<1>2. /\ m \in Paths /\ Body(m) \in Seq(Paths) /\ m \in Own \cup {Root}
      /\ LTop(t).next \in Nat
  BY <1>1, InHandType, BodyInHand, BottomFacts
<1>3. m \in Order!Needed
  <2>1. Ancestors(graph, Root) \subseteq Ancestors(N, Root)
    BY NeedsFacts, AncestorsMonotone, RootAssumption, BuildTypes DEF Ordered, EdgesNeeded
  <2>2. m \in Ancestors(graph, Root) \cup {Root}
    BY <1>2, PlanFacts DEF Executing
  <2> QED
    BY <2>1, <2>2, OrderGraph DEF Ordered
<1>4. m \notin Checked
  <2>1. ~Cached(m)
    BY <1>1 DEF Executing, StacksExact
  <2>2. m = Root => mainPc = "lower"
    BY <1>1, RootInHand
  <2> QED
    BY <2>1, <2>2 DEF Checked
<1>5. Order!ImportGraph[m] \subseteq Checked
  <2> SUFFICES ASSUME NEW p \in Parents(N, m) PROVE p \in Checked
    BY <1>2, OrderGraph DEF Ordered
  <2>1. p \in Imported(project, m) \ {m}
    BY <1>2, NeedsFacts, BuildTypes DEF Ordered, Straight
  <2>2. PICK n \in DOMAIN Body(m) : p = Body(m)[n]
    BY <2>1 DEF Imported, Body
  <2>3. n < LTop(t).next
    <3>1. n \in Nat /\ n <= Len(Body(m)) /\ Len(Body(m)) \in Nat
      BY <1>2
    <3> QED
      BY <1>1, <1>2, <3>1
  <2>4. ImportsMet(t)
    BY DEF Ordered
  <2>5. p = m \/ Cached(p)
    BY <1>1, <2>2, <2>3, <2>4 DEF ImportsMet
  <2>6. p \in Paths
    BY <1>2, <2>2
  <2> QED
    BY <2>1, <2>5, <2>6 DEF Checked
<1> QED
  BY <1>2, <1>3, <1>4, <1>5 DEF Order!Next, Order!Check

(* The steps of the execution, as BuildOrder sees them: the end of an       *)
(* analysis, or nothing at all.                                             *)
LEMMA CheckedKept ==
  ASSUME cache' = cache, mainPc' = "done" <=> mainPc = "done"
  PROVE  Checked' = Checked
<1>1. {p \in Paths : Cached(p)}' = {p \in Paths : Cached(p)}
  BY DEF Cached
<1> QED
  BY <1>1 DEF Checked

LEMMA CheckedGrows ==
  ASSUME BuildTyped, NEW m \in Paths, NEW status, status # "none",
         cache' = [cache EXCEPT ![m] = status], mainPc' = "done" <=> mainPc = "done"
  PROVE  Checked' = Checked \cup {m}
<1>1. cache'[m] # "none" /\ \A p \in Paths \ {m} : cache'[p] = cache[p]
  BY BuildTypes
<1>2. {p \in Paths : Cached(p)}' = {p \in Paths : Cached(p)} \cup {m}
  BY <1>1 DEF Cached
<1> QED
  BY <1>2 DEF Checked


LEMMA OrderSteps ==
  ASSUME Executing, BuildTyped, Ordered, builds = 1, Main \/ \E t \in Paths : Thread(t)
  PROVE  Order!Next \/ UNCHANGED <<project.imports, Checked>>
<1>1. mainPc # "resolve" /\ inlinedAt = {}
  BY DEF Executing, Ordered
<1>2. CASE \E p \in Paths : \/ AlreadyKnown(p) \/ SpawnThread(p) \/ BuildHere(p)
                            \/ InlinedKnown(p) \/ InlinedWait(p) \/ InlinedOpen(p)
  <2>1. project' = project /\ cache' = cache /\ mainPc = "spawn" /\ mainPc' # "done"
    BY <1>2 DEF AlreadyKnown, SpawnThread, BuildHere, TakeAst, TakeAncestor, InlinedKnown,
       InlinedWait, InlinedOpen, TakeInlined, resolveVars, sharedVars
  <2> QED
    BY <2>1, CheckedKept
<1>3. CASE InsertPromise \/ WaitUntilFinished \/ CloseInlined \/ StartRoot
  <2>1. project' = project /\ cache' = cache /\ mainPc # "done" /\ mainPc' # "done"
    BY <1>3 DEF InsertPromise, WaitUntilFinished, CloseInlined, StartRoot, resolveVars, sharedVars
  <2> QED
    BY <2>1, CheckedKept
<1>4. CASE FinishHere
  <2>1. /\ mainPc = "build" /\ mainPc' = "spawn" /\ ModuleLowered(Root) /\ project' = project
        /\ cache' = [cache EXCEPT ![subject] = Status(LTop(Root))]
    BY <1>4 DEF FinishHere, resolveVars
  <2>2. LTop(Root).mod = subject /\ LTop(Root).mod \in Paths /\ threads[Root] # "registered"
    BY <2>1, OneFrame, InHandType, BuildTypes, RootAssumption DEF Executing, ThreadsExact
  <2>3. Checked' = Checked \cup {subject}
    BY <2>1, <2>2, CheckedGrows, StatusType
  <2> QED
    BY <2>1, <2>2, <2>3, LoweredChecks, RootAssumption
<1>5. CASE AbortRoot \/ JoinAll
  <2>1. /\ mainPc = "lower" /\ mainPc' = "done" /\ ModuleLowered(Root)
        /\ project' = project /\ cache' = cache
    BY <1>5 DEF AbortRoot, JoinAll, FinishRoot, resolveVars
  <2>2. LTop(Root).mod = Root /\ threads[Root] # "registered"
    BY <2>1, RootLowered, BuildTypes
  <2>3. Checked' = Checked \cup {Root}
    <3>1. {p \in Paths : Cached(p)}' = {p \in Paths : Cached(p)}
      BY <2>1 DEF Cached
    <3> QED
      BY <2>1, <3>1 DEF Checked
  <2> QED
    BY <2>1, <2>2, <2>3, LoweredChecks, RootAssumption
<1>6. ASSUME NEW t \in Paths, Thread(t)
      PROVE  Order!Next \/ UNCHANGED <<project.imports, Checked>>
  <2>1. CASE UseImport(t)
    <3>1. project' = project /\ cache' = cache /\ (mainPc' = "panic" \/ mainPc' = mainPc)
      BY <2>1 DEF UseImport, resolveVars
    <3>2. mainPc' # "panic"
      BY <2>1, UseImportFirst DEF Executing
    <3> QED
      BY <3>1, <3>2, CheckedKept
  <2>2. CASE EnterInline(t) \/ ReportAndExit(t)
    <3>1. project' = project /\ cache' = cache /\ mainPc' = mainPc
      BY <2>2 DEF EnterInline, ReportAndExit, resolveVars, mainVars
    <3> QED
      BY <3>1, CheckedKept
  <2>3. ~LeaveInline(t)
    BY <1>1, OneInHand DEF LeaveInline, Lowered
  <2>4. CASE RegisterModule(t)
    <3>1. /\ project' = project /\ mainPc' = mainPc /\ t # Root
          /\ threads[t] = "lowering" /\ ModuleLowered(t)
          /\ cache' = [cache EXCEPT ![t] = Status(LTop(t))]
      BY <2>4 DEF RegisterModule, resolveVars, mainVars
    <3>2. LTop(t).mod = t
      BY <3>1, OneFrame DEF Executing, ThreadsExact
    <3>3. Checked' = Checked \cup {t}
      BY <3>1, CheckedGrows, StatusType
    <3> QED
      BY <3>1, <3>2, <3>3, LoweredChecks
  <2> QED
    BY <1>6, <2>1, <2>2, <2>3, <2>4 DEF Thread
<1> QED
  BY <1>1, <1>2, <1>3, <1>4, <1>5, <1>6 DEF Main, StartExecution

(* What came before the import in hand stays analysed.                      *)
LEMMA MetByAll ==
  ASSUME \A t \in Paths : ImportsMet(t), BuildTyped, project' = project,
         \A p \in Paths : Cached(p) => cache'[p] # "none",
         NEW x \in Paths,
         \/ lowering' = lowering
         \/ lowering' = [lowering EXCEPT ![x] = <<>>]
         \/ \E m \in Paths : lowering' = [lowering EXCEPT ![x] = <<LowerFrame(m, inlinedAt)>>]
  PROVE  \A t \in Paths : ImportsMet(t)'
<1> SUFFICES ASSUME NEW t \in Paths PROVE ImportsMet(t)'
  OBVIOUS
<1>1. \/ lowering'[t] = lowering[t]
      \/ lowering'[t] = <<>>
      \/ \E m \in Paths : lowering'[t] = <<LowerFrame(m, inlinedAt)>>
  BY BuildTypes
<1> QED
  BY <1>1, MetKept

LEMMA OrderedStays ==
  ASSUME Executing, BuildTyped, Ordered, builds = 1,
         Main \/ (\E t \in Paths : Thread(t)) \/ UNCHANGED vars
  PROVE  /\ Straight(project)' /\ inlinedAt' = {} /\ EdgesNeeded'
         /\ \A t \in Paths : ImportsMet(t)'
<1>1. /\ mainPc # "resolve" /\ Straight(project) /\ inlinedAt = {} /\ EdgesNeeded
      /\ \A t \in Paths : ImportsMet(t)
  BY DEF Executing, Ordered
<1>2. UNCHANGED <<project, graph, inlinedAt>>
  BY <1>1 DEF Main, Thread, StartExecution, AlreadyKnown, SpawnThread, BuildHere, TakeAst,
     TakeAncestor, InlinedKnown, InlinedWait, InlinedOpen, TakeInlined, InsertPromise, FinishHere,
     WaitUntilFinished, CloseInlined, StartRoot, AbortRoot, JoinAll, FinishRoot, UseImport,
     EnterInline, LeaveInline, RegisterModule, ReportAndExit, resolveVars, vars
<1>3. Straight(project)' /\ inlinedAt' = {} /\ EdgesNeeded'
  BY <1>1, <1>2 DEF EdgesNeeded, Straight
<1>4. CASE \/ \E p \in Paths : AlreadyKnown(p) \/ InlinedKnown(p) \/ InlinedWait(p) \/ InlinedOpen(p)
           \/ InsertPromise \/ WaitUntilFinished \/ CloseInlined \/ UNCHANGED vars
  <2>1. lowering' = lowering /\ cache' = cache
    BY <1>4 DEF AlreadyKnown, TakeAst, InlinedKnown, InlinedWait, InlinedOpen, TakeInlined,
       InsertPromise, WaitUntilFinished, CloseInlined, sharedVars, vars
  <2> QED
    BY <1>1, <1>2, <1>3, <2>1, MetByAll, RootAssumption DEF Cached
<1>5. ASSUME NEW p \in Paths, SpawnThread(p) \/ BuildHere(p)
      PROVE  \A t \in Paths : ImportsMet(t)'
  <2>1. cache' = cache
    BY <1>5 DEF SpawnThread, BuildHere, TakeAst
  <2>2. \E x \in Paths : lowering' = [lowering EXCEPT ![x] = <<LowerFrame(p, inlinedAt)>>]
    BY <1>5, RootAssumption DEF SpawnThread, BuildHere
  <2> QED
    BY <1>1, <1>2, <2>1, <2>2, MetByAll DEF Cached
<1>6. CASE StartRoot
  <2>1. cache' = cache
        /\ (lowering' = lowering
            \/ lowering' = [lowering EXCEPT ![Root] = <<LowerFrame(Root, inlinedAt)>>])
    BY <1>6 DEF StartRoot
  <2> QED
    BY <1>1, <1>2, <1>3, <2>1, MetByAll, RootAssumption DEF Cached
<1>7. CASE FinishHere
  <2>1. /\ lowering' = [lowering EXCEPT ![Root] = <<>>]
        /\ cache' = [cache EXCEPT ![subject] = Status(LTop(Root))]
    BY <1>7 DEF FinishHere
  <2>2. \A p \in Paths : Cached(p) => cache'[p] # "none"
    BY <2>1, BuildTypes, StatusType DEF Cached
  <2> QED
    BY <1>1, <1>2, <1>3, <2>1, <2>2, MetByAll, RootAssumption
<1>8. CASE AbortRoot \/ JoinAll
  <2>1. lowering' = [lowering EXCEPT ![Root] = <<>>] /\ cache' = cache
    BY <1>8 DEF AbortRoot, JoinAll, FinishRoot
  <2> QED
    BY <1>1, <1>2, <1>3, <2>1, MetByAll, RootAssumption DEF Cached
<1>9. ASSUME NEW t \in Paths, Thread(t)
      PROVE  \A u \in Paths : ImportsMet(u)'
  <2>1. CASE UseImport(t)
    BY <1>1, <2>1, UseImportMet
  <2>2. ~EnterInline(t) /\ ~LeaveInline(t)
    BY <1>1, OneInHand DEF EnterInline, LeaveInline, Lowering, Lowered
  <2>3. CASE RegisterModule(t)
    <3>1. lowering' = lowering /\ cache' = [cache EXCEPT ![t] = Status(LTop(t))]
      BY <2>3 DEF RegisterModule
    <3>2. \A p \in Paths : Cached(p) => cache'[p] # "none"
      BY <3>1, BuildTypes, StatusType DEF Cached
    <3> QED
      BY <1>1, <1>2, <3>1, <3>2, MetByAll
  <2>4. CASE ReportAndExit(t)
    <3>1. lowering' = [lowering EXCEPT ![t] = <<>>] /\ cache' = cache
      BY <2>4 DEF ReportAndExit
    <3> QED
      BY <1>1, <1>2, <3>1, MetByAll DEF Cached
  <2> QED
    BY <1>9, <2>1, <2>2, <2>3, <2>4 DEF Thread
<1> QED
  BY <1>1, <1>3, <1>4, <1>5, <1>6, <1>7, <1>8, <1>9 DEF Main, StartExecution

LEMMA OrderedInit ==
  InitBuild /\ Straight(project) => Ordered /\ Order!Init
<1> SUFFICES ASSUME InitBuild, Straight(project) PROVE Ordered /\ Order!Init
  OBVIOUS
<1>1. /\ project \in Projects /\ graph = EmptyGraph /\ inlinedAt = {}
      /\ stack = <<Frame(Root, "root")>> /\ mainPc = "resolve"
      /\ lowering = [p \in Paths |-> <<>>] /\ cache = [p \in Paths |-> "none"]
  BY DEF InitBuild, Init
<1>2. NoErrors
  <2>1. Frame(Root, "root") \in Frames /\ Frame(Root, "root").errs = {}
    BY FrameType, RootAssumption DEF Frame
  <2>2. DOMAIN stack = {1} /\ stack[1] = Frame(Root, "root")
    BY <1>1, <2>1, Singleton
  <2> QED
    BY <2>1, <2>2 DEF NoErrors
<1>3. EdgesNeeded
  BY <1>1 DEF EdgesNeeded, EmptyGraph, Parents
<1>4. \A t \in Paths : ImportsMet(t)
  BY <1>1 DEF ImportsMet
<1>5. Order!Init
  BY <1>1 DEF Order!Init, Checked, Cached
<1> QED
  BY <1>1, <1>2, <1>3, <1>4, <1>5 DEF Ordered

LEMMA OrderedNext ==
  FirstBuild /\ BuildTyped /\ Ordered /\ [BuildNext]_vars =>
    /\ Ordered'
    /\ [builds' = 1 => Order!Next]_<<project.imports, Checked>>
<1> SUFFICES ASSUME FirstBuild, BuildTyped, Ordered, [BuildNext]_vars, builds' = 1
             PROVE  Ordered' /\ (Order!Next \/ UNCHANGED <<project.imports, Checked>>)
  BY DEF Ordered
<1>1. ~NextBuild
  BY BuildTypes, MaxBuildsAssumption DEF NextBuild
<1>2. /\ builds = 1
      /\ Main \/ ResolvePhase \/ (\E t \in Paths : Thread(t)) \/ UNCHANGED vars
  BY <1>1 DEF BuildNext, Terminated, Main, ResolvePhase, Thread, StartExecution, AlreadyKnown,
     SpawnThread, BuildHere, TakeAst, InlinedKnown, InlinedWait, InlinedOpen, TakeInlined,
     InsertPromise, FinishHere, WaitUntilFinished, CloseInlined, StartRoot, AbortRoot, JoinAll,
     UseImport, EnterInline, LeaveInline, RegisterModule, ReportAndExit, resultVars, vars
<1>3. /\ Straight(project) /\ inlinedAt = {} /\ EdgesNeeded
      /\ mainPc = "resolve" => NoErrors
      /\ \A t \in Paths : ImportsMet(t)
  BY <1>2 DEF Ordered
<1>4. FirstBuild'
  BY FirstBuildNext
<1>5. CASE UNCHANGED vars
  <2>1. UNCHANGED <<project, graph, inlinedAt, mainPc, stack, lowering, cache>>
    BY <1>5 DEF vars, resolveVars, mainVars, sharedVars
  <2>2. \A t \in Paths : ImportsMet(t)'
    BY <1>3, <2>1, MetByAll, RootAssumption DEF Cached
  <2>3. Ordered'
    BY <1>3, <2>1, <2>2 DEF Ordered, Straight, EdgesNeeded, NoErrors
  <2>4. Checked' = Checked
    BY <2>1, CheckedKept
  <2> QED
    BY <2>1, <2>3, <2>4
<1>6. CASE mainPc = "resolve" /\ ~UNCHANGED vars
  <2>1. Resolving
    BY <1>2, <1>6 DEF FirstBuild
  <2>2. CASE ResolvePhase
    <3>1. Inv /\ Resolve /\ mainPc' = mainPc /\ lowering' = lowering /\ cache' = cache
      BY <2>1, <2>2 DEF ResolvePhase, Resolving, mainVars, sharedVars
    <3>2. inlinedAt' = {} /\ NoErrors' /\ project' = project
      BY <1>3, <1>6, <3>1, StraightResolve
    <3>3. EdgesNeeded'
      BY <1>4, <1>6, <3>1 DEF FirstBuild, Resolving, Inv
    <3>4. \A t \in Paths : ImportsMet(t)'
      BY <1>3, <3>1, <3>2, MetByAll, RootAssumption DEF Cached
    <3>5. Checked' = Checked
      BY <3>1, CheckedKept
    <3>6. Straight(project)'
      BY <1>3, <3>2
    <3> QED
      BY <3>2, <3>3, <3>4, <3>5, <3>6 DEF Ordered
  <2>3. CASE Main
    <3>1. StartExecution
      BY <1>6, <2>3 DEF Main, StartExecution, AlreadyKnown, SpawnThread, BuildHere, TakeAst,
         TakeAncestor, InlinedKnown, InlinedWait, InlinedOpen, TakeInlined, InsertPromise,
         FinishHere, WaitUntilFinished, CloseInlined, StartRoot, AbortRoot, JoinAll, FinishRoot
    <3>2. /\ UNCHANGED <<project, graph, inlinedAt, lowering, cache>> /\ mainPc' = "spawn"
      BY <3>1 DEF StartExecution, resolveVars
    <3>3. \A t \in Paths : ImportsMet(t)'
      BY <1>3, <3>2, MetByAll, RootAssumption DEF Cached
    <3>4. Ordered'
      BY <1>3, <3>2, <3>3 DEF Ordered, Straight, EdgesNeeded
    <3>5. Checked' = Checked
      BY <1>6, <3>2, CheckedKept
    <3> QED
      BY <3>2, <3>4, <3>5
  <2>4. \A t \in Paths : ~Thread(t)
    <3>1. \A t \in Paths : lowering[t] = <<>> /\ threads[t] = "none"
      BY <2>1 DEF Resolving, NotStarted
    <3> QED
      BY <3>1 DEF Thread, UseImport, EnterInline, LeaveInline, RegisterModule,
         ReportAndExit, Lowering, Lowered, ModuleLowered
  <2> QED
    BY <1>2, <1>6, <2>2, <2>3, <2>4
<1>7. CASE mainPc # "resolve" /\ ~UNCHANGED vars
  <2>1. Executing
    BY <1>2, <1>7 DEF FirstBuild
  <2>2. Main \/ \E t \in Paths : Thread(t)
    BY <1>2, <1>7 DEF ResolvePhase
  <2>3. mainPc' # "resolve"
    BY <1>7, <2>2 DEF Main, Thread, StartExecution, AlreadyKnown, SpawnThread, BuildHere, TakeAst,
       TakeAncestor, InlinedKnown, InlinedWait, InlinedOpen, TakeInlined, InsertPromise,
       FinishHere, WaitUntilFinished, CloseInlined, StartRoot, AbortRoot, JoinAll, FinishRoot,
       UseImport, EnterInline, LeaveInline, RegisterModule, ReportAndExit, mainVars
  <2>4. Ordered'
    BY <1>2, <2>1, <2>2, <2>3, OrderedStays DEF Ordered
  <2> QED
    BY <1>2, <2>1, <2>2, <2>4, OrderSteps
<1> QED
  BY <1>5, <1>6, <1>7

(* The first build of a project without circular imports implements          *)
(* BuildOrder, up to fairness: with the modules in the cache, and the root   *)
(* when it is done, as what has been checked, each step of the scheduler, of *)
(* the threads and of resolution is either no step at all or the analysis of *)
(* one module the root needs, which nobody analysed before, after everything *)
(* it imports.                                                               *)
THEOREM BuildFollowsOrder ==
  BuildSpec /\ Straight(project) =>
    /\ Order!Init
    /\ [][builds' = 1 => Order!Next]_<<project.imports, Checked>>
<1>1. InitBuild /\ Straight(project) =>
        FirstBuild /\ BuildTyped /\ Ordered /\ Order!Init
  BY StraightApart, FirstBuildInit, BuildTypedInit, OrderedInit
<1>2. FirstBuild /\ BuildTyped /\ Ordered /\ [BuildNext]_vars =>
        /\ (FirstBuild /\ BuildTyped /\ Ordered)'
        /\ [builds' = 1 => Order!Next]_<<project.imports, Checked>>
  BY FirstBuildNext, BuildTypedNext, OrderedNext
<1> QED
  BY <1>1, <1>2, PTL DEF BuildSpec

=============================================================================
