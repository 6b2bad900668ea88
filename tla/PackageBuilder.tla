--------------------------- MODULE PackageBuilder ----------------------------
(***************************************************************************)
(* Building a package: GenericPackageBuilder::execute and what it starts   *)
(* (crates/erg_compiler/build_package.rs), the promises of the analysis    *)
(* threads (module/promise.rs), and the part of lowering that looks        *)
(* imported modules up (context/inquire.rs, lower.rs).                     *)
(*                                                                         *)
(* When resolution has finished, the main thread walks the ancestors of    *)
(* the root in dependency order and starts one analysis thread for each    *)
(* module that has an AST of its own.  A module that was inlined gets no   *)
(* thread: the thread of its inliner analyses it.  A thread that meets an  *)
(* import joins the thread of the imported module first.  The main thread  *)
(* finally lowers the root itself, joins everybody and collects errors.    *)
(*                                                                         *)
(* This is the compiler of the command line and of the interactive shell,  *)
(* which builds one input after the other with the same shared resources;  *)
(* the language server's checks are not modelled here.                     *)
(***************************************************************************)
EXTENDS ResolverProperties

CONSTANTS
  ParallelChoices, \* is the compiler built with the feature "parallel"?
  DeclPaths,       \* the declaration modules (.d.er, .pyi)
  FaultyChoices,   \* the sets of modules that may have errors of their own
  MaxBuilds        \* bound on the inputs built one after the other

ASSUME ParallelAssumption == ParallelChoices \subseteq BOOLEAN
ASSUME DeclPathsAssumption == DeclPaths \subseteq Paths \ {Root}
ASSUME FaultyChoicesAssumption == FaultyChoices \subseteq SUBSET Paths
ASSUME MaxBuildsAssumption == MaxBuilds \in Nat \ {0}

VARIABLES
  parallel,   \* is the compiler built with the feature "parallel"?
  faulty,     \* the modules with errors of their own
  mainPc,     \* where the main thread is
  work,       \* the frames of build_deps_and_module(), innermost first
  clone,      \* its working copy of the graph
  subject,    \* the module main is starting, building or waiting for
  deps,       \* the dependencies the artifact lists
  promises,   \* shared.promises
  threads,    \* the analysis threads, by module
  lowering,   \* the modules a thread is lowering, innermost first
  cache,      \* shared.mod_cache and shared.py_mod_cache
  errors,     \* shared.errors: the modules errors were found in
  missing,    \* <<m, p>>: m was lowered without finding its import p
  reported,   \* the errors of the artifact
  aborted,    \* lower() of the root returned before it joined the threads
  builds      \* the inputs built so far, this one included

inputVars == <<parallel, faulty>>
mainVars == <<mainPc, work, clone, subject, deps>>
sharedVars == <<promises, threads, lowering, cache, errors, missing>>
resultVars == <<reported, aborted, builds>>
vars == <<resolveVars, inputVars, mainVars, sharedVars, resultVars>>

\* Mutant: an ancestor that is not ready at once is dropped.
ReadyFrame(g, path, inlined) ==
  [pending |-> {q \in Ancestors(g, path) : Parents(g, q) = {}}, inlined |-> inlined]

\* A frame of build_deps_and_module(): the ancestors still to be visited and,
\* if the frame was opened for an inlined module, that module.
WorkFrame(g, path, inlined) ==
  [pending |-> Ancestors(g, path), inlined |-> inlined]

\* Mutant: lowering starts before the first import.
EarlyFrame(m, at) == [mod |-> m, next |-> 0, errs |-> {}, inlinedAt |-> at]

\* A module being lowered: its next import, the errors found so far, and the
\* imports that were replaced by ASTs when its own AST was made.
LowerFrame(m, at) == [mod |-> m, next |-> 1, errs |-> {}, inlinedAt |-> at]

InitBuild ==
  /\ Init
  /\ parallel \in ParallelChoices
  /\ faulty \in FaultyChoices
  /\ mainPc = "resolve"
  /\ work = <<>>
  /\ clone = EmptyGraph
  /\ subject = NoPath
  /\ deps = {}
  /\ promises = [p \in Paths |-> "none"]
  /\ threads = [p \in Paths |-> "none"]
  /\ lowering = [p \in Paths |-> <<>>]
  /\ cache = [p \in Paths |-> "none"]
  /\ errors = {}
  /\ missing = {}
  /\ reported = {}
  /\ aborted = FALSE
  /\ builds = 1

Registered(p) == promises[p] # "none"
Cached(p) == cache[p] # "none"

-----------------------------------------------------------------------------
(* Joining (module/promise.rs) *)

\* Mutants: a thread is finished as soon as there is one; or as soon as its
\* module is in the cache.
StartedIsFinished(p) == promises[p] \in {"running", "joined"}
CachedIsFinished(p) ==
  \/ promises[p] = "joined"
  \/ promises[p] = "running" /\ threads[p] \in {"registered", "exited"}

Finished(p) ==
  \/ promises[p] = "joined"
  \/ promises[p] = "running" /\ threads[p] = "exited"

\* Mutant: the dependency is looked up the wrong way round.
NoNeedToJoinSwapped(current, p) ==
  \/ current = p
  \/ DeepDependsOn(graph, current, p)
  \/ ~DeepDependsOn(graph, p, current)

\* join() returns at once if it would wait for itself or a descendant, or for
\* a module `current' does not depend on ...
NoNeedToJoin(current, p) ==
  \/ current = p
  \/ DeepDependsOn(graph, p, current)
  \/ ~DeepDependsOn(graph, current, p)

\* ... and otherwise when the thread has exited.
JoinReturns(current, p) == NoNeedToJoin(current, p) \/ Finished(p)

Joined(current, ps) ==
  [p \in Paths |-> IF p \in ps /\ ~NoNeedToJoin(current, p) THEN "joined"
                   ELSE promises[p]]

-----------------------------------------------------------------------------
(* Lowering one module, on thread t: an analysis thread, or the main thread, *)
(* which goes under the name of the root.                                    *)

LTop(t) == Head(lowering[t])
LBottom(t) == lowering[t][Len(lowering[t])]
Lowering(t) == lowering[t] # <<>> /\ LTop(t).next <= Len(Body(LTop(t).mod))
Lowered(t) == lowering[t] # <<>> /\ LTop(t).next > Len(Body(LTop(t).mod))
LImport(t) == Body(LTop(t).mod)[LTop(t).next]
IsInlined(t) == <<LTop(t).mod, LTop(t).next>> \in LTop(t).inlinedAt
OnStack(t, p) == \E i \in DOMAIN lowering[t] : lowering[t][i].mod = p

\* current_path(): the module of the thread.  Main is the root, except while
\* it runs, without the feature "parallel", what would be another's thread.
CurrentPath(t) ==
  IF t = Root /\ LBottom(t).mod \in DeclPaths THEN Root ELSE LBottom(t).mod

\* The import is being analysed by somebody else.
Joins(t) == ~OnStack(t, LImport(t)) /\ Registered(LImport(t)) /\ ~Cached(LImport(t))

\* An import that is looked up with get_mod_with_path(): in the modules being
\* lowered, else, after a join if the module is being analysed, in the cache.
\* The code takes one lock after the other; promises and the cache only grow, so
\* what it finds is what it would have found at one of these moments.
UseImport(t) ==
  /\ Lowering(t)
  /\ ~IsInlined(t)
  /\ LET p       == LImport(t)
         current == CurrentPath(t)
         found   == OnStack(t, p) \/ Cached(p)
         frame   == [LTop(t) EXCEPT !.next = @ + 1,
                                    !.errs = IF found THEN @ ELSE @ \cup {LTop(t).mod}]
     IN  /\ Joins(t) /\ parallel => JoinReturns(current, p)
         /\ IF Joins(t) /\ ~parallel /\ ~JoinReturns(current, p)
            THEN mainPc' = "panic" /\ UNCHANGED <<promises, lowering, missing>>
            ELSE /\ promises' = IF Joins(t) /\ parallel THEN Joined(current, {p})
                                ELSE promises
                 /\ lowering' = [lowering EXCEPT ![t] = <<frame>> \o Tail(@)]
                 /\ missing' = IF found THEN missing
                               ELSE missing \cup {<<LTop(t).mod, p>>}
                 /\ UNCHANGED mainPc
  /\ UNCHANGED <<resolveVars, inputVars, work, clone, subject, deps, threads, cache,
                 errors, resultVars>>

\* An import replaced by the module's AST: it is lowered here and now, with
\* the module around it in scope.  (The shortcut for a module that is complete
\* in the cache asks for its AST, which only the language server caches.)
EnterInline(t) ==
  /\ Lowering(t)
  /\ IsInlined(t)
  /\ lowering' = [lowering EXCEPT ![t] = <<LowerFrame(LImport(t), LTop(t).inlinedAt)>> \o @]
  /\ UNCHANGED <<resolveVars, inputVars, mainVars, promises, threads, cache, errors,
                 missing, resultVars>>

ErrsOf(frame) == frame.errs \cup (faulty \cap {frame.mod})
Status(frame) == IF ErrsOf(frame) = {} THEN "succeed" ELSE "failed"

\* Mutant: the importer goes on where it was.
InlineAgain(outer, inner) == [outer EXCEPT !.errs = @ \cup ErrsOf(inner)]

AfterInline(outer, inner) ==
  [outer EXCEPT !.next = @ + 1, !.errs = @ \cup ErrsOf(inner)]

LeaveInline(t) ==
  /\ Lowered(t)
  /\ Len(lowering[t]) > 1
  /\ lowering' = [lowering EXCEPT
       ![t] = <<AfterInline(lowering[t][2], LTop(t))>> \o SubSeq(@, 3, Len(@))]
  /\ cache' = [cache EXCEPT ![LTop(t).mod] = Status(LTop(t))]
  /\ UNCHANGED <<resolveVars, inputVars, mainVars, promises, threads, errors, missing,
                 resultVars>>

ModuleLowered(t) == Lowered(t) /\ Len(lowering[t]) = 1

\* The end of an analysis thread: first the cache entry, then the errors.
RegisterModule(t) ==
  /\ t # Root
  /\ threads[t] = "lowering"
  /\ ModuleLowered(t)
  /\ cache' = [cache EXCEPT ![t] = Status(LTop(t))]
  /\ threads' = [threads EXCEPT ![t] = "registered"]
  /\ UNCHANGED <<resolveVars, inputVars, mainVars, promises, lowering, errors, missing,
                 resultVars>>

ReportAndExit(t) ==
  /\ threads[t] = "registered"
  /\ errors' = errors \cup ErrsOf(LTop(t))
  /\ threads' = [threads EXCEPT ![t] = "exited"]
  /\ lowering' = [lowering EXCEPT ![t] = <<>>]
  /\ UNCHANGED <<resolveVars, inputVars, mainVars, promises, cache, missing, resultVars>>

Thread(t) ==
  \/ UseImport(t)
  \/ EnterInline(t)
  \/ LeaveInline(t)
  \/ RegisterModule(t)
  \/ ReportAndExit(t)

-----------------------------------------------------------------------------
(* The main thread (build_root, execute) *)

\* Resolution is over: its parse errors become shared, and the work starts on
\* a copy of the graph.
StartExecution ==
  /\ mainPc = "resolve"
  /\ Resolved
  /\ mainPc' = "spawn"
  /\ errors' = errors \cup (project.unparsed \cap DOMAIN graph)
  /\ clone' = graph
  /\ work' = <<WorkFrame(graph, Root, NoPath)>>
  /\ UNCHANGED <<resolveVars, inputVars, subject, deps, promises, threads, lowering,
                 cache, missing, resultVars>>

WTop == Head(work)
Taken(p) == [WTop EXCEPT !.pending = @ \ {p}]

\* Mutant: any ancestor is ready.
AnyPending(p) == p \in WTop.pending

\* An ancestor is ready when the copy lists no parent of it any more; the
\* others go back to the end of the list.  The list is in hash order.
Ready(p) == p \in WTop.pending /\ Parents(clone, p) = {}

TakeAncestor(p) ==
  /\ mainPc = "spawn"
  /\ work # <<>>
  /\ Ready(p)
  /\ clone' = RemoveNode(clone, p)

\* The module has an AST of its own: start_analysis_process().  Only the deps
\* of the outermost call are kept.
TakeAst(p) ==
  /\ TakeAncestor(p)
  /\ p \in asts
  /\ asts' = asts \ {p}
  /\ deps' = IF Len(work) = 1 THEN deps \cup {p} ELSE deps
  /\ work' = <<Taken(p)>> \o Tail(work)
  /\ UNCHANGED <<project, graph, inlines, inlinedAt, cyclic, stack, resolveErrs>>
  /\ UNCHANGED <<inputVars, promises, cache, errors, missing, resultVars>>

AlreadyKnown(p) ==
  /\ TakeAst(p)
  /\ Registered(p) \/ Cached(p)
  /\ UNCHANGED <<mainPc, subject, threads, lowering>>

SpawnThread(p) ==
  /\ TakeAst(p)
  /\ ~(Registered(p) \/ Cached(p))
  /\ parallel /\ p \notin DeclPaths
  /\ threads' = [threads EXCEPT ![p] = "lowering"]
  /\ lowering' = [lowering EXCEPT ![p] = <<LowerFrame(p, inlinedAt)>>]
  /\ subject' = p
  /\ mainPc' = "insert"

\* Declarations, and every module without the feature "parallel", are built
\* by the main thread.
BuildHere(p) ==
  /\ TakeAst(p)
  /\ ~(Registered(p) \/ Cached(p))
  /\ ~parallel \/ p \in DeclPaths
  /\ lowering' = [lowering EXCEPT ![Root] = <<LowerFrame(p, inlinedAt)>>]
  /\ subject' = p
  /\ mainPc' = "build"
  /\ UNCHANGED threads

\* The thread is already running when its promise is inserted.
InsertPromise ==
  /\ mainPc = "insert"
  /\ promises' = IF Registered(subject) THEN promises
                 ELSE [promises EXCEPT ![subject] = "running"]
  /\ subject' = NoPath
  /\ mainPc' = "spawn"
  /\ UNCHANGED <<resolveVars, inputVars, work, clone, deps, threads, lowering, cache,
                 errors, missing, resultVars>>

\* Mutant: nothing is recorded.
NotMarked(p) == promises

MarkedAsJoined(p) == [promises EXCEPT ![p] = "joined"]

FinishHere ==
  /\ mainPc = "build"
  /\ ModuleLowered(Root)
  /\ cache' = [cache EXCEPT ![subject] = Status(LTop(Root))]
  /\ errors' = errors \cup ErrsOf(LTop(Root))
  /\ promises' = MarkedAsJoined(subject)
  /\ lowering' = [lowering EXCEPT ![Root] = <<>>]
  /\ subject' = NoPath
  /\ mainPc' = "spawn"
  /\ UNCHANGED <<resolveVars, inputVars, work, clone, deps, threads, missing, resultVars>>

\* The module has no AST of its own: build_inlined_module().
TakeInlined(p) ==
  /\ TakeAncestor(p)
  /\ p \notin asts
  /\ UNCHANGED <<resolveVars, inputVars, deps, sharedVars, resultVars>>

InlinedKnown(p) ==
  /\ TakeInlined(p)
  /\ Cached(p)
  /\ work' = <<Taken(p)>> \o Tail(work)
  /\ UNCHANGED <<mainPc, subject>>

InlinedWait(p) ==
  /\ TakeInlined(p)
  /\ ~Cached(p) /\ Registered(p)
  /\ work' = <<Taken(p)>> \o Tail(work)
  /\ subject' = p
  /\ mainPc' = "wait"

\* Everything the inliner depends on is visited first.  That a module is
\* neither parsed nor inlined is taken to be unreachable.
InlinedOpen(p) ==
  /\ TakeInlined(p)
  /\ ~Cached(p) /\ ~Registered(p)
  /\ IF p \in DOMAIN inlines
     THEN /\ work' = <<WorkFrame(clone', inlines[p], p), Taken(p)>> \o Tail(work)
          /\ UNCHANGED mainPc
     ELSE /\ mainPc' = "panic"
          /\ UNCHANGED work
  /\ UNCHANGED subject

WaitUntilFinished ==
  /\ mainPc = "wait"
  /\ Finished(subject)
  /\ subject' = NoPath
  /\ mainPc' = "spawn"
  /\ UNCHANGED <<resolveVars, inputVars, work, clone, deps, sharedVars, resultVars>>

\* The inlined module counts as joined once its inliner's ancestors have been
\* visited; it is analysed whenever the inliner is.
CloseInlined ==
  /\ mainPc = "spawn"
  /\ Len(work) > 1
  /\ WTop.pending = {}
  /\ promises' = MarkedAsJoined(WTop.inlined)
  /\ work' = Tail(work)
  /\ UNCHANGED <<resolveVars, inputVars, mainPc, clone, subject, deps, threads, lowering,
                 cache, errors, missing, resultVars>>

\* All ancestors have been visited: execute() asserts that each of them was
\* registered, forgets the ASTs, and lowers the root.
StartRoot ==
  /\ mainPc = "spawn"
  /\ Len(work) = 1
  /\ WTop.pending = {}
  /\ work' = <<>>
  /\ IF \A p \in Ancestors(graph, Root) : Registered(p)
     THEN /\ mainPc' = "lower"
          /\ lowering' = [lowering EXCEPT ![Root] = <<LowerFrame(Root, inlinedAt)>>]
          /\ asts' = {} /\ cyclic' = {}
          /\ inlines' = [p \in {} |-> Root]
     ELSE /\ mainPc' = "panic"
          /\ UNCHANGED <<lowering, asts, inlines, cyclic>>
  /\ UNCHANGED <<project, graph, inlinedAt, stack, resolveErrs, inputVars, clone, subject,
                 deps, promises, threads, cache, errors, missing, resultVars>>

FinishRoot ==
  /\ mainPc = "lower"
  /\ ModuleLowered(Root)
  /\ mainPc' = "done"
  /\ lowering' = [lowering EXCEPT ![Root] = <<>>]
  /\ UNCHANGED <<resolveVars, inputVars, work, clone, subject, deps, threads, cache, missing>>

\* Type inference of the root failed: lower() returns with the root's errors.
AbortRoot ==
  /\ FinishRoot
  /\ Root \in faulty
  /\ reported' = ErrsOf(LTop(Root))
  /\ aborted' = TRUE
  /\ UNCHANGED <<promises, errors, builds>>

\* join_all(), then everybody's errors are taken.
JoinAll ==
  /\ FinishRoot
  /\ \A p \in Paths : Registered(p) => JoinReturns(Root, p)
  /\ promises' = Joined(Root, {p \in Paths : Registered(p)})
  /\ reported' = ErrsOf(LTop(Root)) \cup errors
  /\ errors' = {}
  /\ UNCHANGED <<aborted, builds>>

Main ==
  \/ StartExecution
  \/ \E p \in Paths :
       \/ AlreadyKnown(p) \/ SpawnThread(p) \/ BuildHere(p)
       \/ InlinedKnown(p) \/ InlinedWait(p) \/ InlinedOpen(p)
  \/ InsertPromise
  \/ FinishHere
  \/ WaitUntilFinished
  \/ CloseInlined
  \/ StartRoot
  \/ AbortRoot
  \/ JoinAll

Stopped == mainPc \in {"done", "panic"}

\* The shell hands the next input to the same builder: another root, with the
\* same modules around it and everything shared as the last build left it.
NextBuild ==
  /\ mainPc = "done"
  /\ builds < MaxBuilds
  /\ builds' = builds + 1
  /\ project' \in {q \in Projects :
                    /\ q.package = project.package /\ q.unparsed = project.unparsed
                    /\ \A p \in Paths \ {Root} : q.imports[p] = project.imports[p]}
  /\ faulty' \in {f \in FaultyChoices : f \ {Root} = faulty \ {Root}}
  /\ stack' = <<Frame(Root, "root")>>
  /\ inlinedAt' = {} /\ resolveErrs' = {}
  /\ mainPc' = "resolve"
  /\ deps' = {} /\ reported' = {} /\ aborted' = FALSE
  /\ UNCHANGED <<graph, asts, inlines, cyclic, parallel, work, clone, subject, sharedVars>>

ResolvePhase ==
  /\ mainPc = "resolve"
  /\ Resolve
  /\ UNCHANGED <<inputVars, mainVars, sharedVars, resultVars>>

\* The process is over, or what is left of it are detached threads.
Terminated ==
  /\ Stopped
  /\ UNCHANGED vars

BuildNext ==
  \/ ResolvePhase
  \/ Main
  \/ \E t \in Paths : Thread(t)
  \/ NextBuild
  \/ Terminated

\* Each thread, the main one included, is scheduled again and again; nobody
\* has to type another input.
BuildSpec ==
  /\ InitBuild
  /\ [][BuildNext]_vars
  /\ WF_vars(ResolvePhase \/ Main \/ Thread(Root))
  /\ \A t \in Paths \ {Root} : WF_vars(Thread(t))

=============================================================================
