-------------------------- MODULE BuilderProperties --------------------------
(***************************************************************************)
(* What building a package guarantees.                                     *)
(***************************************************************************)
EXTENDS PackageBuilder

(* Type invariant of the build. *)
BuilderTypeOK ==
  /\ ResolverTypeOK
  /\ parallel \in ParallelChoices
  /\ faulty \in FaultyChoices
  /\ mainPc \in {"resolve", "spawn", "insert", "build", "wait", "lower", "done", "panic"}
  /\ \A i \in DOMAIN work :
       work[i] \in [pending : SUBSET Paths, inlined : Paths \cup {NoPath}]
  /\ DOMAIN clone \subseteq DOMAIN graph
  /\ subject \in Paths \cup {NoPath}
  /\ deps \subseteq Paths
  /\ promises \in [Paths -> {"none", "running", "joined"}]
  /\ threads \in [Paths -> {"none", "lowering", "registered", "exited"}]
  /\ \A t \in Paths : \A i \in DOMAIN lowering[t] :
       lowering[t][i] \in [mod : Paths, next : Nat \ {0}, errs : SUBSET Paths,
                           inlinedAt : SUBSET (Paths \X (Nat \ {0}))]
  /\ cache \in [Paths -> {"none", "succeed", "failed"}]
  /\ errors \subseteq Paths
  /\ missing \subseteq Paths \X Paths
  /\ reported \subseteq Paths
  /\ aborted \in BOOLEAN
  /\ builds \in 1 .. MaxBuilds

(* No assertion of the builder fails: the ancestors of the root are all    *)
(* registered when the root is lowered (execute), a module without an AST  *)
(* is an inlined one (build_inlined_module), without threads a module is   *)
(* finished before it is joined, and, in debug mode, a promise is inserted *)
(* once and only a module that is related is joined (SharedPromises).      *)
(* There is one exception, build_root's assertion that resolution returns  *)
(* no error: it holds of the first input, and of a later one unless a      *)
(* refused import names a module that an earlier input started.            *)
NoPanic ==
  /\ mainPc # "panic"
  /\ mainPc = "resolve" /\ Resolved => \A p \in resolveErrs : Registered(p)
  /\ mainPc = "insert" => ~Registered(subject)
  /\ \A t \in Paths :
       Lowering(t) /\ ~IsInlined(t) /\ Joins(t) =>
         LET current == CurrentPath(t)
             p       == LImport(t)
         IN  \/ current = p
             \/ DeepDependsOn(graph, p, current)
             \/ DeepDependsOn(graph, current, p)

(* Everything that was parsed was started when the root is lowered         *)
(* (debug_power_assert in execute).                                        *)
EveryAstStarted ==
  mainPc = "spawn" /\ Len(work) = 1 /\ WTop.pending = {} => asts = {}

(* A module is analysed at most once, and by one thread, whether it has a  *)
(* thread, is inlined or is built by main: nothing being lowered is in the *)
(* cache or on another stack, so no cache entry is ever replaced.          *)
AnalysedOnce ==
  \A t \in Paths : \A i \in DOMAIN lowering[t] :
    LET m == lowering[t][i].mod
    IN  /\ Cached(m) => threads[t] = "registered"
        /\ \A u \in Paths : \A j \in DOMAIN lowering[u] :
             lowering[u][j].mod = m => t = u /\ i = j

(* When a thread is started, everything its module depends on has been     *)
(* started too, or is being opened as an inlined module further out.       *)
StartedAfterDependencies ==
  \A p \in Paths :
    threads[p] # "none" =>
      \A d \in Parents(graph, p) :
        Registered(d) \/ \E i \in DOMAIN work : work[i].inlined = d

(* An import is only ever missed if its target was inlined: threads wait   *)
(* long enough for every module that has a thread of its own.              *)
OnlyInlinedMissed ==
  \A e \in missing : \E at \in inlinedAt : Body(at[1])[at[2]] = e[2]

(* A build that ends normally reports the errors of every module of the    *)
(* package, and no thread is still at work.  (A later build by the same    *)
(* builder does not: what it finds in the cache it neither analyses nor    *)
(* reports again.)                                                         *)
FailuresReported ==
  mainPc = "done" /\ ~aborted /\ builds = 1 =>
    /\ faulty \cap (DOMAIN graph \cup {Root}) \subseteq reported
    /\ {e[1] : e \in missing} \subseteq reported
    /\ \A t \in Paths : threads[t] \in {"none", "exited"}

(* "Invariant condition: `build_module` must be idempotent": what a module *)
(* sees of its imports must not depend on how the threads are scheduled.   *)
NothingMissed == missing = {}

(* Every build ends: no thread waits for another for ever.                 *)
BuildEnds == []<>Stopped

(* Without circular imports the modules are analysed in dependency order:  *)
(* each once, after everything it imports, and none is left out.           *)
Checked == {p \in Paths : Cached(p)} \cup (IF mainPc = "done" THEN {Root} ELSE {})
Order == INSTANCE BuildOrder WITH
  imports <- project.imports, checked <- Checked,
  ImportChoices <- {p.imports : p \in Projects}
ImplementsBuildOrder == Order!Spec

=============================================================================
