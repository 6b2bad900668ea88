-------------------------- MODULE DependencyGraph ---------------------------
(***************************************************************************)
(* What the module graph promises to its users: a finite map from paths to *)
(* their direct dependencies that never contains a cycle.  ModuleGraph,    *)
(* with its vector and its index of positions, is shown to implement it.   *)
(***************************************************************************)
EXTENDS DepGraph

VARIABLE deps   \* path -> the paths it directly depends on

Init == deps = EmptyGraph

\* `referrer' imports t, both entered if they are new; refused if t needs
\* referrer.
Reference(referrer, t) == deps' = IncRef(AddNode(deps, t), referrer, t)

Drop(p) == p \in DOMAIN deps /\ deps' = RemoveNode(deps, p)

Rename(old, new) ==
  /\ old \in DOMAIN deps /\ new \notin DOMAIN deps
  /\ deps' = RenameNode(deps, old, new)

Clear == deps' = EmptyGraph

Next ==
  \/ \E p \in Paths : Drop(p)
  \/ \E p, t \in Paths : Reference(p, t)
  \/ \E p, q \in Paths : Rename(p, q)
  \/ Clear

Spec == Init /\ [][Next]_deps
=============================================================================
