\* Four modules, with threads on every schedule and without threads.
CONSTANTS
  r = r
  a = a
  b = b
  c = c
  Paths = {r, a, b, c}
  Root = r
  NoPath = NoPath
  Projects <- AllProjects
  ParallelChoices = {TRUE, FALSE}
  DeclPaths = {}
  FaultyChoices <- NoFault
  MaxBuilds = 1
SPECIFICATION BuildSpec
SYMMETRY Symmetry
INVARIANT BuilderTypeOK
INVARIANT NoPanic
INVARIANT EveryAstStarted
INVARIANT AnalysedOnce
INVARIANT StartedAfterDependencies
INVARIANT OnlyInlinedMissed
