\* Three modules, one of them a declaration file, at most one faulty; two inputs
\* of the interactive shell, one after the other.
CONSTANTS
  r = r
  a = a
  b = b
  c = c
  Paths = {r, a, b}
  Root = r
  NoPath = NoPath
  Projects <- AllProjects
  ParallelChoices = {TRUE}
  DeclPaths = {b}
  FaultyChoices <- OneFault
  MaxBuilds = 2
SPECIFICATION BuildSpec
INVARIANT NoPanic
INVARIANT FailuresReported
PROPERTY BuildEnds
