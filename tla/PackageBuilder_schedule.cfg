\* Is what a module sees of its imports the same on every schedule?
CONSTANTS
  r = r
  a = a
  b = b
  c = c
  Paths = {r, a, b}
  Root = r
  NoPath = NoPath
  Projects <- AllProjects
  ParallelChoices = {TRUE}
  DeclPaths = {}
  FaultyChoices <- NoFault
  MaxBuilds = 1
SPECIFICATION BuildSpec
INVARIANT NothingMissed
