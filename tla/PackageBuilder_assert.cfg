\* Does resolution return without an error, whatever was built before?
CONSTANTS
  r = r
  a = a
  b = b
  c = c
  Paths = {r, a, b}
  Root = r
  NoPath = NoPath
  Projects <- AllProjects
  ParallelChoices = {TRUE}
  DeclPaths = {}
  FaultyChoices <- NoFault
  MaxBuilds = 2
SPECIFICATION BuildSpec
INVARIANT RootResolves
