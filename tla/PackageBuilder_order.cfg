\* Four modules without a cycle: the order of the analyses.
CONSTANTS
  r = r
  a = a
  b = b
  c = c
  Paths = {r, a, b, c}
  Root = r
  NoPath = NoPath
  Projects <- AcyclicProjects
  ParallelChoices = {TRUE}
  DeclPaths = {}
  FaultyChoices <- NoFault
  MaxBuilds = 1
SPECIFICATION BuildSpec
PROPERTY ImplementsBuildOrder
