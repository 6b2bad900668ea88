\* Four names of modules, any of which the editor may rename.
CONSTANTS
  a = a
  b = b
  c = c
  d = d
  Paths = {a, b, c, d}
  Renames <- AnyRename
  MaxNodes = 4
  MaxLost = 2
SPECIFICATION Spec
SYMMETRY Symmetry
INVARIANT TypeOK
INVARIANT IndexExact
INVARIANT NoCycle
INVARIANT DepsHaveNodes
PROPERTY SortLosesNothing
PROPERTY ImplementsDependencyGraph
