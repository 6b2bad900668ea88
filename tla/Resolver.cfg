\* Every import structure of four modules, in one package or two.
CONSTANTS
  r = r
  a = a
  b = b
  c = c
  Paths = {r, a, b, c}
  Root = r
  NoPath = NoPath
  Projects <- OneOrTwoPackages
SPECIFICATION Spec
INVARIANT ResolverTypeOK
INVARIANT GraphAcyclic
INVARIANT RootResolves
INVARIANT EveryModuleAccounted
INVARIANT InliningGrounded
INVARIANT CircularityEliminated
INVARIANT NoReentry
