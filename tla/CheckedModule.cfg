\* Two names, blocks four deep, scopes three deep, two inputs.  A checker that panics
\* stops.
CONSTANTS
  Names = {x, y}
  MaxBlocks = 4
  MaxDepth = 3
  MaxInputs = 1
SPECIFICATION Spec
SYMMETRY Symmetry
INVARIANT EffectsReported
INVARIANT MovesRemembered
 
CHECK_DEADLOCK FALSE
