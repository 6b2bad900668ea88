CONSTANTS
  Hir <- MCHir
  Programs <- MCPrograms
  PyVersions = {7, 8, 9, 10, 11}
  NoUnit = NoUnit

SPECIFICATION Spec
CHECK_DEADLOCK FALSE

INVARIANT CodeTypeOK
INVARIANT GenerationSucceeds
 
INVARIANT OperandsReady
INVARIANT ResultAlone
INVARIANT StackSizeSuffices
