SPECIFICATION Spec
CONSTANTS
  N = 6
  Succs <- Lattice
INVARIANTS
  Inv
  WalkIsDownstream
PROPERTIES
  SettledIsFinal
  StopFreezes
CHECK_DEADLOCK FALSE
