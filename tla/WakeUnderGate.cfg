SPECIFICATION Spec
CONSTANTS
  N = 1
  Succs <- Single
  Results = {"ok"}
  Aware <- NoNodes
  Responsive <- NoNodes
  Calls = {"cancel"}
  HostMay = {}
INVARIANTS
  WakeOutsideLocks
