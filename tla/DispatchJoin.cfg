SPECIFICATION Spec
CONSTANTS
  N = 3
  Succs <- Join
  Results = {"ok", "user"}
  Aware <- NoNodes
  Responsive <- NoNodes
  Calls = {}
  HostMay = {"drop", "reject"}
INVARIANTS
  Bookkeeping
  NoOrphan
  NoStrandedEvent
