SPECIFICATION Spec
CONSTANTS
  N = 2
  Succs <- Pipe
  Results = {"ok", "panic"}
  Aware = {1}
  Responsive <- NoNodes
  Calls = {"cancel", "abort"}
  HostMay = {"spurious"}
INVARIANTS
  ReportAfterAcks
  NoStrandedStop
  NoDeafJob
PROPERTIES
  ImplementsContract
