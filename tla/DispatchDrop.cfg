SPECIFICATION FairSpec
CONSTANTS
  N = 1
  Succs <- Single
  Results = {"ok"}
  Aware <- NoNodes
  Responsive <- NoNodes
  Calls = {"cancel", "abort", "drop"}
  HostMay = {"drop"}
PROPERTIES
  RunReturns
  DropEndsJobs
