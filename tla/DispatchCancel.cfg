SPECIFICATION FairSpec
CONSTANTS
  N = 2
  Succs <- Pipe
  Results = {"ok"}
  Aware = {1}
  Responsive <- NoNodes
  Calls = {"cancel"}
  HostMay = {"drop", "reject"}
PROPERTIES
  ImplementsContract
  RunReturns
  IgnoringTaskSleeps
