SPECIFICATION FairSpec
CONSTANTS
  N = 3
  Succs <- Join
  Results = {"ok", "user", "invalid", "panic"}
  Aware = {1}
  Responsive = {2}
  Calls = {"cancel", "abort"}
INVARIANTS
  Inv
  BlameLeadsToFailure
  NoStrandedDriver
PROPERTIES
  ImplementsContract
  RunReturns
