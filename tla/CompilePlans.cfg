SPECIFICATION BuildSpec
CONSTANTS
  Names = {"1", "2", "3"}
  Schemas <- TwoSchemas
  MaxNodes = 3
  MaxEdges = 3
  MaxGeneration = 1
  MaxBindings = 1
INVARIANTS
  VerdictExact
  PlanFitsRun
  InputsResolvable
CHECK_DEADLOCK FALSE
