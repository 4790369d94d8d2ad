SPECIFICATION VersionSpec
CONSTANTS
  Names = {"1", "2"}
  Types = {"int", "text"}
  Schemas <- MakerAndTaker
  MaxNodes = 2
  MaxEdges = 2
  MaxGeneration = 2
  MaxBindings = 1
  MaxEntries = 2
  MaxSupplied = 2
  Size = 2
  After <- MakerThenTaker
INVARIANTS
  InputsReadable
  AcceptedExactly
  OutputsWhole
  ReportAnswers
PROPERTIES
  ImplementsContract
CHECK_DEADLOCK FALSE
