SPECIFICATION HandleSpec
CONSTANTS
    Names = {x, y, ""}
  Types = {"int", "text"}
  Schemas <- AllSchemas
  MaxNodes = 2
  MaxEdges = 3
  MaxGeneration = 2
  MaxBindings = 2
INVARIANTS
  NamesExact
  EdgesTyped
  ProducersUnique
  BindingsSound
  HandlesMeanOneSlot
PROPERTIES
  FailureIsAtomic
  StaleStaysStale
SYMMETRY NameSymmetry
CONSTRAINT NoTargets
CHECK_DEADLOCK FALSE
