SPECIFICATION Spec
CONSTANTS
  Bound <- OneInput
  Keys <- ForeignKeys
  Node = {1}
  Active = {1}
  MaxStarts = 1
  MaxValues = 1
INVARIANTS
  DuplicateIsSameInput
CHECK_DEADLOCK FALSE
