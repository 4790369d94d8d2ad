SPECIFICATION Spec
CONSTANTS
  Bound <- TwoInputs
  Keys <- PlanKeys
  Node = {1, 2}
  Active = {1}
  MaxStarts = 2
  MaxValues = 2
INVARIANTS
  IdleHoldsNothing
  GenerationsApart
  StopIsOwn
  InputsDelivered
CHECK_DEADLOCK FALSE
