CONSTANTS
  ThreadCount = 2
  CellCount = 3
  DECODE_BUDGET = 1
  DECODE_MEMORY_LIMIT = 1
  Sizes <- MCSizes
SPECIFICATION Spec
INVARIANTS
  OneOwner
  CancelReachesPreview
  NoLostResult
  WorkConserving
PROPERTIES
  BudgetSpec
  StopTerminates
