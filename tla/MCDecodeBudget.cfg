CONSTANTS
  DECODE_BUDGET = 4
  DECODE_MEMORY_LIMIT = 8
  Sizes <- MCSizes
SPECIFICATION Spec
INVARIANTS
  SleepersNeedMemory
PROPERTIES
  GrantsSpec
