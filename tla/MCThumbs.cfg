CONSTANTS
  MinSlot <- MCMinSlot
  MaxSlot = 3
  LayoutFlows = {"grid", "horizontal"}
  Counts = {4}
  MaxColumns = 2
  MaxRows = 1
  ThreadCount = 2
  MAX_RESIDENT_BYTES = 3
  Sizes <- MCSizes
  Faulty = {1}
SPECIFICATION Spec
INVARIANTS
  OneJobPerTile
  WindowFilled
  VisibleFirst
