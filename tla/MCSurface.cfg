CONSTANTS
  Widths = {2, 3}
  Scales = {1, 2}
  Fractions = {180}
  LongEdgeMax = 4
  Needed = 1
  Gap = 1
  MaxEvents = 2
  None = None
SPECIFICATION Spec
INVARIANTS
  HeldUntouched
  GeometryFits
  NothingLeftBehind
PROPERTIES
  Repaints
CHECK_DEADLOCK FALSE
