SPECIFICATION Spec
CONSTANTS
  Procs = {p1, p2}
  Paths = {a, b}
  Hooks = 1
  MaxRuns = 3
  None = None
  Part = Part
INVARIANTS OnlyApplied NothingLeft
PROPERTY ApplyEnds
