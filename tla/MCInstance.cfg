CONSTANTS
  N = 3
  Backlog = 1
  MaxCrashes = 1
  None = None
SPECIFICATION InstanceSpec
INVARIANTS
  OnePicker
  Reachable
PROPERTIES
  WaiterIsServed
CHECK_DEADLOCK FALSE
