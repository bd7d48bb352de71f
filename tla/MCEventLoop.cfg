CONSTANTS
  ItemCount = 2
  MaxEvents = 2
SPECIFICATION Spec
PROPERTIES
  StopEndsRun
  EnterIsAnswered
