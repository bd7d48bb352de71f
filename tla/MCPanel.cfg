CONSTANTS
  MinSlot <- MCMinSlot
  MaxSlot = 6
  Configs <- MCConfigs
  Outputs <- MCOutputs
  Surfaces <- MCSurfaces
  Counts = {1, 4, 7}
  Slots <- MCSlots
  Steps <- MCSteps
  Duration = 2
  MaxMoves = 2
SPECIFICATION PanelSpec
INVARIANTS
  SelectedInView
  VisualFollows
  NoHoleAtRest
  DrawnIsServed
  HitIsUnderPointer
