SPECIFICATION LaunchSpec
CONSTANTS
  Scalars = {"backend", "recursive"}
  Lists = {"on_apply"}
  FileValues = {"f1", "f2"}
  FileItems = {"i"}
  OptionValues = {"o1", "o2"}
  MaxHooks = 2
  MaxOptions = 3
  MaxLines = 2
  Default = Default
  Bad = Bad
  Yes = {"f1", "o1"}
  Disks <- MCDisks
  Size = 5
  MaxDepth = 2
  MaxItems = 2
  MaxDirs = 3
  MaxEntries = 3
  OutputNames = {"left", "right"}
  MaxGlobal = 2
  Setups <- MCSetups
  Keys = {1, 2}
INVARIANTS
  Resolved
  MissingIsReported
  NearestFirst
  RepeatIsHeld
  OutputAsked
  TornDown
