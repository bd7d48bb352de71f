CONSTANTS
  Workers = {"w1", "w2"}
  Watched = {"w1"}
  Components = {"y", "c"}
  Paths = {"p"}
  Jobs <- MCJobs
  Files <- MCFiles
  MaxVersion = 1
  Name <- MCName
CHECK_DEADLOCK FALSE
SPECIFICATION Spec
INVARIANT PeakDeclared
