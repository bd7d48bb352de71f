CONSTANTS
  Workers = {"w1", "w2"}
  Watched = {"w1"}
  Components = {"y", "c"}
  Paths = {"p"}
  Jobs <- MCJobs
  Files <- MCFiles
  MaxVersion = 2
  Name <- MCName
CHECK_DEADLOCK FALSE
SPECIFICATION Spec
INVARIANTS
  WithinReservation
  PictureExact
  EntrySound
  NothingLeaks
