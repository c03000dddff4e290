\* The worker may fall behind.
CONSTANTS
  NumStreams = 1
  MaxFiles = 2
  Modes = {TRUE}
  Faults = {}
  SameSecondRestart = FALSE
  Paced = FALSE
  MaxGen = 4
  MaxRotations = 4
  MaxRuns = 2
SPECIFICATION Spec
INVARIANTS
  RetainsNewest
CHECK_DEADLOCK FALSE
