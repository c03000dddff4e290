\* Kills and restarts in both modes, the worker keeps up.
CONSTANTS
  NumStreams = 1
  MaxFiles = 3
  Modes = {TRUE, FALSE}
  Faults = {"crash"}
  SameSecondRestart = TRUE
  Paced = TRUE
  MaxGen = 6
  MaxRotations = 6
  MaxRuns = 3
SPECIFICATION FairSpec
INVARIANTS
  LossPerCrash
  ArchivesWhole
  FilesBounded
PROPERTIES
  TempFilesVanish
CHECK_DEADLOCK FALSE
