\* Everything may fail.
CONSTANTS
  NumStreams = 1
  MaxFiles = 2
  Modes = {TRUE, FALSE}
  Faults = {"unlink", "rename", "fopen", "malloc", "gzopen", "gzwrite", "gzclose", "crash"}
  SameSecondRestart = FALSE
  Paced = FALSE
  MaxGen = 4
  MaxRotations = 4
  MaxRuns = 2
SPECIFICATION Spec
INVARIANTS
  TypeOK
  NewestFirst
CHECK_DEADLOCK FALSE
