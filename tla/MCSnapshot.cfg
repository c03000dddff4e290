\* Number 1 and its two processes, a filter by name; number 2 is the program.
CONSTANTS
  Scale = 6
  Word = 256
  Pid = {1, 2}
  Comm = {"a", "b"}
  FilterPids = {}
  FilterComms = {"a"}
  Excluded = {2}
  Gauge = {2}
  IoMayBeDenied = TRUE
  MaxTime = 3
  MaxSnapshots = 3
  MaxIncarnations = 2
SPECIFICATION Spec
INVARIANTS
  TypeOK
  ReadNotOverstated
  CpuWithinRealTime
CHECK_DEADLOCK FALSE
