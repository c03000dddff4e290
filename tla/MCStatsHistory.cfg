\* All sequences of three records, parts of which may be invalid.
CONSTANTS
  Scale = 6
  Word = 256
  Ticks = {0, 2}
  Bytes = {0, 2}
  Gauge = {1, 3}
  Steps = {1, 2}
  Unreadable = {"io", "fd"}
  MaxRecords = 3
SPECIFICATION HistorySpec
INVARIANTS
  CountersMatchHistory
  GaugesMatchHistory
  AverageOverLifetime
  IoTimeCovered
CHECK_DEADLOCK FALSE
