\* Three iterations, up to two periods per read, three jobs.
CONSTANTS
  Count = 3
  MaxPending = 2
  MaxJobs = 3
SPECIFICATION MFairSpec
INVARIANTS
  EveryPeriodSampled
  CountReached
  CountRespected
  StopWithinOneRead
  NoUseAfterFree
  NoLostWakeup
  DrainedAtJoin
  ExitsDrained
PROPERTIES
  Terminates
  ImplementsQueue
