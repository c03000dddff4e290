\* Three processes, one of them without raw output.
CONSTANTS
  p1 = p1
  p2 = p2
  p3 = p3
  Proc = {p1, p2, p3}
  NoProc = NoProc
  RawOutput = {p1, p2}
  MaxFiles = 2
  MaxInodes = 3
  MaxTime = 1
SPECIFICATION Spec
SYMMETRY Symmetry
INVARIANTS
  SingleInstance
  OutputReachable
  PendingIntact
