\* Two instances, either of which may be started with -j.
CONSTANTS
  p1 = p1
  p2 = p2
  Proc = {p1, p2}
  NoProc = NoProc
  RawOutput = {p1, p2}
  MaxFiles = 2
  MaxInodes = 2
  MaxTime = 0
SPECIFICATION Spec
SYMMETRY Symmetry
INVARIANTS
  LockProtectsOutput
