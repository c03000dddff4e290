\* The widths are 2^9 for sizes and 2^16 for durations.
CONSTANTS
  KiB = 4
  SizeWord = 512
  Invalid = Invalid
  NotSet = NotSet
  Files <- MCFiles
  Depth = 2
  Durations <- MCDurations
  Counts = {1}
  Metric = {c, r}
  c = c
  r = r
  Bad = Bad
  Word = 65536
  InitialCapacity = 2
  p1 = p1
  p2 = p2
  p3 = p3
  n1 = n1
  n2 = n2
  n3 = n3
  Token <- MCToken
SPECIFICATION StartupSpec
SYMMETRY Perms
INVARIANTS
  DefaultsApply
