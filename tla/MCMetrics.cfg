CONSTANTS
  KiB = 4
  SizeWord = 512
  Invalid = Invalid
  Closed = Closed
  Tables <- MCTables
  Requests <- MCRequests
SPECIFICATION Spec
INVARIANTS
  TopOfTable
  DocumentComplete
  CrashOnlyIfOpenFails
