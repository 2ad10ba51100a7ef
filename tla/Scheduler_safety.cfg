SPECIFICATION Spec
CONSTANTS
  a = a
  b = b
  c = c
  good = good
  hidden = hidden
  bad = bad
  Linters = {a, b}
  MaxPartitions = 2
  Concurrency = 2
  IssueCap = 1
  Hits = {good, hidden, bad}
  Outputs <- MCOutputs
  Malformed = {bad}
  Filtered = {}
INVARIANTS
  TypeOK
  Inv
  
  NoSendOnClosed
  LeavesNothing
  OneKillPerLinter
CHECK_DEADLOCK FALSE
PROPERTIES
  KeepsPromise
SYMMETRY MCSymmetry
