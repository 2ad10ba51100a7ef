SPECIFICATION ReturningSpec
CONSTANTS
  a = a
  b = b
  c = c
  good = good
  hidden = hidden
  bad = bad
  Linters = {a}
  MaxPartitions = 2
  Concurrency = 2
  IssueCap = 1
  Hits = {good, hidden, bad}
  Outputs <- MCPlainOutputs
  Malformed = {}
  Filtered <- MCFiltered
PROPERTIES
  FailureIsTold
CHECK_DEADLOCK FALSE
