SPECIFICATION InvocationSpec
CONSTANTS
  a = a
  b = b
  good = good
  hidden = hidden
  bad = bad
  Linters = {a, b}
  MaxPartitions = 1
  Concurrency = 1
  IssueCap = 1
  MaxWarnings = 1
  Hits = {good, hidden, bad}
  Outputs <- MCOutputs
  Malformed = {bad}
  Filtered <- MCFiltered
INVARIANTS
  FlowInv
  NothingUnread
  NoErrorBlocks
PROPERTIES
  EndsUnlessOutOfRoom
  OutOfRoomForGood
CHECK_DEADLOCK FALSE
