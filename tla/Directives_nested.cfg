SPECIFICATION Spec
CONSTANTS
  LastLine = 7
  MaxGroups = 2
  Files <- MCNested
INVARIANTS
  StatementSuppressed
