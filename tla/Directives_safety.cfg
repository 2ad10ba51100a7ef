SPECIFICATION Spec
CONSTANTS
  LastLine = 7
  MaxGroups = 2
  Files <- MCFiles
INVARIANTS
  TypeOK
  KeepsOwnLines
  GrowsOverNeighbours
  GrowsUnlessCovered
  InnermostFirst
