SPECIFICATION PathsSpec
CONSTANTS
  Cwd <- MCCwd
  Kind <- MCKind
  Link <- MCLink
  Broken <- MCBroken
  GoNames = {"1.go", "2.go", "_.go"}
  DotNames = {".", ".."}
  UnderNames = {"_.go", "_d"}
  Names <- MCNames
  Arguments <- MCArguments
  Skips <- MCSkips
  Dirs <- MCDirs
  Absolute <- MCAbsolute
  FilesOf <- MCFilesOf
  BadGlob <- MCBadGlob
  Roots = {"root", "other"}
  RelTo <- MCRelTo
  GoPaths <- MCGoPaths
  Inputs = {}
  Bytes <- MCBytes
  BaseBytes = 3
  MaxBytes = 10
  Spare = {0, 1, 2}
INVARIANTS
  FindsItsDirectories
  
  Inv
  FilledToLimit
  NothingLost
  
