\* Sessions of choices 3, 4 and 5 in any order, pac.exe sent elsewhere at any
\* time, and one kill, edit or rebuild.
SPECIFICATION Spec
CONSTANTS
  b = b
  c = c
  hooks = hooks
  old = old
  new = new
  Here = Here
  NoFile = NoFile
  NoName = NoName
  Names = {b, c}
  Dirs = {hooks}
  Builds = {old, new}
  DirOf <- MCDirOf
  SizeOf <- MCSizeOf
  Contents <- MCContents
  Strays = {0, 1}
  MaxCells = 7
  MaxEvents = 1
INVARIANTS
  TypeOK
  RoundTrip
PROPERTY
  NothingOverwritten
