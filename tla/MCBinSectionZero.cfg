SPECIFICATION Spec
CONSTANTS
  FileAlign = 2
  SectAlign = 4
  HdrFixed = 2
  ShdrSize = 1
  MaxSections = 3
  NoFile = NoFile
  Paths <- InPlace
  Base <- SameFile
  Supplied = "exe"
  Settings <- OneSetting
  Originals <- ZeroSize
INVARIANTS ZeroSizeReopens
