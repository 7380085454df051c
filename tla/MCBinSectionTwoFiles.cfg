SPECIFICATION FairSpec
CONSTANTS
  FileAlign = 2
  SectAlign = 4
  HdrFixed = 2
  ShdrSize = 1
  MaxSections = 2
  NoFile = NoFile
  Paths <- InAndOut
  Base <- CutDir
  Supplied = "in"
  Settings <- OneSetting
  Originals <- SomeOriginals
PROPERTIES Implements
