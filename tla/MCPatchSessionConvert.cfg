SPECIFICATION FairSpec
CONSTANTS
  Paths <- Names
  Base <- CutDir
  Originals = {"in"}
  Platforms = {TRUE}
  Settings <- FilesIni
  Typed <- FilesTyped
  Hooks <- OneHook
  Within <- Itself
  Measurable <- OneHook
  MaxSections = 2
  MaxRev = 1
  NoFile = NoFile
  NoCode = NoCode
PROPERTIES ConvertOnlyConverts
