SPECIFICATION FairSpec
CONSTANTS
  Paths <- FourNames
  Base <- CutFour
  Originals = {"in"}
  Platforms = {TRUE, FALSE}
  Settings <- FourIni
  Typed <- FilesTyped
  Hooks <- OneHook
  Within <- Itself
  Measurable <- OneHook
  MaxSections = 2
  MaxRev = 1
  NoFile = NoFile
  NoCode = NoCode
INVARIANTS TypeOK PlainPatchIsFull DeployedIsImage
