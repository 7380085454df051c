SPECIFICATION FairSpec
CONSTANTS
  Paths <- TwoNames
  Base <- SameNames
  Originals = {"in"}
  Platforms = {TRUE}
  Settings <- HooksIni
  Typed <- HooksTyped
  Hooks <- TwoHooks
  Within <- Contained
  Measurable = {"hook_AB"}
  MaxSections = 2
  MaxRev = 2
  NoFile = NoFile
  NoCode = NoCode
INVARIANTS HookIsOwn
PROPERTIES ChoiceEnds
