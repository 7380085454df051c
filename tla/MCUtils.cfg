\* Settings, map parser and byte pattern remover, each on its own inputs.
SPECIFICATION Spec
CONSTANTS
  path = path
  main = main
  init = init
  NoLine = NoLine
  NoCut = NoCut
  NoIni = NoIni
  NoValue = NoValue
  march = march
  Strings <- MCStrings
  Mentions <- MCMentions
  Inis <- MCInis
  MaxInt = 16777215
  Maps <- MCMaps
  MapNames = {path, main, init}
  Alignment = 2
  AlignMod = 3
  Modulus = 8
  Byte = {0, 1, 4, 5, 13, 37, 100, 137, 144, 161, 163, 235}
  JMP = 235
  NOP = 144
  Patterns <- MCPatterns
  Width = 4
  Targets <- MCTargets
  Behind <- MCBehind
INVARIANTS
  SettingsTypeOK
  NumbersAreRead
  DefaultsAreEnough
  MapTypeOK
  FlagsTellPlace
  DefinesAreSymbols
  PatternTypeOK
  OnlyPatternsChange
  InsideTheFile
CHECK_DEADLOCK FALSE
