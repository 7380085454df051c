\* JIT sessions of up to four commands besides .up and .ret, in up to three nested calls.
SPECIFICATION JitSpec
CONSTANTS
  A = A
  B = B
  Hooks = {A, B}
  Default = A
  Target = Target
  Offsets = {0, 1}
  Instrs <- MCInstrs
  HeaderLen = 1
  PtrSize = 4
  Capacity = 16
  MaxFrames = 3
  MaxUsed = 6
  MaxBytes = 3
  MaxCommands = 4
  Blocks = {b01, b02, b03, b04, b05, b06, b07, b08, b09, b10, b11}
  NoBlock = NoBlock
  NoHook = NoHook
  Torn = Torn
  NoBytes = NoBytes
  NoStep = NoStep
INVARIANTS
  TypeOK
  PointersAreLive
  BytesAtTheirOffset
  BytesAreTexts
  TextsAreWhole
CHECK_DEADLOCK FALSE
