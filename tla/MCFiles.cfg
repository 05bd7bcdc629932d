CONSTANTS
  Bytes <- MCBytes
  FileLen = 5
  MaxCmdLen = 2
  SfiFlag = 6
  MaxLen = 6
  Buffers <- MCBuffers
  Contents <- MCContents
  Tree <- MCTree
  Top = "mf"
  EFs <- MCEFs
  Cards <- MCCards
  Blank = {}
  RecLen = 2
  Pad = 9
  MaxFragment = 3
  WideTags = {300}
  Denials <- MCDenials
  Commands <- MCCommands
  MaxTyped = 2
SPECIFICATION MCSpec
CHECK_DEADLOCK FALSE
INVARIANTS
  ReadReturnsTheRange
  SuccessMeansWritten
  WrittenIsThere
  WalkIsWhole
