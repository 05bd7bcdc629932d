SPECIFICATION MCSpec
CONSTANTS
  Cards = {c1, c2}
  Kinds <- MCKinds
  Options <- MCOptions
  MaxNum = 2
  MaxRefusals = 2
CHECK_DEADLOCK FALSE
INVARIANTS
  ProgrammedExactly
  RunIsAccounted
  ShownIsRight
