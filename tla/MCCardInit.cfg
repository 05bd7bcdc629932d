SPECIFICATION MCSpec
CONSTANTS
  Cards <- MCCards
  MaxCuts = 1
  Services <- MCServices
  SstServices <- MCSstServices
  UstBytes = {1, 17}
  Missing <- MCMissing
CHECK_DEADLOCK FALSE
INVARIANTS
  InitIsRight
  CheckMissesNoFile
