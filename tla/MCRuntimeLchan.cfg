CONSTANTS
  Files <- MCFiles
  MF <- MCMF
  ADFs <- MCADFs
  FsADFs <- MCFsADFs
  FirstFsADF <- MCFirst
  EFs <- MCEFs
  Fid <- MCFid
  Profile <- MCProfile
  OnCard <- MCOnCard
  Paths <- MCPaths
  HexIds <- MCHexIds
  Channels = {0, 1, 4}
  KnownTree <- MCKnown
  AssumedADF <- MCFirst
  SfiOf <- MCSfi
  Selects <- MCSelects
  Sfis = {"", "7"}
  Sources = {"tpdu", "apdu"}
  MaxTpdus = 4
SPECIFICATION MCSpec
CHECK_DEADLOCK FALSE
INVARIANTS
  Coherent
  LearnsTheTruth
  FailedSelectGoesBack
  TraceIsRight
PROPERTIES
  CallsReturn
  ImplementsPromise
