CONSTANTS
  Files <- MCFiles  MF <- MCMF  ADFs <- MCADFs  FsADFs <- MCFsADFs  FirstFsADF <- MCFirst
  EFs <- MCEFs  Fid <- MCFid  Profile <- MCFiles  OnCard <- MCFiles
  Threads = {t1, t2}  Requests <- ThreadRequests  MaxRequests = 3  Connected = TRUE  MayBePulled = FALSE
  InfoPaths <- ThreadInfoPaths  AdmOnly <- MCAdmOnly  TlvEFs <- MCTlvEFs
  Values = {"v1"}  NoValue = "none"
SPECIFICATION Spec
SYMMETRY ThreadSymmetry
CHECK_DEADLOCK FALSE
INVARIANTS
  AloneIsRight
