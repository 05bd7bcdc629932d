CONSTANTS
  Files <- MCFiles  MF <- MCMF  ADFs <- MCADFs  FsADFs <- MCFsADFs  FirstFsADF <- MCFirst
  EFs <- MCEFs  Fid <- MCFid  Profile <- MCFiles  OnCard <- MCFiles
  Threads = {t1, t2}  Requests <- ConcurrentRequests  MaxRequests = 2  Connected = TRUE  MayBePulled = FALSE
  InfoPaths <- MCInfoPaths  AdmOnly <- MCAdmOnly  TlvEFs <- MCTlvEFs
  Values = {"v1"}  NoValue = "none"
SPECIFICATION Spec
CHECK_DEADLOCK FALSE
INVARIANTS
  ActsOnNamedFile
