CONSTANTS
  Files <- MCFiles  MF <- MCMF  ADFs <- MCADFs  FsADFs <- MCFsADFs  FirstFsADF <- MCFirst
  EFs <- MCEFs  Fid <- MCFid  Profile <- MCFiles  OnCard <- MCFiles
  Threads = {t1}  Requests <- SequentialRequests  MaxRequests = 4  Connected = FALSE  MayBePulled = TRUE
  InfoPaths <- MCInfoPaths  AdmOnly <- MCAdmOnly  TlvEFs <- MCTlvEFs
  Values = {"v1", "v2"}  NoValue = "none"
SPECIFICATION Spec
CHECK_DEADLOCK FALSE
INVARIANTS
  ActsOnNamedFile
PROPERTIES
  ImplementsFileStore
