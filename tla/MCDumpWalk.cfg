CONSTANTS
  Files <- MCFiles
  MF <- MCMF
  ADFs <- MCADFs
  FsADFs <- MCFsADFs
  FirstFsADF <- MCFirst
  EFs <- MCEFs
  Fid <- MCFid
  Profile <- MCProfile
  OnCard <- MCOnCard
  Listing <- MCListing
  Structure <- MCStructure
  Outcomes <- MCOutcomes
  Before <- MCBefore
  MayBePulled = TRUE
SPECIFICATION FairSpec
CHECK_DEADLOCK FALSE
INVARIANTS
  DumpTellsTheTruth
  DumpIsComplete
PROPERTIES
  WalkEnds
