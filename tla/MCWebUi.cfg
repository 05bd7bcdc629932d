CONSTANTS
  Cards = {a, b}  NoCard = nobody  EFs <- MCEFs  NoFile = "none"  Keys = {"ADM1", "ADM2"}
  ReadCond <- MCReadCond  WriteCond <- MCWriteCond  Records <- MCRecords  Contents <- MCContents
  NewValues = {new}  NoValue = nothing  OldValue = old  OldDump <- MCOldDump  MaxRequests = 5  MaxFlight = 2
SPECIFICATION Spec
SYMMETRY CardSymmetry
CHECK_DEADLOCK FALSE
INVARIANTS
  PageIsRight
  KeysGoHome
PROPERTIES
  OfflineNeverWrites
