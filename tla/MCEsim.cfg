SPECIFICATION MCSpec
CONSTANTS
  Euiccs <- MCEuiccs
  EuiccCert <- MCEuiccCert
  EumCert <- MCEumCert
  SigningCis <- MCSigningCis
  VerificationCis <- MCVerificationCis
  ServerCis <- MCServerCis
  DpCi = "ci"
  Profiles <- MCProfiles
  TransactionIds <- MCTransactionIds
  DigitIds <- MCDigitIds
  Size <- MCSize
  Keys <- MCKeys
  PpkKey = "ppk"
  MaxPayload = 2
  MaxRequests <- MCMaxRequests
  MaxIncidents = 1
  UserFiles <- MCUserFiles
  Parameters <- AllParameters
  Commands <- AllCommands
  Edits <- AllEdits
  NewTypes <- Constructed
  AppAid = "app"
  InstAids = {"i1", "i2"}
  MaxCommands = 2
  MaxCalls = 2
CHECK_DEADLOCK FALSE
INVARIANTS
  ConfirmedProfile
  
  DecodedIsWhole
  PersonalisedExactly
PROPERTIES
  JustTheNaaGoes
  StaysAProfile
