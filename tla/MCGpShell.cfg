SPECIFICATION MCSpec
CONSTANTS
  Channels = {0, 1}
  Kinds = {"scp02", "scp03"}
  Levels = {"mac", "enc", "renc"}
  Kvns = {32, 48}
  CardKvns <- MCCardKvns
  SMode = 8
  Caps = {300}
  Stores = {240, 300}
  KeyLens = {24}
  Protocols = {0, 1}
  Pages = 2
  MaxApdus = 7
  MaxIncidents = 1
  c1 = c1
  c2 = c2
  Stock = {c1, c2}
  Providers <- MCProviders
  Groups <- MCGroups
  CardTypes <- MCTypes
  MaxLeft = 2
  Typed = {"ask", "p1", "x"}
  Scripts <- MCScripts
  Queries <- MCQueries
  MaxCommands = 3
  MaxFails = 3
CHECK_DEADLOCK FALSE
INVARIANTS
  InStep
  OkMeansDone
  CodesAreTheCards
  BulkIsRight
