SPECIFICATION Spec
CONSTANTS
  o1 = o1
  x1 = x1
  x2 = x2
  btc = btc
  eth = eth
  Own = {o1}
  Foreign = {x1, x2}
  Unnamed = {x2}
  Symbols = {btc, eth}
  Symbol <- SymbolEach
  DownloadSymbols = {btc}
  LookbackFirst = TRUE
  LookbackLater = FALSE
  MaxForeign = 1
  MaxVersion = 1
  MaxRevision = 1
  MaxSessions = 2
  MaxFaults = 1
INVARIANTS
  ReadyConsistent
  NoGapWhenReady
  CancelAllCovers
PROPERTIES
  ImplementsStream
CHECK_DEADLOCK FALSE
