SPECIFICATION Spec
CONSTANTS
  o1 = o1
  x1 = x1
  x2 = x2
  btc = btc
  eth = eth
  Own = {o1}
  Foreign = {x1, x2}
  Unnamed = {x2}
  Symbols = {btc, eth}
  Symbol <- SymbolEach
  DownloadSymbols = {btc, eth}
  LookbackFirst = TRUE
  LookbackLater = TRUE
  MaxForeign = 1
  MaxVersion = 1
  MaxRevision = 1
  MaxSessions = 1
  MaxFaults = 0
INVARIANTS
  ReadyMeansTradesDownloaded
CHECK_DEADLOCK FALSE
