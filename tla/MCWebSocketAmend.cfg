SPECIFICATION Spec
CONSTANTS
  o1 = o1
  x1 = x1
  x2 = x2
  btc = btc
  eth = eth
  Own = {o1}
  Foreign = {}
  Unnamed = {}
  Symbols = {btc, eth}
  Symbol <- SymbolOwn
  DownloadSymbols = {btc}
  LookbackFirst = TRUE
  LookbackLater = FALSE
  MaxForeign = 0
  MaxVersion = 2
  MaxRevision = 2
  MaxSessions = 1
  MaxFaults = 0
INVARIANTS
  AnswersNameTheRequest
CHECK_DEADLOCK FALSE
