SPECIFICATION FairSpec
CONSTANTS
  o1 = o1
  x1 = x1
  x2 = x2
  btc = btc
  eth = eth
  Own = {o1}
  Foreign = {}
  Unnamed = {}
  Symbols = {btc, eth}
  Symbol <- SymbolOwn
  DownloadSymbols = {btc}
  LookbackFirst = TRUE
  LookbackLater = TRUE
  MaxForeign = 0
  MaxVersion = 3
  MaxRevision = 2
  MaxSessions = 1
  MaxFaults = 1
INVARIANTS
  TypeOK
  OneAnswerPerRequest
  OnlyRefusedAmendsMisnamed
PROPERTIES
  SessionBecomesReady
  ActionAnswered
CHECK_DEADLOCK FALSE
