SPECIFICATION FairSpec
CONSTANTS
  DownloadSymbols = {s1}
  MaxKeys = 2
  MaxRefreshes = 2
  MaxFaults = 2
  MaxLosses = 3
INVARIANTS
  TypeOK
  DownloadsInFlight
  ReadyMeansKeyed
PROPERTIES
  ImplementsStream
  EveryRequestResponded
  DropCopyCreated
