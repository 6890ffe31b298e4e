SPECIFICATION FairSpec
CONSTANTS
  DownloadBorrowed = TRUE
  MaxTokens = 2
  MaxFaults = 2
  MaxLosses = 3
INVARIANTS
  TypeOK
  OneDownloadInFlight
  TokenReplacedOnlyLate
PROPERTIES
  ImplementsStream
  EveryRequestResponded
  TokenReplaced
