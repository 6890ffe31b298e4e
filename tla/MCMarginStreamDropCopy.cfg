SPECIFICATION FairSpec
CONSTANTS
  DownloadBorrowed = FALSE
  MaxTokens = 1
  MaxFaults = 0
  MaxLosses = 0
PROPERTIES
  DropCopyBecomesReady
