SPECIFICATION Spec
CONSTANTS
  DownloadBorrowed = TRUE
  MaxTokens = 1
  MaxFaults = 0
  MaxLosses = 0
INVARIANTS
  RespondedMeansDownloaded
