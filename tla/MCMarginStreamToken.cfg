SPECIFICATION Spec
CONSTANTS
  DownloadBorrowed = FALSE
  MaxTokens = 1
  MaxFaults = 0
  MaxLosses = 1
INVARIANTS
  TokenNeverReplaced
