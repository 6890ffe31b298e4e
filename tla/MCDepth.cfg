SPECIFICATION Spec
CONSTANTS
  Streams = {"PRIMARY", "SECONDARY"}
  MaxUpdates = 5
  MaxRequests = 2
  MaxLosses = 1
  MaxFaults = 1
CHECK_DEADLOCK FALSE
INVARIANTS
  TypeOK
  BookHasNoHole
  SnapshotAwaited
PROPERTIES
  NeverGoesBack
