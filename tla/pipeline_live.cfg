SPECIFICATION FairSpec
CONSTANTS
  Garments = {g1}
  Partitions = {p1}
  MaxAttempt = 2
  LegacyMessage = LegacyMessage
  Faults = {"call", "rebalance", "duplicate", "commit", "legacy"}
  MaxEvents = 1
  AcceptedStatuses = {"queued"}
  AnalysisEnabled = TRUE
  Workers = {w1}
  NoWorker = NoWorker
  MaxDetections = 1
CHECK_DEADLOCK FALSE
INVARIANTS
  UnfinishedIsPending
PROPERTIES
  UploadIsResolved
  ImplementsContract
