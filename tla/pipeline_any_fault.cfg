SPECIFICATION Spec
CONSTANTS
  Garments = {g1}
  Partitions = {p1}
  MaxAttempt = 2
  LegacyMessage = LegacyMessage
  Faults = {"call", "crash", "shutdown", "rebalance", "enqueue", "drop", "duplicate", "commit", "legacy"}
  MaxEvents = 1
  AcceptedStatuses = {"queued", "processing", "failed"}
  AnalysisEnabled = TRUE
  Workers = {w1}
  NoWorker = NoWorker
  MaxDetections = 0
CHECK_DEADLOCK FALSE
INVARIANTS
  TypeOK
  JobImageAvailable
  AcceptedIsKept
  CompletedHasImage
  RetriesAreChained
PROPERTIES
  ImplementsSafeContract
