SPECIFICATION Spec
CONSTANTS
  Garments = {g1}
  Partitions = {p1, p2}
  MaxAttempt = 1
  LegacyMessage = LegacyMessage
  Faults = {"call", "rebalance", "duplicate", "commit", "legacy"}
  MaxEvents = 1
  AcceptedStatuses = {"queued"}
  AnalysisEnabled = TRUE
  Workers = {w1, w2}
  NoWorker = NoWorker
  MaxDetections = 0
CHECK_DEADLOCK FALSE
INVARIANTS
  CommittedIsSettled
  FailedIsDeadLettered
  AcceptedIsPending
