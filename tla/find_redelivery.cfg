SPECIFICATION Spec
CONSTANTS
  Garments = {g1}
  Partitions = {p1}
  MaxAttempt = 2
  LegacyMessage = LegacyMessage
  Faults = {"crash"}
  MaxEvents = 1
  AcceptedStatuses = {"queued"}
  AnalysisEnabled = TRUE
  Workers = {w1}
  NoWorker = NoWorker
  MaxDetections = 0
CHECK_DEADLOCK FALSE
PROPERTIES
  CompletedIsFinal
