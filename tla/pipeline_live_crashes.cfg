SPECIFICATION EditedFairSpec
CONSTANTS
  Garments = {g1, g2}
  Partitions = {p1}
  MaxAttempt = 1
  LegacyMessage = LegacyMessage
  Faults = {"crash", "rebalance", "commit"}
  MaxEvents = 1
  AcceptedStatuses = {"queued"}
  AnalysisEnabled = TRUE
  Workers = {w1}
  NoWorker = NoWorker
  MaxDetections = 0
  Users = {g1, g2}
  NoUser = NoUser
  Uploader <- MCUploader
  Editors = {e1}
CHECK_DEADLOCK FALSE
INVARIANTS
  EditedTypeOK
  JobImageAvailable
  EditorIsOwner
  CommittedIsSettled
PROPERTIES
  UploadIsResolved
