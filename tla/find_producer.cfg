SPECIFICATION Spec
CONSTANTS
  Requests = {r1, r2}
  Topics = {t1, t2}
  NoWriter = NoWriter
  MaxInFlight = 2
CHECK_DEADLOCK FALSE
SYMMETRY Symmetry
INVARIANTS
  OneWriterPerTopic
