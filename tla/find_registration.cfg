SPECIFICATION Spec
CONSTANTS
  Requests = {r1, r2, r3}
  Emails = {e1, e2}
  Faults = {"lostReply"}
CHECK_DEADLOCK FALSE
INVARIANTS
  FailedIsUnregistered
