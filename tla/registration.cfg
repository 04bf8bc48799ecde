SPECIFICATION SessionsFairSpec
CONSTANTS
  Requests = {r1, r2, r3}
  Emails = {e1, e2}
  Faults = {"call", "crash"}
  Sessions = {s1}
  NoToken = NoToken
CHECK_DEADLOCK FALSE
INVARIANTS
  CreatedIsComplete
  FailedIsUnregistered
  HalfMadeIsReported
  OwnersAreComplete
PROPERTIES
  AddressIsDecided
  ImplementsRegistry
