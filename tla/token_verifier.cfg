SPECIFICATION FairSpec
CONSTANTS
  Requests = {r1, r2, r3}
  Main = main
  NoCaller = NoCaller
  Threads = 2
  BootstrapAttempts = 2
INVARIANTS
  TypeOK
  ClientHasIssuer
  StrictWaitIsShort
  ProbeWaitIsBounded
PROPERTIES
  ClientIsKept
  ProbeIsAnswered
  HealsAfterOutage
