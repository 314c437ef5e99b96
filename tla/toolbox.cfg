CONSTANTS
  s1 = s1
  h1 = h1
  h2 = h2
  Sessions <- OneSession
  Handlers <- TwoHandlers
  Stamps <- TwoStamps
  NoLease = NoLease
  NoSession = NoSession
  TTL = 1
  Grace = 1
  MaxInflight = 1
  ShareMode = "group"
  ShutdownMode = "when-owner-exits"
  HasShutdownHook = TRUE
SPECIFICATION FairProcessSpec
INVARIANTS
  ExitIsClean
  UnadvertisedIsClosed
PROPERTIES
  DoomedProcessEnds
CHECK_DEADLOCK FALSE
