CONSTANTS
  s1 = s1
  s2 = s2
  h1 = h1
  h2 = h2
  Sessions <- TwoSessions
  Handlers <- TwoHandlers
  Stamps <- ThreeStamps
  NoLease = NoLease
  NoSession = NoSession
  TTL = 2
  Grace = 1
  MaxInflight = 1
  ShareMode = "exclusive"
  ShutdownMode = "when-owner-exits"
  HasShutdownHook = TRUE
SPECIFICATION Spec
INVARIANTS
  ExclusiveOwner
CHECK_DEADLOCK FALSE
