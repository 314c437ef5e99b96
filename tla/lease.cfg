CONSTANTS
  s1 = s1
  s2 = s2
  h1 = h1
  h2 = h2
  Sessions <- TwoSessions
  Handlers <- OneHandler
  Stamps <- ThreeStamps
  NoLease = NoLease
  NoSession = NoSession
  TTL = 2
  Grace = 1
  MaxInflight = 1
  ShareMode = "group"
  ShutdownMode = "when-owner-exits"
  HasShutdownHook = TRUE
SPECIFICATION FairSpec
INVARIANTS
  LeaseCanExpire
PROPERTIES
  NoEarlyExpiry
  LastLeaseEndsRuntime
  SilentSessionExpires
  ImplementsContract
CHECK_DEADLOCK FALSE
