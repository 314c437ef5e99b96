CONSTANTS
  c1 = c1
  c2 = c2
  p1 = p1
  p2 = p2
  Calls <- TwoCalls
  Pids <- TwoPids
  NoPid = NoPid
  MaxRestarts = 2
SPECIFICATION FairSpec
INVARIANTS
  OwedIsRecorded
PROPERTIES
  ShutdownEnds
CHECK_DEADLOCK FALSE
