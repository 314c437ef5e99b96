CONSTANTS
  c1 = c1
  c2 = c2
  c3 = c3
  Calls <- ThreeCalls
  maxAttempts = 2
  MaxRestarts = 1
  MaxBroken = 1
SPECIFICATION FairSpec
INVARIANTS
  RecordsAreTrue
  LossBudget
PROPERTIES
  CancelledCallEnds
CHECK_DEADLOCK FALSE
