CONSTANTS
  MaxRequests = 2
  MaxSessions = 3
  MaxGarbled = 1
SPECIFICATION Spec
INVARIANTS
  CallsRunOnce
  InitialisedFirst
  SessionsAreClosed
PROPERTY
  ImplementsRequests
CHECK_DEADLOCK FALSE
