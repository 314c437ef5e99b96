CONSTANTS
  f1 = f1
  f2 = f2
  q1 = q1
  q2 = q2
  Fetchers <- TwoFetchers
  Processes <- TwoProcesses
  ProcessOf <- OwnProcess
  Inodes <- NineInodes
  NoInode = NoInode
  Policies <- AllPolicies
  MaxVersion = 2
  MaxFaults = 1
SPECIFICATION Spec
INVARIANTS
  FilesAreWhole
  ServedPairMatches
  ServedIsCurrent
CHECK_DEADLOCK FALSE
