CONSTANTS
  c1 = c1
  c2 = c2
  c3 = c3
  q1 = q1
  q2 = q2
  Clients <- ThreeClients
  Processes <- TwoProcesses
  ProcessOf <- ToolboxAndCli
  Nobody = Nobody
  MaxTokens = 2
  MaxClears = 1
  MaxFaults = 1
SPECIFICATION Spec
SYMMETRY Symmetry
INVARIANTS
  RefreshBudget
  GrantBudget
