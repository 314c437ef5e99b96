CONSTANTS
  Callers <- Everyone
  ProcessOf <- Processes
  Documents <- Discovery
  MaxTokens = 2
  ToolCalls <- Users
  Schemes <- AllSchemes
  Secrets <- AllSecrets
  Operations <- AllOperations
  MaxToolCalls = 2
  Cli = "cli"
  Remotes <- AllRemotes
  BrowserFlows <- AllFlows
  MaxGrants = 4
  MaxRuns = 3
SPECIFICATION Spec
INVARIANTS
  TokensFit
  PlanIsOneAlternative
  BrowserIsLastResort
  RefreshOnce
  DelegatedOnly
CHECK_DEADLOCK FALSE
