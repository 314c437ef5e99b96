CONSTANTS
  Handlers = {h1, h2}
  Principals = {"user"}
  Kinds = {"openapi", "other"}
  Supported = {"openapi", "mcp"}
  MaxGiven <- Bounds
  MaxFaults = 1
SPECIFICATION AdminSpec
SYMMETRY Symmetry
INVARIANTS
  TrailTellsBundles
  ActiveIsNewest
CHECK_DEADLOCK FALSE
