CONSTANTS
  t1 = t1
  t2 = t2
  t3 = t3
  a = a
  b = b
  ops = ops
  support = support
  discover = discover
  Tools <- ThreeTools
  Services <- TwoServices
  ServiceOf <- TwoOfA
  Profiles <- ThreeProfiles
  Discover = discover
  Configs <- SmallConfigs
  Tokens <- SmallTokens
  Nothing = Nothing
SPECIFICATION AuthorizationSpec
INVARIANTS
  NothingBeyondScopes
  ListedIsExecutable
  ResolvedEnvelopeFollowsDesign
  ReducedTokenNarrows
