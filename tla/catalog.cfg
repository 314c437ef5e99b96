CONSTANTS
  NoFile = NoFile
  Broken = Broken
  Missing = Missing
  NameOrder <- Names
  Slug <- Slugs
  Disks <- AllDisks
  Webs <- AllWebs
SPECIFICATION Spec
INVARIANTS
  ManagedDenyIsAbsolute
  NamesAreUnambiguous
  NothingLeftOver
  PatternsAreLive
  StepsHaveTools
  LiveNamesAreStable
  DiscoveryIsComplete
CHECK_DEADLOCK FALSE
