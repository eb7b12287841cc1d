SPECIFICATION Spec
CONSTANTS
  Paths <- MCPaths
INVARIANTS
  OnlyVerifiedWeightsAnswer
  BootedHasKey
  QuietBootIsComplete
PROPERTIES
  BootEnds
