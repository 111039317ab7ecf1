SPECIFICATION Spec
CONSTANTS
  Limits = {0, 17}
  BlockSize = 2
  MaxTar = 2
  MaxRuns = 3
  MaxReads = 1
  MaxFormats = 2
  MaxFails = 2
  MaxKills = 2
INVARIANTS
  SessionsKept
  SettledTapeIsWhole
PROPERTIES
  CapacityKept
  ImplementsTape
CHECK_DEADLOCK FALSE
