SPECIFICATION Spec
CONSTANTS
  c1 = c1
  c2 = c2
  n1 = n1
  n2 = n2
  Cassettes = {c1, c2}
  Names = {n1, n2}
  NoName = NoName
  Faults = {}
  Damages = {}
  MaxUuids = 2
  MaxRuns = 1
INVARIANT ForceReformats
CHECK_DEADLOCK FALSE
