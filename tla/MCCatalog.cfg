SPECIFICATION Spec
CONSTANTS
  c1 = c1
  c2 = c2
  n1 = n1
  n2 = n2
  Cassettes = {c1, c2}
  Names = {n1, n2}
  NoName = NoName
  Faults = {"kill", "tape", "db", "lost"}
  Damages = {"index", "data"}
  MaxUuids = 2
  MaxRuns = 3
SYMMETRY Symm
INVARIANTS
  CatalogIsTrue
  RebuildFills
  DeletedStaysDeleted
  ReadTestVouches
CHECK_DEADLOCK FALSE
