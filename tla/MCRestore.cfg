SPECIFICATION FairSpec
CONSTANTS
  t1 = t1
  t2 = t2
  Tapes = {t1, t2}
  NoTape = NoTape
  Paths <- MCPaths
  Parent <- MCParent
  Chain <- TwoTapes
  Edits = {"create", "modify", "remove", "link", "symlink"}
  Damages = {"index", "hash", "missing", "header"}
  Faults = {"write", "remove", "medium", "position", "stop"}
  Requests = {{}, {3}, {1, 3}}
  Mirror = TRUE
  Wrapped = TRUE
  MaxSessions = 2
  MaxEdits = 1
  MaxRestores = 2
INVARIANTS
  FullRestoresLast
  SmartTakesNewest
  OnlyRequestedChange
  NoTornFiles
PROPERTY RestoreEnds
CHECK_DEADLOCK FALSE
