SPECIFICATION Spec
CONSTANTS
  t1 = t1
  t2 = t2
  Tapes = {t1}
  NoTape = NoTape
  Paths <- MCPaths
  Parent <- MCParent
  Chain <- OneTape
  Edits = {"create", "modify", "remove", "link"}
  Damages = {}
  Faults = {}
  Requests = {{}, {1}, {2, 3}}
  Mirror = TRUE
  Wrapped = TRUE
  MaxSessions = 3
  MaxEdits = 1
  MaxRestores = 1
INVARIANT FullRestoresLinks
CHECK_DEADLOCK FALSE
