SPECIFICATION Spec
CONSTANTS
  t1 = t1
  t2 = t2
  t3 = t3
  Tapes = {t1, t2}
  NoTape = NoTape
  MaxRuns = 2
  MaxParts = 2
  MaxName = 2
  Spanning = TRUE
  HasChanger = TRUE
  Faults = {"full", "write", "create", "position", "delete", "restore", "abandon", "save", "verify", "swap", "rename", "cancel", "crash", "catalog"}
SYMMETRY Symm
INVARIANTS
  Backed
CHECK_DEADLOCK FALSE
