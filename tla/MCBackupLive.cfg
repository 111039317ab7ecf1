SPECIFICATION FairSpec
CONSTANTS
  t1 = t1
  t2 = t2
  t3 = t3
  Tapes = {t1, t2, t3}
  NoTape = NoTape
  MaxRuns = 2
  MaxParts = 2
  MaxName = 3
  Spanning = TRUE
  HasChanger = TRUE
  Faults = {"seek", "full", "swap", "abandon", "position", "create", "save", "verify"}
PROPERTIES
  RunEnds
CHECK_DEADLOCK FALSE
