SPECIFICATION Spec
CONSTANTS
  t1 = t1
  t2 = t2
  t3 = t3
  Tapes = {t1, t2}
  NoTape = NoTape
  MaxRuns = 2
  MaxParts = 1
  MaxName = 2
  Spanning = TRUE
  HasChanger = TRUE
  Faults = {"seek"}
INVARIANTS
  DedupLeavesWriteAlone
CHECK_DEADLOCK FALSE
