SPECIFICATION Spec
CONSTANTS
  t1 = t1
  t2 = t2
  t3 = t3
  Tapes = {t1, t2}
  NoTape = NoTape
  MaxRuns = 1
  MaxParts = 1
  MaxName = 2
  Spanning = TRUE
  HasChanger = TRUE
  Faults = {"position", "cancel"}
INVARIANTS
  WriteFailureRollsBack
CHECK_DEADLOCK FALSE
