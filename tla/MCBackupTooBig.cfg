SPECIFICATION Spec
CONSTANTS
  t1 = t1
  t2 = t2
  t3 = t3
  Tapes = {t1, t2, t3}
  NoTape = NoTape
  MaxRuns = 1
  MaxParts = 2
  MaxName = 4
  Spanning = TRUE
  HasChanger = TRUE
  Faults = {"full"}
INVARIANTS
  TooBigRollsBack
CHECK_DEADLOCK FALSE
