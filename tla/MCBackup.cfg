SPECIFICATION Spec
CONSTANTS
  t1 = t1
  t2 = t2
  t3 = t3
  Tapes = {t1, t2, t3}
  NoTape = NoTape
  MaxRuns = 3
  MaxParts = 2
  MaxName = 3
  Spanning = TRUE
  HasChanger = TRUE
  Faults = {"full", "write", "create", "save", "verify", "swap"}
SYMMETRY Symm
INVARIANTS
  TypeOK
  FailedRunsLeaveNothing
  TapesWellFormed
  ReachableInSequence
  NoWastedCassettes
  ChainLinked
CHECK_DEADLOCK FALSE
