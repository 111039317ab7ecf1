SPECIFICATION Spec
CONSTANTS
  FileLists <- Trees
  Roots <- NestedRoots
  Budgets = {0, 1, 2, 3}
  Depths = {0, 1, 2}
INVARIANTS
  ScannerOrder
  PartsFit
  GroupsStayWhole
  NoNeedlessCut
CHECK_DEADLOCK FALSE
PROPERTY MoveLeavesAHead
