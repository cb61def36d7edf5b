SPECIFICATION Spec
CONSTANTS
  None = None
  x1 = x1
  x2 = x2
  x3 = x3
  x4 = x4
  Rows = {x1, x2, x3, x4}
  Limits = {1, 2}
  MaxPosition = 4
  MaxRowSeq = 5
SYMMETRY SymmetricRows
INVARIANTS
  TypeOK
  SteadyRowsListedOnce
  NothingTwice
  UpdatesWithoutGaps
