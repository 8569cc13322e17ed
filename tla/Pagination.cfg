CONSTANTS
  r1 = r1
  r2 = r2
  r3 = r3
  r4 = r4
  Rows <- MCRows
  Matching <- MCMatching
  Places = 4
  PerPage <- MCPerPage
  MaxChanges = 2
SPECIFICATION IterSpec
SYMMETRY Symmetry
INVARIANTS
  PagesCoverTheTable
CHECK_DEADLOCK FALSE
