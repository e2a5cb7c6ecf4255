CONSTANTS
  v1 = v1
  h1 = h1
  b1 = b1
  w1 = w1
  w2 = w2
  e1 = e1
  e2 = e2
  Rows <- SeenAndHidden
  Visible <- OnlySeen
  BulkRows <- NoRows
  Writers <- TwoWriters
  Engines <- TwoEngines
  PageSize = 1
  MaxSeq = 2
  MaxVersion = 1
  MaxAborts = 0
SPECIFICATION Spec
CHECK_DEADLOCK FALSE
SYMMETRY WriterSymmetry
INVARIANTS
  NothingIsMissed
