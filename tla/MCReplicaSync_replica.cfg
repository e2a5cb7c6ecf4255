CONSTANTS
  v1 = v1
  h1 = h1
  b1 = b1
  w1 = w1
  w2 = w2
  e1 = e1
  e2 = e2
  Rows <- SeenAndHidden
  Visible <- OnlySeen
  BulkRows <- OnlyHidden
  Writers <- TwoWriters
  Engines <- OneEngine
  PageSize = 1
  MaxSeq = 3
  MaxVersion = 2
  MaxAborts = 1
SPECIFICATION FairSpec
CHECK_DEADLOCK FALSE
INVARIANTS
  TypeOK
  NothingIsMissed
PROPERTIES
  CommitsInSeqOrder
  RowsMoveForward
  PassesAreComplete
  ChangesArrive
