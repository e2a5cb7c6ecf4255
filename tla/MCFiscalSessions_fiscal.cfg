CONSTANTS
  mother = mother
  child = child
  beam = beam
  rail = rail
  s1 = s1
  s2 = s2
  d1 = d1
  d2 = d2
  d3 = d3
  d4 = d4
  None = None
  Records <- TwoRecords
  Items <- TwoItems
  Home <- FirstHome
  Total <- PiecesOrdered
  Sessions <- TwoSessions
  Drafts <- FourDrafts
  Order <- OrderOf
  Pieces <- PiecesOf
  Number <- NumberOf
  Unnumbered <- FirstIsUnnumbered
  Seried <- LastTwoSeried
  Keeps <- FirstIsKept
  MaxTries = 2
  MaxCancels = 1
  MaxWithdrawals = 1
  MaxMoves = 1
SPECIFICATION FairSpec
CHECK_DEADLOCK FALSE
INVARIANTS
  TypeOK
  BilledIsInvoiced
  RegisteredOnce
  RepeatedOnce
  NumberedOnce
  StatusIsOfItems
PROPERTY
  RequestsEnd
