CONSTANTS
  i1 = i1
  i2 = i2
  Items <- OneItem
  Qty <- ThreePieces
  InitialFlow <- GalvanizedFlow
  Loads <- TwoLoads
  MaxProposals = 2
SPECIFICATION Spec
CHECK_DEADLOCK FALSE
INVARIANTS
  CompletedIsWhole
