CONSTANTS
  i1 = i1
  i2 = i2
  Items <- TwoItems
  Qty <- OnePieceEach
  InitialFlow <- AnyFlow
  Loads <- OneLoad
  MaxProposals = 5
SPECIFICATION Spec
CHECK_DEADLOCK FALSE
PROPERTIES
  NoWorkMovesToCancelled
