CONSTANTS
  Items = {1, 2}
  Owner <- TwoOwners
  Qty <- TwoPieces
  InitialFlow <- AnyFlow
  Loads = {1}
  Operations = {o1, o2}
  Sessions = {s1}
SPECIFICATION Spec
CHECK_DEADLOCK FALSE
PROPERTIES
  OnlyOwnersChange
