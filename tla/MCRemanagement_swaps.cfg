CONSTANTS
  Items = {1, 2, 3}
  Owner <- ThreeItems
  Qty <- OneTwoOne
  InitialFlow <- EveryFlow
  Loads = {1}
  Operations = {o1, o2}
  Sessions = {s1, s2}
SPECIFICATION Spec
CHECK_DEADLOCK FALSE
SYMMETRY Symmetry
INVARIANTS
  TypeOK
  AppliedOnce
  DeliveredOnce
  LedgerCloses
  HonestPlansBalance
PROPERTIES
  OnlyOwnersChangeOfMadeItems
  ReceivedCanLeave
