CONSTANTS
  MaxVersion = 3
  MaxUpdates = 2
  MaxCrashes = 1
SPECIFICATION FairSpec
INVARIANTS
  TypeOK
  SuccessIsTheTarget
  RestsOnTested
PROPERTIES
  PointerIsWhole
  AppComesBack
CHECK_DEADLOCK FALSE
