CONSTANTS
  MaxVersion = 2
  MaxUpdates = 3
  MaxCrashes = 1
SPECIFICATION Spec
INVARIANT
  OneUpdaterApplies
CHECK_DEADLOCK FALSE
